--------------------------- MODULE GovernorProofs ---------------------------
(***************************************************************************)
(* Theorems about Governor, for any devices, transfers, curves and rates.  *)
(***************************************************************************)
EXTENDS Governor, FoldTheorems, TLAPS

(* A worker in one of these states has popped a transfer.                  *)
Busy == WorkerStates \ {"none", "top", "pop", "exited"}

(* Transfers stay with the worker of their issuing device.                 *)
Placed ==
  /\ \A k \in Devices : worker[k] \in Busy =>
       serving[k] \in Transfers /\ Key(serving[k]) = k
  /\ \A k \in Devices : \A i \in 1..Len(queue[k]) : Key(queue[k][i]) = k

TypeInv == TypeOK /\ Placed

-----------------------------------------------------------------------------
LEMMA KeyIsDevice == \A t \in Transfers : Key(t) \in Devices
  BY LedgerAssumption DEF Key, Endpoints

LEMMA TypeInvInit == Init => TypeInv
<1> SUFFICES ASSUME Init PROVE TypeInv
  OBVIOUS
<1>1. TypeOK
  <2>1. TrimUnit \in TrimLevels /\ NoView \in [Devices -> TrimLevels \cup {0}]
    BY GovernorAssumption DEF NoView
  <2>2. DOMAIN active \subseteq Transfers
    BY DEF Init, LedgerInit
  <2>3. trims \in [Devices -> TrimLevels \cup {0}]
    BY <2>1 DEF Init
  <2>4. view \in [Threads -> [Devices -> TrimLevels \cup {0}]]
    BY <2>1 DEF Init
  <2>5. queue \in [Devices -> Seq(Transfers)]
    BY DEF Init
  <2>6. /\ worker \in [Devices -> WorkerStates]
        /\ serving \in [Devices -> Transfers \cup {None}]
        /\ pendingDst \in [Devices -> Int]
    BY DEF Init, WorkerStates
  <2>7. /\ launched \in [Transfers -> Nat]
        /\ inflight \in [Transfers -> Nat]
        /\ mirror \in [Transfers -> {"off", "wait", "view"}]
        /\ boxCancel \in [Transfers -> BOOLEAN]
        /\ outcome \in [Transfers -> {"none", "copied", "cancelled", "error"}]
    BY DEF Init
  <2> QED
    BY <2>2, <2>3, <2>4, <2>5, <2>6, <2>7 DEF Init, TypeOK
<1>2. Placed
  BY DEF Init, Placed, Busy
<1> QED
  BY <1>1, <1>2 DEF TypeInv

LEMMA TypeInvNext == TypeInv /\ [Next]_vars => TypeInv'
<1> SUFFICES ASSUME TypeInv, [Next]_vars PROVE TypeInv'
  OBVIOUS
<1> USE DEF TypeInv
<1>v. ASSUME NEW th \in Threads, BeginView(th) \/ EndView(th) \/ UNCHANGED view
      PROVE  view' \in [Threads -> [Devices -> TrimLevels \cup {0}]]
  <2>1. TrimView \in [Devices -> TrimLevels \cup {0}] /\ NoView \in [Devices -> TrimLevels \cup {0}]
    BY DEF TrimView, NoView, TypeOK
  <2> QED
    BY <1>v, <2>1 DEF BeginView, EndView, TypeOK
<1>1. ASSUME NEW t \in Transfers, Submit(t) PROVE TypeInv'
  BY <1>1, KeyIsDevice, SMTT(40)
  DEF Submit, Enqueue, TypeOK, Placed, transferVars, WorkerStates, Busy
<1>2. ASSUME NEW t \in Transfers, Resubmit(t) PROVE TypeInv'
  <2>1. TypeOK'
    BY <1>2, KeyIsDevice DEF Resubmit, Enqueue, TypeOK, WorkerStates
  <2>2. Placed'
    BY <1>2, KeyIsDevice DEF Resubmit, Enqueue, TypeOK, Placed, Busy
  <2> QED
    BY <2>1, <2>2
<1>3. ASSUME NEW d \in Devices, FeedVictim(d) PROVE TypeInv'
  BY <1>3, GovernorAssumption
  DEF FeedVictim, engineVars, TypeOK, Placed, transferVars
<1>4. ASSUME NEW d \in Devices, AdjustTrim(d) PROVE TypeInv'
  BY <1>4, GovernorAssumption
  DEF AdjustTrim, engineVars, TypeOK, Placed, transferVars
<1>5. ASSUME NEW k \in Devices, LoopTop(k) PROVE TypeInv'
  BY <1>5
  DEF LoopTop, Goto, engineVars, transferVars, TypeOK, Placed, WorkerStates, Busy
<1>6. ASSUME NEW k \in Devices, PopQueue(k) PROVE TypeInv'
  <2>1. CASE queue[k] = << >>
    BY <1>6, <2>1 DEF PopQueue, Goto, transferVars, TypeOK, Placed, WorkerStates, Busy
  <2>2. CASE queue[k] # << >>
    <3> DEFINE q == queue[k]
    <3>1. q \in Seq(Transfers) /\ q # << >>
      BY <2>2 DEF TypeOK
    <3>2. /\ Head(q) \in Transfers /\ Head(q) = q[1]
          /\ Tail(q) \in Seq(Transfers)
          /\ 1 \in 1..Len(q)
          /\ \A i \in 1..Len(Tail(q)) : i + 1 \in 1..Len(q) /\ Tail(q)[i] = q[i + 1]
      BY <3>1
    <3>3. /\ serving' = [serving EXCEPT ![k] = Head(q)]
          /\ queue' = [queue EXCEPT ![k] = Tail(q)]
          /\ worker' = [worker EXCEPT ![k] = "poll"]
      BY <1>6, <2>2 DEF PopQueue, Goto
    <3>4. TypeOK'
      BY <1>6, <3>2, <3>3 DEF PopQueue, transferVars, TypeOK, WorkerStates
    <3>5. Key(Head(q)) = k /\ \A i \in 1..Len(Tail(q)) : Key(Tail(q)[i]) = k
      BY <3>2 DEF Placed
    <3>6. Placed'
      BY <3>2, <3>3, <3>5 DEF TypeOK, Placed, Busy
    <3> QED
      BY <3>4, <3>6
  <2> QED
    BY <2>1, <2>2
<1>7. ASSUME NEW k \in Devices, PollAdmission(k) PROVE TypeInv'
  <2>1. BeginView(k) \/ EndView(k) \/ UNCHANGED view
    BY <1>7 DEF PollAdmission
  <2>2. view' \in [Threads -> [Devices -> TrimLevels \cup {0}]]
    BY <2>1, <1>v DEF Threads
  <2>3. TypeOK'
    BY <1>7, <2>2 DEF PollAdmission, Goto, engineVars, transferVars, TypeOK, WorkerStates, Busy
  <2>4. Placed'
    BY <1>7 DEF PollAdmission, Goto, engineVars, transferVars, TypeOK, Placed, WorkerStates, Busy
  <2> QED
    BY <2>3, <2>4
<1>8. ASSUME NEW k \in Devices, TryAdmit(k) PROVE TypeInv'
  <2>1. BeginView(k) \/ EndView(k) \/ UNCHANGED view
    BY <1>8 DEF TryAdmit, Raise
  <2>2. view' \in [Threads -> [Devices -> TrimLevels \cup {0}]]
    BY <2>1, <1>v DEF Threads
  <2>3. TypeOK'
    <3>1. serving[k] \in Transfers
      BY <1>8 DEF TryAdmit, Placed, WorkerStates, Busy
    <3>2. DOMAIN active' \subseteq Transfers
      BY <1>8, <3>1 DEF TryAdmit, Raise, Defer, Admit, TypeOK
    <3>3. outcome' \in [Transfers -> {"none", "copied", "cancelled", "error"}]
      BY <1>8, <3>1 DEF TryAdmit, Raise, TypeOK
    <3>4. worker' \in [Devices -> WorkerStates]
      <4>1. Goto(k, "finish") \/ Goto(k, "poll") \/ Goto(k, "admitted")
        BY <1>8 DEF TryAdmit, Raise
      <4> QED
        BY <4>1 DEF Goto, TypeOK, WorkerStates
    <3> QED
      BY <1>8, <2>2, <3>2, <3>3, <3>4 DEF TryAdmit, engineVars, TypeOK
  <2>4. Placed'
    BY <1>8 DEF TryAdmit, Raise, Defer, Admit, Goto, engineVars, TypeOK, Placed, WorkerStates, Busy
  <2> QED
    BY <2>3, <2>4
<1>9. ASSUME NEW k \in Devices, BeginTrim0(k) PROVE TypeInv'
  <2>1. BeginView(k) \/ EndView(k)
    BY <1>9 DEF BeginTrim0
  <2>2. view' \in [Threads -> [Devices -> TrimLevels \cup {0}]]
    BY <2>1, <1>v DEF Threads
  <2>3. TypeOK'
    BY <1>9, <2>2 DEF BeginTrim0, Goto, engineVars, transferVars, TypeOK, WorkerStates, Busy
  <2>4. Placed'
    BY <1>9 DEF BeginTrim0, Goto, engineVars, transferVars, TypeOK, Placed, WorkerStates, Busy
  <2> QED
    BY <2>3, <2>4
<1>10. ASSUME NEW k \in Devices, StartCopy(k) PROVE TypeInv'
  <2>1. BeginView(k) \/ EndView(k) \/ UNCHANGED view
    BY <1>10 DEF StartCopy, Raise
  <2>2. view' \in [Threads -> [Devices -> TrimLevels \cup {0}]]
    BY <2>1, <1>v DEF Threads
  <2>3. TypeOK'
    BY <1>10, <2>2 DEF StartCopy, Raise, Goto, engineVars, TypeOK, WorkerStates, Busy
  <2>4. Placed'
    BY <1>10 DEF StartCopy, Raise, Goto, engineVars, TypeOK, Placed, WorkerStates, Busy
  <2> QED
    BY <2>3, <2>4
<1>11. ASSUME NEW k \in Devices, NativeBoot(k) PROVE TypeInv'
  <2>1. BeginView(k) \/ EndView(k)
    BY <1>11 DEF NativeBoot
  <2>2. view' \in [Threads -> [Devices -> TrimLevels \cup {0}]]
    BY <2>1, <1>v DEF Threads
  <2>3. TypeOK'
    BY <1>11, <2>2 DEF NativeBoot, Rescale, UpdateRate, Goto, engineVars, TypeOK, WorkerStates, Busy
  <2>4. Placed'
    BY <1>11 DEF NativeBoot, Rescale, UpdateRate, Goto, engineVars, TypeOK, Placed, WorkerStates, Busy
  <2> QED
    BY <2>3, <2>4
<1>12. ASSUME NEW k \in Devices, CheckCancel(k) PROVE TypeInv'
  BY <1>12
  DEF CheckCancel, Goto, engineVars, TypeOK, Placed, WorkerStates, Busy
<1>13. ASSUME NEW k \in Devices, CancelInGap(k) PROVE TypeInv'
  BY <1>13
  DEF CancelInGap, Goto, engineVars, TypeOK, Placed, WorkerStates, Busy
<1>14. ASSUME NEW k \in Devices, LaunchChunk(k) PROVE TypeInv'
  <2>1. BeginView(k) \/ EndView(k) \/ UNCHANGED view
    BY <1>14 DEF LaunchChunk
  <2>2. view' \in [Threads -> [Devices -> TrimLevels \cup {0}]]
    BY <2>1, <1>v DEF Threads
  <2>3. TypeOK'
    <3>1. Goto(k, "check") \/ Goto(k, "rate")
      BY <1>14 DEF LaunchChunk
    <3>2. worker' \in [Devices -> WorkerStates]
      BY <3>1 DEF Goto, TypeOK, WorkerStates
    <3>3. /\ launched' \in [Transfers -> Nat]
          /\ inflight' \in [Transfers -> Nat]
      <4> DEFINE t == serving[k]
      <4>1. /\ launched' = [launched EXCEPT ![t] = launched[t] + 1]
            /\ inflight' = [inflight EXCEPT ![t] = inflight[t] + 1]
        BY <1>14 DEF LaunchChunk
      <4>2. t \in Transfers
        BY <1>14 DEF LaunchChunk, Placed, WorkerStates, Busy
      <4>3. launched[t] + 1 \in Nat /\ inflight[t] + 1 \in Nat
        BY <4>2 DEF TypeOK
      <4> HIDE DEF t
      <4> QED
        BY <4>1, <4>2, <4>3 DEF TypeOK
    <3> QED
      BY <1>14, <2>2, <3>2, <3>3 DEF LaunchChunk, engineVars, TypeOK
  <2>4. Placed'
    BY <1>14 DEF LaunchChunk, Goto, engineVars, TypeOK, Placed, WorkerStates, Busy
  <2> QED
    BY <2>3, <2>4
<1>15. ASSUME NEW k \in Devices, ApplyRate(k) PROVE TypeInv'
  <2>1. BeginView(k) \/ EndView(k)
    BY <1>15 DEF ApplyRate
  <2>2. view' \in [Threads -> [Devices -> TrimLevels \cup {0}]]
    BY <2>1, <1>v DEF Threads
  <2>3. TypeOK'
    BY <1>15, <2>2 DEF ApplyRate, Rescale, UpdateRate, Goto, engineVars, TypeOK, WorkerStates, Busy
  <2>4. Placed'
    BY <1>15 DEF ApplyRate, Rescale, UpdateRate, Goto, engineVars, TypeOK, Placed, WorkerStates, Busy
  <2> QED
    BY <2>3, <2>4
<1>16. ASSUME NEW k \in Devices, CudaError(k) PROVE TypeInv'
  BY <1>16
  DEF CudaError, StopMirror, Goto, engineVars, TypeOK, Placed, WorkerStates, Busy
<1>17. ASSUME NEW k \in Devices, Drain(k) PROVE TypeInv'
  BY <1>17
  DEF Drain, StopMirror, Goto, engineVars, TypeOK, Placed, WorkerStates, Busy
<1>18. ASSUME NEW k \in Devices, Unwind(k) PROVE TypeInv'
  BY <1>18
  DEF Unwind, Release, Goto, engineVars, transferVars, TypeOK, Placed, WorkerStates, Busy
<1>19. ASSUME NEW k \in Devices, Finish(k) PROVE TypeInv'
  <2>1. serving[k] \in Transfers
    BY <1>19 DEF Finish, Placed, WorkerStates, Busy
  <2>2. TypeOK'
    BY <1>19, <2>1 DEF Finish, Goto, engineVars, transferVars, TypeOK, WorkerStates
  <2>3. Placed'
    BY <1>19 DEF Finish, Goto, TypeOK, Placed, WorkerStates, Busy
  <2> QED
    BY <2>2, <2>3
<1>20. ASSUME NEW t \in Transfers, MirrorWake(t) PROVE TypeInv'
  <2>1. BeginView(t) \/ EndView(t) \/ UNCHANGED view
    BY <1>20 DEF MirrorWake
  <2>2. view' \in [Threads -> [Devices -> TrimLevels \cup {0}]]
    BY <2>1, <1>v DEF Threads
  <2>3. TypeOK'
    BY <1>20, <2>2 DEF MirrorWake, engineVars, TypeOK
  <2>4. Placed'
    BY <1>20 DEF MirrorWake, engineVars, TypeOK, Placed
  <2> QED
    BY <2>3, <2>4
<1>21. ASSUME NEW t \in Transfers, MirrorRate(t) PROVE TypeInv'
  <2>1. BeginView(t) \/ EndView(t)
    BY <1>21 DEF MirrorRate
  <2>2. view' \in [Threads -> [Devices -> TrimLevels \cup {0}]]
    BY <2>1, <1>v DEF Threads
  <2>3. TypeOK'
    BY <1>21, <2>2 DEF MirrorRate, Rescale, UpdateRate, engineVars, TypeOK
  <2>4. Placed'
    BY <1>21 DEF MirrorRate, Rescale, UpdateRate, engineVars, TypeOK, Placed
  <2> QED
    BY <2>3, <2>4
<1>22. ASSUME NEW t \in Transfers, ChunkLands(t) PROVE TypeInv'
  BY <1>22
  DEF ChunkLands, engineVars, TypeOK, Placed
<1>23. ASSUME Shutdown PROVE TypeInv'
  BY <1>23
  DEF Shutdown, ShutdownBegin, JoinWorkers, DrainStreams, ShutdownRaises, Workers,
      engineVars, transferVars, TypeOK, Placed
<1>24. CASE UNCHANGED vars
  BY <1>24 DEF vars, TypeOK, Placed
<1> QED
  BY <1>1, <1>2, <1>3, <1>4, <1>5, <1>6, <1>7, <1>8, <1>9, <1>10, <1>11, <1>12, <1>13, <1>14, <1>15, <1>16, <1>17, <1>18, <1>19, <1>20, <1>21, <1>22, <1>23, <1>24 DEF Next, WorkerStep

(* Every reachable state is well typed, whatever the devices, transfers,   *)
(* curves, trims and faults.                                               *)
THEOREM TypeCorrect == Spec => []TypeOK
<1>1. Spec => []TypeInv
  BY TypeInvInit, TypeInvNext, PTL DEF Spec
<1> QED
  BY <1>1, PTL DEF TypeInv

-----------------------------------------------------------------------------
(* The trims dictionary is complete before the first transfer, or not used *)
(* at all ("ff" mode).                                                     *)
TrimsSettled == ~Feedback \/ Victims \subseteq InitialVictims

Registrations == IF Feedback THEN InitialVictims ELSE {}

(* Then no thread can see the dictionary change under its walk.            *)
ViewsWhole ==
  /\ Registered(TrimView) = Registrations
  /\ \A th \in Threads : Registered(view[th]) \in {{}, Registrations}

LEMMA NoBreak == ViewsWhole => \A th \in Threads : ~MayBreak(th)
  BY DEF ViewsWhole, MayBreak

LEMMA ViewsWholeInit == Init => ViewsWhole
<1> SUFFICES ASSUME Init PROVE ViewsWhole
  OBVIOUS
<1>1. \A d \in Devices : trims[d] # 0 <=> d \in InitialVictims
  BY GovernorAssumption, LedgerAssumption DEF Init
<1>2. InitialVictims \subseteq Devices
  BY GovernorAssumption
<1>3. Registered(NoView) = {}
  BY DEF Registered, NoView
<1>4. Registered(trims) = InitialVictims
  BY <1>1, <1>2 DEF Registered
<1>5. \A th \in Threads : view[th] = NoView
  BY DEF Init
<1> QED
  BY <1>3, <1>4, <1>5, GovernorAssumption DEF ViewsWhole, TrimView, Registrations

(* A step changes the trims only by feeding or adjusting one, and a view   *)
(* only by beginning or ending it.                                         *)
LEMMA StepOnViews ==
  ASSUME [Next]_vars
  PROVE  /\ \/ \E d \in Devices : FeedVictim(d) \/ AdjustTrim(d)
            \/ UNCHANGED trims
         /\ \/ \E th \in Threads : BeginView(th) \/ EndView(th)
            \/ UNCHANGED view
<1>1. CASE UNCHANGED vars
  BY <1>1 DEF vars
<1>2. CASE \E t \in Transfers : Submit(t) \/ Resubmit(t)
  BY <1>2 DEF Submit, Resubmit
<1>3. CASE \E d \in Devices : FeedVictim(d) \/ AdjustTrim(d)
  BY <1>3 DEF FeedVictim, AdjustTrim
<1>4. ASSUME NEW k \in Devices, WorkerStep(k)
      PROVE  UNCHANGED trims /\ (BeginView(k) \/ EndView(k) \/ UNCHANGED view)
  BY <1>4
  DEF WorkerStep, LoopTop, PopQueue, PollAdmission, TryAdmit, Raise, BeginTrim0,
      StartCopy, NativeBoot, CheckCancel, CancelInGap, LaunchChunk, ApplyRate,
      CudaError, Drain, Unwind, Finish
<1>5. ASSUME NEW t \in Transfers, MirrorWake(t) \/ MirrorRate(t) \/ ChunkLands(t)
      PROVE  UNCHANGED trims /\ (BeginView(t) \/ EndView(t) \/ UNCHANGED view)
  BY <1>5 DEF MirrorWake, MirrorRate, ChunkLands
<1>6. CASE Shutdown
  BY <1>6 DEF Shutdown, ShutdownBegin, JoinWorkers, DrainStreams, ShutdownRaises
<1> QED
  BY <1>1, <1>2, <1>3, <1>4, <1>5, <1>6 DEF Next, Threads

LEMMA ViewsWholeNext ==
  ASSUME TrimsSettled, TypeOK, ViewsWhole, [Next]_vars
  PROVE  ViewsWhole'
<1>1. Registered(TrimView)' = Registrations
  <2>1. CASE UNCHANGED trims
    BY <2>1 DEF ViewsWhole, TrimView, Registered
  <2>2. ASSUME NEW d \in Devices, FeedVictim(d) PROVE Registered(TrimView)' = Registrations
    <3>1. CASE Feedback
      <4>1. d \in Registered(trims)
        BY <2>2, <3>1, GovernorAssumption
        DEF FeedVictim, TrimsSettled, ViewsWhole, TrimView, Registrations
      <4> QED
        BY <2>2, <4>1 DEF FeedVictim, Registered
    <3>2. CASE ~Feedback
      BY <3>2 DEF ViewsWhole, TrimView, Registered
    <3> QED
      BY <3>1, <3>2
  <2>3. ASSUME NEW d \in Devices, AdjustTrim(d) PROVE Registered(TrimView)' = Registrations
    <3>1. PICK mult \in TrimLevels : trims' = [trims EXCEPT ![d] = mult]
      BY <2>3 DEF AdjustTrim
    <3>2. mult # 0 /\ trims[d] # 0 /\ Feedback
      BY <2>3, <3>1, GovernorAssumption DEF AdjustTrim
    <3>3. \A e \in Devices : trims'[e] # 0 <=> trims[e] # 0
      BY <3>1, <3>2 DEF TypeOK
    <3> QED
      BY <3>2, <3>3 DEF ViewsWhole, TrimView, Registered
  <2> QED
    BY <2>1, <2>2, <2>3, StepOnViews
<1>2. ASSUME NEW x \in Threads PROVE Registered(view[x])' \in {{}, Registrations}
  <2>1. Registered(NoView) = {}
    BY DEF Registered, NoView
  <2>2. view \in [Threads -> [Devices -> TrimLevels \cup {0}]]
    BY DEF TypeOK
  <2>3. CASE UNCHANGED view
    BY <2>3 DEF ViewsWhole, Registered
  <2>4. ASSUME NEW th \in Threads, BeginView(th) \/ EndView(th)
        PROVE  view'[x] \in {view[x], TrimView, NoView}
    BY <2>2, <2>4 DEF BeginView, EndView
  <2>5. ASSUME view'[x] \in {view[x], TrimView, NoView}
        PROVE  Registered(view[x])' \in {{}, Registrations}
    BY <2>1, <2>5 DEF ViewsWhole, Registered
  <2> QED
    BY <2>3, <2>4, <2>5, StepOnViews
<1> QED
  BY <1>1, <1>2 DEF ViewsWhole

-----------------------------------------------------------------------------
(* One worker per transfer, so a lease has at most one holder.             *)
LEMMA OneServer ==
  ASSUME TypeInv, NEW j \in Devices, NEW k \in Devices,
         worker[j] \in Busy, worker[k] \in Busy, serving[j] = serving[k]
  PROVE  j = k
  BY DEF TypeInv, Placed

LEMMA HoldingIsBusy == Holding \subseteq Busy
  BY DEF Holding, Busy, WorkerStates

(* The workers that hold a lease, before and after a step.                 *)
Holders == { k \in Devices : worker[k] \in Holding }

LEMMA LeaseHeldInit == Init => LeaseHeld
  BY DEF Init, LeaseHeld, LedgerInit, Holding

LEMMA LeaseHeldNext ==
  ASSUME TypeInv, ViewsWhole, LeaseHeld, [Next]_vars
  PROVE  LeaseHeld'
<1> DEFINE Same == UNCHANGED <<serving, Holders>> /\ DOMAIN active' = DOMAIN active
<1>s. ASSUME Same PROVE LeaseHeld'
  BY <1>s DEF LeaseHeld, Holders
<1>b. \A th \in Threads : ~MayBreak(th)
  BY NoBreak
<1>1. CASE UNCHANGED vars
  BY <1>1, <1>s DEF vars, Holders
<1>2. ASSUME NEW t \in Transfers, Submit(t) \/ Resubmit(t) PROVE LeaseHeld'
  <2>1. Same
    BY <1>2, KeyIsDevice DEF Submit, Resubmit, Enqueue, Holders, Holding, TypeInv, TypeOK
  <2> QED
    BY <2>1, <1>s
<1>3. ASSUME NEW d \in Devices, FeedVictim(d) \/ AdjustTrim(d) PROVE LeaseHeld'
  BY <1>3, <1>s DEF FeedVictim, AdjustTrim, Holders
<1>4. ASSUME NEW k \in Devices,
             \/ LoopTop(k) \/ PollAdmission(k) \/ BeginTrim0(k) \/ CheckCancel(k)
             \/ CancelInGap(k) \/ LaunchChunk(k) \/ CudaError(k) \/ Drain(k)
      PROVE  LeaseHeld'
  <2>1. Same
    BY <1>4
    DEF LoopTop, PollAdmission, BeginTrim0, CheckCancel, CancelInGap, LaunchChunk,
        CudaError, Drain, Goto, Holders, Holding, TypeInv, TypeOK
  <2> QED
    BY <2>1, <1>s
<1>5. ASSUME NEW k \in Devices, StartCopy(k) PROVE LeaseHeld'
  <2>1. Same
    BY <1>5, <1>b DEF StartCopy, Threads, Goto, Holders, Holding, TypeInv, TypeOK
  <2> QED
    BY <2>1, <1>s
<1>6. ASSUME NEW k \in Devices, NativeBoot(k) \/ ApplyRate(k) PROVE LeaseHeld'
  <2>1. DOMAIN active' = DOMAIN active
    BY <1>6 DEF NativeBoot, ApplyRate, Rescale, UpdateRate
  <2>2. UNCHANGED <<serving, Holders>>
    BY <1>6 DEF NativeBoot, ApplyRate, Goto, Holders, Holding, TypeInv, TypeOK
  <2> QED
    BY <2>1, <2>2, <1>s
<1>7. ASSUME NEW t \in Transfers, MirrorWake(t) \/ MirrorRate(t) \/ ChunkLands(t)
      PROVE  LeaseHeld'
  <2>1. DOMAIN active' = DOMAIN active
    BY <1>7 DEF MirrorWake, MirrorRate, ChunkLands, Rescale, UpdateRate
  <2> QED
    BY <1>7, <2>1, <1>s DEF MirrorWake, MirrorRate, ChunkLands, Holders
<1>8. ASSUME Shutdown PROVE LeaseHeld'
  BY <1>8, <1>s DEF Shutdown, ShutdownBegin, JoinWorkers, DrainStreams, ShutdownRaises, Holders
<1>9. ASSUME NEW k \in Devices, PopQueue(k) \/ Finish(k) PROVE LeaseHeld'
  <2>1. UNCHANGED <<active, Holders>> /\ k \notin Holders
    BY <1>9 DEF PopQueue, Finish, Goto, transferVars, Holders, Holding, TypeInv, TypeOK
  <2>2. \A j \in Holders : serving'[j] = serving[j]
    BY <1>9, <2>1 DEF PopQueue, Finish, Holders, TypeInv, TypeOK
  <2> QED
    BY <2>1, <2>2 DEF LeaseHeld, Holders
<1>10. ASSUME NEW k \in Devices, TryAdmit(k) PROVE LeaseHeld'
  <2>1. worker[k] = "admit" /\ UNCHANGED serving
    BY <1>10 DEF TryAdmit
  <2>2. CASE UNCHANGED active /\ (Goto(k, "finish") \/ Goto(k, "poll"))
    <3>1. Same
      BY <2>1, <2>2 DEF Goto, Holders, Holding, TypeInv, TypeOK
    <3> QED
      BY <3>1, <1>s
  <2>3. ASSUME NEW ambient \in Ambients, Admit(serving[k], ambient, TrimOf(view[k])),
               Goto(k, "admitted")
        PROVE  LeaseHeld'
    <3>1. DOMAIN active' = DOMAIN active \cup {serving[k]}
      BY <2>3 DEF Admit
    <3>2. Holders' = Holders \cup {k}
      BY <2>1, <2>3 DEF Goto, Holders, Holding, TypeInv, TypeOK
    <3> QED
      BY <2>1, <3>1, <3>2 DEF LeaseHeld, Holders
  <2> QED
    BY <1>10, <2>2, <2>3 DEF TryAdmit, Raise, Defer
<1>11. ASSUME NEW k \in Devices, Unwind(k) PROVE LeaseHeld'
  <2>1. k \in Holders /\ UNCHANGED serving /\ Holders' = Holders \ {k}
    BY <1>11 DEF Unwind, Goto, Holders, Holding, TypeInv, TypeOK
  <2>2. DOMAIN active' = DOMAIN active \ {serving[k]}
    BY <1>11 DEF Unwind, Release
  <2>3. \A j \in Holders : serving[j] = serving[k] => j = k
    BY <2>1, HoldingIsBusy, OneServer DEF Holders
  <2> QED
    BY <2>1, <2>2, <2>3 DEF LeaseHeld, Holders
<1> QED
  BY <1>1, <1>2, <1>3, <1>4, <1>5, <1>6, <1>7, <1>8, <1>9, <1>10, <1>11
  DEF Next, WorkerStep

(* No lease is leaked and none outlives its transfer, as long as every     *)
(* victim has fed once before the first transfer, or feeds are not used.   *)
THEOREM LeasesHeld ==
  ASSUME TrimsSettled
  PROVE  Spec => []LeaseHeld
<1> DEFINE Inv == TypeInv /\ ViewsWhole /\ LeaseHeld
<1>1. Init => Inv
  BY TypeInvInit, ViewsWholeInit, LeaseHeldInit
<1>2. Inv /\ [Next]_vars => Inv'
  BY TypeInvNext, ViewsWholeNext, LeaseHeldNext DEF TypeInv
<1> QED
  BY <1>1, <1>2, PTL DEF Spec

-----------------------------------------------------------------------------
(* Where run() may have chunks in flight.                                  *)
Running == {"check", "launch", "rate", "drain"}

InFlightServed ==
  \A t \in Transfers : inflight[t] > 0 =>
    \E k \in Devices : serving[k] = t /\ worker[k] \in Running

LEMMA InFlightServedInit == Init => InFlightServed
  BY DEF Init, InFlightServed

LEMMA InFlightServedNext ==
  ASSUME Faulty = {}, TypeInv, ViewsWhole, InFlightServed, [Next]_vars
  PROVE  InFlightServed'
<1>b. \A th \in Threads : ~MayBreak(th)
  BY NoBreak
<1> USE DEF TypeInv
(* A step that leaves the chunks alone and moves no worker out of run().   *)
<1>s. ASSUME UNCHANGED inflight,
             \A k \in Devices : worker[k] \in Running =>
               serving'[k] = serving[k] /\ worker'[k] \in Running
      PROVE  InFlightServed'
  BY <1>s DEF InFlightServed
<1>1. CASE UNCHANGED vars
  BY <1>1, <1>s DEF vars
<1>2. ASSUME NEW t \in Transfers, Submit(t) \/ Resubmit(t) PROVE InFlightServed'
  BY <1>2, <1>s, KeyIsDevice
  DEF Submit, Resubmit, Enqueue, Running, TypeOK, transferVars
<1>3. ASSUME NEW d \in Devices, FeedVictim(d) \/ AdjustTrim(d) PROVE InFlightServed'
  BY <1>3, <1>s DEF FeedVictim, AdjustTrim, transferVars
<1>4. ASSUME NEW k \in Devices,
             \/ LoopTop(k) \/ PopQueue(k) \/ PollAdmission(k) \/ BeginTrim0(k)
             \/ NativeBoot(k) \/ CheckCancel(k) \/ CancelInGap(k) \/ Unwind(k)
             \/ Finish(k)
      PROVE  InFlightServed'
  BY <1>4, <1>s
  DEF LoopTop, PopQueue, PollAdmission, BeginTrim0, NativeBoot, CheckCancel,
      CancelInGap, Unwind, Finish, Goto, Running, TypeOK, transferVars
<1>5. ASSUME NEW k \in Devices, TryAdmit(k) \/ StartCopy(k) PROVE InFlightServed'
  BY <1>5, <1>s DEF TryAdmit, StartCopy, Raise, Goto, Running, TypeOK
<1>6. ASSUME NEW k \in Devices, ApplyRate(k) PROVE InFlightServed'
  <2>1. worker[k] = "rate" /\ Goto(k, "check") /\ UNCHANGED <<serving, inflight>>
    BY <1>6, <1>b DEF ApplyRate, Threads
  <2> QED
    BY <2>1, <1>s DEF Goto, Running, TypeOK
<1>7. ASSUME NEW k \in Devices, LaunchChunk(k) PROVE InFlightServed'
  <2>1. /\ worker[k] = "launch" /\ UNCHANGED serving
        /\ Goto(k, "check") \/ Goto(k, "rate")
        /\ inflight' = [inflight EXCEPT ![serving[k]] = inflight[serving[k]] + 1]
    BY <1>7 DEF LaunchChunk
  <2>2. \A j \in Devices : worker[j] \in Running => worker'[j] \in Running
    BY <2>1 DEF Goto, Running, TypeOK
  <2>3. worker'[k] \in Running
    BY <2>1, <2>2 DEF Running
  <2>4. \A t \in Transfers : t # serving[k] => inflight'[t] = inflight[t]
    BY <2>1 DEF TypeOK
  <2> QED
    BY <2>1, <2>2, <2>3, <2>4 DEF InFlightServed
<1>8. ASSUME NEW k \in Devices, CudaError(k) PROVE InFlightServed'
  BY <1>8 DEF CudaError
<1>9. ASSUME NEW k \in Devices, Drain(k) PROVE InFlightServed'
  <2>1. /\ inflight[serving[k]] = 0 /\ UNCHANGED <<inflight, serving>>
        /\ Goto(k, "unwind")
    BY <1>9 DEF Drain
  <2>2. \A j \in Devices : j # k => worker'[j] = worker[j]
    BY <2>1 DEF Goto, TypeOK
  <2> QED
    BY <2>1, <2>2 DEF InFlightServed
<1>10. ASSUME NEW t \in Transfers, MirrorWake(t) \/ MirrorRate(t) PROVE InFlightServed'
  BY <1>10, <1>s DEF MirrorWake, MirrorRate
<1>11. ASSUME NEW t \in Transfers, ChunkLands(t) PROVE InFlightServed'
  BY <1>11 DEF ChunkLands, InFlightServed, TypeOK
<1>12. ASSUME Shutdown PROVE InFlightServed'
  BY <1>12, <1>s DEF Shutdown, ShutdownBegin, JoinWorkers, DrainStreams, ShutdownRaises, transferVars
<1> QED
  BY <1>1, <1>2, <1>3, <1>4, <1>5, <1>6, <1>7, <1>8, <1>9, <1>10, <1>11, <1>12
  DEF Next, WorkerStep

(* No chunk moves outside a lease, when the trims are settled and no CUDA  *)
(* call fails: release() always comes after the drain.                     *)
THEOREM ChunksCovered ==
  ASSUME TrimsSettled, Faulty = {}
  PROVE  Spec => []InFlightCovered
<1> DEFINE Inv == TypeInv /\ ViewsWhole /\ LeaseHeld /\ InFlightServed
<1>1. Init => Inv
  BY TypeInvInit, ViewsWholeInit, LeaseHeldInit, InFlightServedInit
<1>2. Inv /\ [Next]_vars => Inv'
  BY TypeInvNext, ViewsWholeNext, LeaseHeldNext, InFlightServedNext DEF TypeInv
<1>3. Inv => InFlightCovered
  BY DEF LeaseHeld, InFlightServed, InFlightCovered, Running, Holding
<1> QED
  BY <1>1, <1>2, <1>3, PTL DEF Spec

-----------------------------------------------------------------------------
(* No toolchain, or pacer="python".                                       *)
PythonOnly == "native" \notin Actuators

(* A worker inserted since the walk over the workers began finds the stop  *)
(* flag set before it takes anything from its queue.                       *)
LateIdle ==
  /\ shut # "open" => stop
  /\ shut = "joining" =>
       \A k \in Devices \ roll : worker[k] \in {"none", "top", "exited"}

LEMMA LateIdleNext ==
  ASSUME TypeInv, LateIdle, [Next]_vars
  PROVE  LateIdle'
<1> USE DEF TypeInv
<1>1. CASE UNCHANGED vars
  BY <1>1 DEF vars, LateIdle
<1>2. ASSUME NEW t \in Transfers, Submit(t) \/ Resubmit(t) PROVE LateIdle'
  <2>1. /\ UNCHANGED <<stop, shut, roll>>
        /\ worker' = [worker EXCEPT ![Key(t)] = IF @ = "none" THEN "top" ELSE @]
    BY <1>2 DEF Submit, Resubmit, Enqueue
  <2> QED
    BY <2>1, KeyIsDevice DEF LateIdle, TypeOK
<1>3. ASSUME NEW d \in Devices, FeedVictim(d) \/ AdjustTrim(d) PROVE LateIdle'
  BY <1>3 DEF FeedVictim, AdjustTrim, LateIdle
<1>4. ASSUME NEW k \in Devices, LoopTop(k) PROVE LateIdle'
  BY <1>4 DEF LoopTop, Goto, LateIdle, TypeOK
<1>5. ASSUME NEW k \in Devices, WorkerStep(k), ~LoopTop(k) PROVE LateIdle'
  <2>1. /\ worker[k] \notin {"none", "top", "exited"}
        /\ UNCHANGED <<stop, shut, roll>>
        /\ \A j \in Devices \ {k} : worker'[j] = worker[j]
    BY <1>5
    DEF WorkerStep, PopQueue, PollAdmission, TryAdmit, Raise, BeginTrim0, StartCopy,
        NativeBoot, CheckCancel, CancelInGap, LaunchChunk, ApplyRate, CudaError,
        Drain, Unwind, Finish, Goto, TypeOK
  <2> QED
    BY <2>1 DEF LateIdle
<1>6. ASSUME NEW t \in Transfers, MirrorWake(t) \/ MirrorRate(t) \/ ChunkLands(t)
      PROVE LateIdle'
  BY <1>6 DEF MirrorWake, MirrorRate, ChunkLands, LateIdle
<1>7. CASE ShutdownBegin
  BY <1>7 DEF ShutdownBegin, Workers, LateIdle
<1>8. CASE JoinWorkers \/ DrainStreams \/ ShutdownRaises
  BY <1>8 DEF JoinWorkers, DrainStreams, ShutdownRaises, DictionaryGrew, LateIdle
<1> QED
  BY <1>1, <1>2, <1>3, <1>4, <1>5, <1>6, <1>7, <1>8 DEF Next, Shutdown

(* Once the workers have been joined none of them comes back, and the      *)
(* streams are synchronized after that.                                    *)
ShutOrder ==
  /\ LateIdle
  /\ shut \in {"joined", "returned"} =>
       \A k \in Devices : worker[k] \in {"none", "top", "exited"}
  /\ shut = "returned" => \A t \in Transfers : inflight[t] = 0

LEMMA ShutOrderNext ==
  ASSUME PythonOnly, TypeInv, ShutOrder, [Next]_vars
  PROVE  ShutOrder'
<1> USE DEF TypeInv
<1>n. ~Native
  BY DEF PythonOnly, Native, TypeOK
<1>l. LateIdle'
  BY LateIdleNext DEF ShutOrder
<1>1. CASE UNCHANGED vars
  BY <1>1, <1>l DEF vars, ShutOrder
<1>2. ASSUME NEW t \in Transfers, Submit(t) \/ Resubmit(t) PROVE ShutOrder'
  <2>1. /\ UNCHANGED <<inflight, stop, shut>>
        /\ worker' = [worker EXCEPT ![Key(t)] = IF @ = "none" THEN "top" ELSE @]
    BY <1>2 DEF Submit, Resubmit, Enqueue, transferVars
  <2>2. \A k \in Devices : worker[k] \in {"none", "top", "exited"} =>
          worker'[k] \in {"none", "top", "exited"}
    BY <2>1, KeyIsDevice DEF TypeOK
  <2> QED
    BY <2>1, <2>2, <1>l DEF ShutOrder
<1>3. ASSUME NEW d \in Devices, FeedVictim(d) \/ AdjustTrim(d) PROVE ShutOrder'
  BY <1>3, <1>l DEF FeedVictim, AdjustTrim, ShutOrder, transferVars
<1>4. ASSUME NEW k \in Devices, LoopTop(k) PROVE ShutOrder'
  BY <1>4, <1>l DEF LoopTop, Goto, ShutOrder, LateIdle, TypeOK, transferVars
<1>5. ASSUME NEW k \in Devices, WorkerStep(k), ~LoopTop(k) PROVE ShutOrder'
  <2>1. worker[k] \notin {"none", "top", "exited"} /\ UNCHANGED <<stop, shut>>
    BY <1>5
    DEF WorkerStep, PopQueue, PollAdmission, TryAdmit, BeginTrim0, StartCopy,
        NativeBoot, CheckCancel, CancelInGap, LaunchChunk, ApplyRate, CudaError,
        Drain, Unwind, Finish
  <2>2. shut \notin {"joined", "returned"}
    BY <2>1 DEF ShutOrder
  <2> QED
    BY <2>1, <2>2, <1>l DEF ShutOrder
<1>6. ASSUME NEW t \in Transfers, MirrorWake(t) \/ MirrorRate(t) PROVE ShutOrder'
  BY <1>6, <1>l DEF MirrorWake, MirrorRate, ShutOrder
<1>7. ASSUME NEW t \in Transfers, ChunkLands(t) PROVE ShutOrder'
  BY <1>7, <1>l DEF ChunkLands, ShutOrder
<1>8. CASE ShutdownBegin
  BY <1>8, <1>l DEF ShutdownBegin, ShutOrder, transferVars
<1>9. CASE JoinWorkers
  <2>1. \A k \in Devices : worker[k] \in {"none", "top", "exited"}
    BY <1>9, <1>n DEF JoinWorkers, Uncancellable, ShutOrder, LateIdle
  <2> QED
    BY <1>9, <1>l, <2>1 DEF JoinWorkers, ShutOrder
<1>10. CASE DrainStreams
  BY <1>10, <1>n, <1>l DEF DrainStreams, ShutOrder, transferVars
<1>11. CASE ShutdownRaises
  BY <1>11, <1>l DEF ShutdownRaises, ShutOrder
<1> QED
  BY <1>1, <1>2, <1>3, <1>4, <1>5, <1>6, <1>7, <1>8, <1>9, <1>10, <1>11
  DEF Next, Shutdown

(* With the Python actuator nothing moves once shutdown() has returned,    *)
(* errors, new victims and late submissions included.                      *)
THEOREM PythonShutdownQuiesces ==
  ASSUME PythonOnly
  PROVE  Spec => []ShutdownQuiesces
<1> DEFINE Inv == TypeInv /\ ShutOrder
<1>1. Init => Inv
  BY TypeInvInit DEF Init, ShutOrder, LateIdle
<1>2. Inv /\ [Next]_vars => Inv'
  BY TypeInvNext, ShutOrderNext
<1>3. Inv => ShutdownQuiesces
  BY DEF ShutOrder, ShutdownQuiesces, Holding
<1> QED
  BY <1>1, <1>2, <1>3, PTL DEF Spec
-----------------------------------------------------------------------------
(* The ledger's arithmetic.                                                *)
Booked(leases) ==
  DOMAIN leases \subseteq Transfers /\ \A t \in DOMAIN leases : leases[t] \in Nat

(* Every trim at 1.0.                                                      *)
FullTrim == [d \in Devices |-> TrimUnit]

LEMMA BookedSum ==
  ASSUME NEW leases, Booked(leases), NEW S \in SUBSET DOMAIN leases
  PROVE  /\ IsFiniteSet(S) /\ \A t \in S : leases[t] \in Nat
         /\ TotalRate(leases, S) \in Nat
<1>1. IsFiniteSet(S) /\ \A t \in S : leases[t] \in Nat
  BY LedgerAssumption, FS_Subset DEF Booked
<1> QED
  BY <1>1, SumNat DEF TotalRate

LEMMA AllocatedNat ==
  ASSUME NEW leases, Booked(leases), NEW dev, NEW role, NEW route
  PROVE  Allocated(leases, dev, role, route) \in Nat
<1>1. LeasesAt(leases, dev, role, route) \in SUBSET DOMAIN leases
  BY DEF LeasesAt
<1> QED
  BY <1>1, BookedSum DEF Allocated

(* A route's cost never dips as its rate grows.                            *)
LEMMA RouteCostMono ==
  ASSUME NEW role \in Roles, NEW route \in DOMAIN UpperCost[role],
         NEW a \in Nat, NEW b \in Nat, a <= b
  PROVE  /\ RouteCost(role, route, a) \in Nat /\ RouteCost(role, route, b) \in Nat
         /\ RouteCost(role, route, a) <= RouteCost(role, route, b)
<1> DEFINE curve == UpperCost[role][route]
           Clamp(r) == IF r > MaxRate THEN MaxRate ELSE r
<1>1. /\ curve \in [0..MaxRate -> Nat]
      /\ \A r1, r2 \in 0..MaxRate : r1 <= r2 => curve[r1] <= curve[r2]
  BY CurveAssumption
<1>2. Clamp(a) \in 0..MaxRate /\ Clamp(b) \in 0..MaxRate /\ Clamp(a) <= Clamp(b)
  BY LedgerAssumption
<1>3. curve[Clamp(a)] \in Nat /\ curve[Clamp(b)] \in Nat /\ curve[Clamp(a)] <= curve[Clamp(b)]
  BY <1>1, <1>2
<1>4. /\ RouteCost(role, route, a) = IF a > 0 THEN curve[Clamp(a)] ELSE 0
      /\ RouteCost(role, route, b) = IF b > 0 THEN curve[Clamp(b)] ELSE 0
  BY DEF RouteCost, PredictUpper
<1> HIDE DEF curve, Clamp
<1> QED
  BY <1>3, <1>4

(* Whatever rate the inversion allows costs no more than was asked for.    *)
LEMMA InvertFits ==
  ASSUME NEW role \in Roles, NEW route \in DOMAIN UpperCost[role], NEW budget \in Nat
  PROVE  /\ Invert(role, route, budget) \in 0..MaxRate
         /\ \A r \in Nat :
              r <= Invert(role, route, budget) => RouteCost(role, route, r) <= budget
<1> DEFINE fits == { r \in 0..MaxRate : UpperCost[role][route][r] <= budget }
<1>1. CASE fits = {}
  <2>1. Invert(role, route, budget) = 0
    BY <1>1 DEF Invert
  <2>2. \A r \in Nat : r <= 0 => RouteCost(role, route, r) = 0
    BY DEF RouteCost
  <2> QED
    BY <2>1, <2>2, LedgerAssumption
<1>2. CASE fits # {}
  <2>1. IsFiniteSet(fits) /\ fits \subseteq Int
    <3>1. 0 \in Int /\ MaxRate \in Int
      BY LedgerAssumption
    <3>2. IsFiniteSet(0..MaxRate)
      BY <3>1, FS_Interval
    <3>3. fits \subseteq 0..MaxRate /\ 0..MaxRate \subseteq Int
      OBVIOUS
    <3> HIDE DEF fits
    <3> QED
      BY <3>2, <3>3, FS_Subset
  <2>2. PICK top : top = Max(fits)
    OBVIOUS
  <2>3. top \in fits
    BY <1>2, <2>1, <2>2, MaxExists
  <2>4. Invert(role, route, budget) = top
    BY <1>2, <2>2 DEF Invert
  <2>5. top \in 0..MaxRate /\ UpperCost[role][route][top] <= budget /\ top \in Nat
    BY <2>3, LedgerAssumption
  <2>6. ASSUME NEW r \in Nat, r <= top
        PROVE  RouteCost(role, route, r) <= budget
    <3>1. /\ RouteCost(role, route, r) <= RouteCost(role, route, top)
          /\ RouteCost(role, route, r) \in Nat /\ RouteCost(role, route, top) \in Nat
      BY <2>5, <2>6, RouteCostMono
    <3>2. RouteCost(role, route, top) <= budget
      BY <2>5, LedgerAssumption DEF RouteCost, PredictUpper
    <3> QED
      BY <3>1, <3>2
  <2> QED
    BY <2>4, <2>5, <2>6
<1> QED
  BY <1>1, <1>2

LEMMA CostsSum ==
  ASSUME NEW leases, Booked(leases), NEW dev, NEW role \in Roles,
         NEW R \in SUBSET DOMAIN UpperCost[role]
  PROVE  /\ IsFiniteSet(R)
         /\ \A r \in R : /\ RouteCosts(leases, dev, role)[r]
                              = RouteCost(role, r, Allocated(leases, dev, role, r))
                         /\ RouteCosts(leases, dev, role)[r] \in Nat
         /\ SumFunctionOnSet(RouteCosts(leases, dev, role), R) \in Nat
<1>1. IsFiniteSet(R)
  BY CurveAssumption, FS_Subset
<1>2. ASSUME NEW r \in R
      PROVE  /\ RouteCosts(leases, dev, role)[r]
                  = RouteCost(role, r, Allocated(leases, dev, role, r))
             /\ RouteCosts(leases, dev, role)[r] \in Nat
  <2>1. RouteCosts(leases, dev, role)[r] = RouteCost(role, r, Allocated(leases, dev, role, r))
    BY DEF RouteCosts
  <2>2. Allocated(leases, dev, role, r) \in Nat
    BY AllocatedNat
  <2>3. RouteCost(role, r, Allocated(leases, dev, role, r)) \in Nat
    BY <2>2, RouteCostMono
  <2> QED
    BY <2>1, <2>3
<1>3. SumFunctionOnSet(RouteCosts(leases, dev, role), R) \in Nat
  BY <1>1, <1>2, SumNat
<1> QED
  BY <1>1, <1>2, <1>3

(* Less traffic on every route never costs an endpoint more.               *)
LEMMA CostMono ==
  ASSUME NEW leases, Booked(leases), NEW fewer, Booked(fewer), NEW dev, NEW role \in Roles,
         \A r \in DOMAIN UpperCost[role] :
           Allocated(fewer, dev, role, r) <= Allocated(leases, dev, role, r)
  PROVE  EndpointCost(fewer, dev, role) <= EndpointCost(leases, dev, role)
<1> DEFINE R == DOMAIN UpperCost[role]
           F == RouteCosts(fewer, dev, role)
           G == RouteCosts(leases, dev, role)
<1>1. IsFiniteSet(R)
  BY CurveAssumption
<1>2. ASSUME NEW r \in R
      PROVE  F[r] \in Int /\ G[r] \in Int /\ F[r] <= G[r]
  <2>1. /\ Allocated(fewer, dev, role, r) \in Nat /\ Allocated(leases, dev, role, r) \in Nat
        /\ Allocated(fewer, dev, role, r) <= Allocated(leases, dev, role, r)
    BY AllocatedNat
  <2>2. /\ F[r] = RouteCost(role, r, Allocated(fewer, dev, role, r))
        /\ G[r] = RouteCost(role, r, Allocated(leases, dev, role, r))
    BY DEF RouteCosts
  <2> HIDE DEF F, G
  <2> QED
    BY <2>1, <2>2, RouteCostMono
<1> HIDE DEF F, G, R
<1>3. SumFunctionOnSet(F, R) <= SumFunctionOnSet(G, R)
  BY <1>1, <1>2, SumLeq
<1> QED
  BY <1>3 DEF EndpointCost, F, G, R

LEMMA ScaledBack ==
  \A x \in Nat, unit \in Nat \ {0} : (x * unit) \div unit = x
  OBVIOUS

(* A trim of at most one takes nothing beyond what it scales.              *)
LEMMA ScaledDown ==
  ASSUME NEW x \in Nat, NEW m \in Nat, NEW unit \in Nat \ {0}
  PROVE  /\ (x * m) \div unit \in Nat
         /\ m <= unit => (x * m) \div unit <= x
<1> DEFINE q == (x * m) \div unit
<1>1. x * m \in Nat /\ q \in Int /\ q * unit <= x * m /\ x * m < (q + 1) * unit
  OBVIOUS
<1>2. q \in Nat
  OBVIOUS
<1>3. ASSUME m <= unit PROVE q <= x
  <2>1. x * m <= x * unit
    BY <1>3
  <2> HIDE DEF q
  <2>2. q * unit <= x * unit
    BY <1>1, <1>2, <2>1
  <2> QED
    BY <1>2, <2>2
<1> QED
  BY <1>2, <1>3

(* What the other routes leave of eps at an endpoint.                      *)
Left(leases, dev, role, route) ==
  LET spent == CostOfOtherRoutes(leases, dev, role, route)
  IN  IF spent > Eps[role] THEN 0 ELSE Eps[role] - spent

(* A cap is what the inversion allows under the trim, less what is         *)
(* allocated and what is ambient.                                          *)
LEMMA CapBelow ==
  ASSUME NEW leases, Booked(leases), NEW dev \in Devices, NEW role \in Roles,
         NEW route \in DOMAIN UpperCost[role], NEW ambient \in Ambients,
         NEW trim, trim[dev] \in Nat
  PROVE  /\ CostOfOtherRoutes(leases, dev, role, route) \in Nat
         /\ Left(leases, dev, role, route) \in Nat
         /\ Invert(role, route, Left(leases, dev, role, route)) \in Nat
         /\ Allocated(leases, dev, role, route) \in Nat
         /\ EndpointCap(leases, dev, role, route, ambient, trim) \in Int
         /\ trim[dev] <= TrimUnit =>
              EndpointCap(leases, dev, role, route, ambient, trim)
                <= Invert(role, route, Left(leases, dev, role, route))
                     - Allocated(leases, dev, role, route)
<1> DEFINE other == CostOfOtherRoutes(leases, dev, role, route)
           left == Left(leases, dev, role, route)
           most == Invert(role, route, left)
           used == Allocated(leases, dev, role, route)
           others == ambient[dev][role]
           scaled == (most * trim[dev]) \div TrimUnit
<1>1. other \in Nat
  BY CostsSum DEF CostOfOtherRoutes
<1>2. left \in Nat
  <2>1. left = IF other > Eps[role] THEN 0 ELSE Eps[role] - other
    BY DEF Left
  <2> HIDE DEF left, other
  <2> QED
    BY <1>1, <2>1, LedgerAssumption
<1>3. most \in Nat
  <2>1. most \in 0..MaxRate
    BY <1>2, InvertFits
  <2> QED
    BY <2>1, LedgerAssumption
<1>4. used \in Nat
  BY AllocatedNat
<1>5. others \in Nat
  BY GovernorAssumption
<1>6. EndpointCap(leases, dev, role, route, ambient, trim) = scaled - used - others
  BY Zenon DEF EndpointCap, Left
<1>7. scaled \in Nat /\ (trim[dev] <= TrimUnit => scaled <= most)
  <2>1. TrimUnit \in Nat \ {0}
    BY LedgerAssumption
  <2> HIDE DEF most
  <2> QED
    BY <1>3, <2>1, ScaledDown
<1> HIDE DEF most, used, left, others, scaled
<1>8. /\ EndpointCap(leases, dev, role, route, ambient, trim) \in Int
      /\ trim[dev] <= TrimUnit =>
           EndpointCap(leases, dev, role, route, ambient, trim) <= most - used
  BY <1>3, <1>4, <1>5, <1>6, <1>7
<1> QED
  BY <1>1, <1>2, <1>3, <1>4, <1>8 DEF most, used, left

LEMMA EndpointPriced ==
  ASSUME NEW t \in Transfers, Priceable(Request[t]), NEW role \in Roles,
         EndpointOf(t, role) # Host
  PROVE  EndpointOf(t, role) \in Devices /\ Request[t].route \in DOMAIN UpperCost[role]
  BY LedgerAssumption DEF EndpointOf, Endpoints, Roles, Priceable, Calibrated

LEMMA LinkUsedNat ==
  ASSUME NEW leases, Booked(leases), NEW req
  PROVE  LinkUsed(leases, req) \in Nat
<1>1. { t \in DOMAIN leases : /\ Request[t].route = req.route
                              /\ Request[t].src = req.src
                              /\ Request[t].dst = req.dst } \in SUBSET DOMAIN leases
  OBVIOUS
<1> QED
  BY <1>1, BookedSum DEF LinkUsed

(* admit() grants no more than any of its caps.                            *)
LEMMA GrantWithinCaps ==
  ASSUME NEW leases, Booked(leases), NEW t \in Transfers, Priceable(Request[t]),
         NEW ambient \in Ambients, NEW trim, \A d \in Devices : trim[d] \in Nat,
         NEW rate, rate = MaxAdmissible(leases, Request[t], ambient, trim),
         rate >= MinRate
  PROVE  /\ rate \in Nat \ {0}
         /\ LinkPeak[Request[t].route] # 0 => rate <= LinkPeak[Request[t].route]
         /\ \A role \in Roles :
              EndpointOf(t, role) # Host =>
                rate <= EndpointCap(leases, EndpointOf(t, role), role, Request[t].route,
                                    ambient, trim)
<1> DEFINE req == Request[t]
           CapAt(role) == EndpointCap(leases, EndpointOf(t, role), role, req.route,
                                      ambient, trim)
           linkLeft == LinkPeak[req.route] - LinkUsed(leases, req)
           caps == Caps(leases, req, ambient, trim)
<1>1. /\ req.src \in Endpoints /\ req.dst \in Endpoints /\ {req.src, req.dst} # {Host}
      /\ req.route \in Routes /\ LinkPeak[req.route] \in Nat /\ MinRate \in Nat \ {0}
  BY LedgerAssumption
<1>2. EndpointOf(t, "holder") = req.src /\ EndpointOf(t, "receiver") = req.dst
  BY DEF EndpointOf
<1>3. caps = { CapAt("holder") : x \in {req.src} \ {Host} }
               \cup { CapAt("receiver") : x \in {req.dst} \ {Host} }
               \cup { linkLeft : x \in {req.route} \ { r \in Routes : LinkPeak[r] = 0 } }
  BY <1>2, Zenon DEF Caps
<1>4. \A role \in Roles : EndpointOf(t, role) # Host => CapAt(role) \in Int
  <2> SUFFICES ASSUME NEW role \in Roles, EndpointOf(t, role) # Host
               PROVE  CapAt(role) \in Int
    OBVIOUS
  <2>1. EndpointOf(t, role) \in Devices /\ req.route \in DOMAIN UpperCost[role]
    BY EndpointPriced
  <2> QED
    BY <2>1, CapBelow
<1>5. linkLeft \in Int /\ LinkUsed(leases, req) \in Nat
  BY <1>1, LinkUsedNat
<1> HIDE DEF CapAt
<1>6. caps \subseteq Int
  BY <1>2, <1>3, <1>4, <1>5 DEF Roles
<1>7. IsFiniteSet(caps)
  <2>1. PICK a, b : a = CapAt("holder") /\ b = CapAt("receiver")
    OBVIOUS
  <2>2. IsFiniteSet({a} \cup {b})
    BY FS_Singleton, FS_Union
  <2>3. IsFiniteSet(({a} \cup {b}) \cup {linkLeft})
    BY <2>2, FS_Singleton, FS_Union
  <2>4. caps \subseteq ({a} \cup {b}) \cup {linkLeft}
    BY <1>3, <2>1
  <2> QED
    BY <2>3, <2>4, FS_Subset
<1>8. caps # {}
  BY <1>1, <1>3
<1>9. PICK least : least = Min(caps)
  OBVIOUS
<1>10. least \in Int /\ \A y \in caps : least <= y
  BY <1>6, <1>7, <1>8, <1>9, MinExists
<1>11. rate = Max({0, least})
  BY <1>9 DEF MaxAdmissible
<1>12. rate \in {0, least}
  <2>1. IsFiniteSet({0} \cup {least})
    BY FS_Singleton, FS_Union
  <2>2. {0} \cup {least} = {0, least}
    OBVIOUS
  <2>3. IsFiniteSet({0, least}) /\ {0, least} \subseteq Int /\ {0, least} # {}
    BY <1>10, <2>1, <2>2
  <2> QED
    BY <1>11, <2>3, MaxExists
<1> HIDE DEF caps
<1>13. rate \in Nat \ {0} /\ \A y \in caps : rate <= y
  BY <1>1, <1>10, <1>12
<1>14. LinkPeak[req.route] # 0 => rate <= LinkPeak[req.route]
  <2> SUFFICES ASSUME LinkPeak[req.route] # 0
               PROVE  rate <= LinkPeak[req.route]
    OBVIOUS
  <2>1. linkLeft \in caps
    BY <1>1, <1>3
  <2>2. rate <= linkLeft
    BY <1>13, <2>1
  <2> QED
    BY <1>1, <1>5, <1>13, <2>2
<1>15. ASSUME NEW role \in Roles, EndpointOf(t, role) # Host
       PROVE  rate <= CapAt(role)
  <2>1. CapAt(role) \in caps
    BY <1>2, <1>3, <1>15 DEF Roles
  <2> QED
    BY <1>13, <2>1
<1> QED
  BY <1>13, <1>14, <1>15 DEF CapAt
(* What a grant adds to an account: its rate where it ends, nothing        *)
(* anywhere else.                                                          *)
LEMMA GrantOnAccount ==
  ASSUME NEW leases, Booked(leases), NEW t \in Transfers, NEW rate \in Nat, NEW next,
         next = [u \in DOMAIN leases \cup {t} |-> IF u = t THEN rate ELSE leases[u]],
         NEW dev, NEW role, NEW route
  PROVE  /\ EndpointOf(t, role) # dev \/ Request[t].route # route =>
              Allocated(next, dev, role, route) = Allocated(leases, dev, role, route)
         /\ EndpointOf(t, role) = dev /\ Request[t].route = route =>
              Allocated(next, dev, role, route) <= rate + Allocated(leases, dev, role, route)
<1> DEFINE S == LeasesAt(leases, dev, role, route)
           R == S \ {t}
<1>1. /\ DOMAIN next = DOMAIN leases \cup {t} /\ next[t] = rate
      /\ \A u \in DOMAIN leases \ {t} : next[u] = leases[u]
  OBVIOUS
<1>2. /\ IsFiniteSet(S) /\ S \subseteq DOMAIN leases
      /\ \A u \in S : leases[u] \in Nat
      /\ SumFunctionOnSet(leases, S) \in Nat
  <2>1. S \in SUBSET DOMAIN leases
    BY DEF LeasesAt
  <2> HIDE DEF S
  <2> QED
    BY <2>1, BookedSum DEF TotalRate
<1>3. IsFiniteSet(R) /\ R \in SUBSET S /\ t \notin R
  BY <1>2, FS_Subset
<1>4. \A u \in R : next[u] \in Int /\ next[u] = leases[u]
  BY <1>1, <1>2
<1>5. SumFunctionOnSet(next, R) = SumFunctionOnSet(leases, R)
  <2> HIDE DEF R
  <2> QED
    BY <1>3, <1>4, SumSame
<1>6. /\ SumFunctionOnSet(leases, R) <= SumFunctionOnSet(leases, S)
      /\ SumFunctionOnSet(leases, R) \in Nat
  <2>1. \A u \in R : leases[u] \in Nat
    BY <1>2
  <2> HIDE DEF R, S
  <2> QED
    BY <1>2, <1>3, <2>1, SumMono, SumNat
<1>7. ASSUME EndpointOf(t, role) # dev \/ Request[t].route # route
      PROVE  Allocated(next, dev, role, route) = Allocated(leases, dev, role, route)
  <2>1. t \notin S
    BY <1>7 DEF LeasesAt
  <2>2. LeasesAt(next, dev, role, route) = S
    BY <1>1, <1>7 DEF LeasesAt
  <2>3. R = S
    BY <2>1
  <2> HIDE DEF R
  <2> QED
    BY <1>5, <2>2, <2>3 DEF Allocated, TotalRate
<1>8. ASSUME EndpointOf(t, role) = dev, Request[t].route = route
      PROVE  Allocated(next, dev, role, route) <= rate + Allocated(leases, dev, role, route)
  <2>1. LeasesAt(next, dev, role, route) = R \cup {t}
    BY <1>1, <1>8 DEF LeasesAt
  <2>2. \A u \in R \cup {t} : next[u] \in Int
    BY <1>1, <1>4
  <2> HIDE DEF R
  <2>3. SumFunctionOnSet(next, R \cup {t}) = rate + SumFunctionOnSet(leases, R)
    BY <1>1, <1>3, <1>5, <2>2, SumAdd
  <2>4. /\ Allocated(next, dev, role, route) = rate + SumFunctionOnSet(leases, R)
        /\ Allocated(leases, dev, role, route) = SumFunctionOnSet(leases, S)
    BY <2>1, <2>3 DEF Allocated, TotalRate
  <2> HIDE DEF S
  <2> QED
    BY <1>2, <1>6, <2>4
<1> QED
  BY <1>7, <1>8

(* admit() under a trim of at most one: the rate it grants fits the room   *)
(* that the other routes leave, whatever ambient traffic it is told of.    *)
(* So an account that it charges stays within eps; one that was over it    *)
(* already is charged only what its curve gives away free.                 *)
LEMMA GrantPriced ==
  ASSUME NEW leases, Booked(leases), NEW t \in Transfers,
         Priceable(Request[t]), NEW ambient \in Ambients,
         NEW trim, \A d \in Devices : trim[d] \in Nat,
         NEW rate, rate = MaxAdmissible(leases, Request[t], ambient, trim),
         rate >= MinRate,
         NEW next,
         next = [u \in DOMAIN leases \cup {t} |-> IF u = t THEN rate ELSE leases[u]]
  PROVE  /\ Booked(next)
         /\ \A dev \in Devices, role \in Roles :
              EndpointOf(t, role) # dev \/ trim[dev] <= TrimUnit =>
                \/ EndpointCost(next, dev, role) <= Eps[role]
                \/ EndpointCost(next, dev, role) <= EndpointCost(leases, dev, role)
<1>1. /\ rate \in Nat \ {0}
      /\ \A role \in Roles :
           EndpointOf(t, role) # Host =>
             rate <= EndpointCap(leases, EndpointOf(t, role), role, Request[t].route,
                                 ambient, trim)
  BY GrantWithinCaps
<1>r. rate \in Nat
  BY <1>1
<1>2. Booked(next)
  BY <1>r DEF Booked
<1>3. ASSUME NEW dev \in Devices, NEW role \in Roles,
             EndpointOf(t, role) # dev \/ trim[dev] <= TrimUnit
      PROVE  \/ EndpointCost(next, dev, role) <= Eps[role]
             \/ EndpointCost(next, dev, role) <= EndpointCost(leases, dev, role)
  <2> DEFINE R == DOMAIN UpperCost[role]
             F == RouteCosts(leases, dev, role)
             G == RouteCosts(next, dev, role)
             route == Request[t].route
  <2>0. Eps[role] \in Nat
    BY LedgerAssumption
  <2>1. ASSUME NEW r \in R, EndpointOf(t, role) # dev \/ route # r
        PROVE  Allocated(next, dev, role, r) = Allocated(leases, dev, role, r)
    <3> HIDE DEF R
    <3> QED
      BY <1>r, <2>1, GrantOnAccount
  <2>2. EndpointCost(leases, dev, role) \in Nat /\ EndpointCost(next, dev, role) \in Nat
    BY <1>2, CostsSum DEF EndpointCost
  <2>3. CASE EndpointOf(t, role) # dev
    <3>1. ASSUME NEW r \in R
          PROVE  Allocated(next, dev, role, r) <= Allocated(leases, dev, role, r)
      <4>1. Allocated(next, dev, role, r) = Allocated(leases, dev, role, r)
        BY <2>1, <2>3
      <4>2. Allocated(leases, dev, role, r) \in Nat
        BY AllocatedNat
      <4> QED
        BY <4>1, <4>2
    <3>2. EndpointCost(next, dev, role) <= EndpointCost(leases, dev, role)
      BY <1>2, <3>1, CostMono
    <3> QED
      BY <3>2
  <2>4. CASE EndpointOf(t, role) = dev /\ trim[dev] <= TrimUnit
    <3>1. EndpointOf(t, role) # Host
      BY <2>4, LedgerAssumption
    <3>2. route \in R
      BY <3>1, EndpointPriced
    <3> DEFINE spent == CostOfOtherRoutes(leases, dev, role, route)
               left == Left(leases, dev, role, route)
               most == Invert(role, route, left)
               used == Allocated(leases, dev, role, route)
               now == Allocated(next, dev, role, route)
    <3>3. /\ spent \in Nat /\ left \in Nat /\ most \in Nat /\ used \in Nat
          /\ EndpointCap(leases, dev, role, route, ambient, trim) \in Int
          /\ EndpointCap(leases, dev, role, route, ambient, trim) <= most - used
      BY <2>4, <3>2, CapBelow
    <3>4. rate <= most - used
      <4>1. rate <= EndpointCap(leases, dev, role, route, ambient, trim)
        BY <1>1, <2>4, <3>1
      <4> HIDE DEF most, used
      <4> QED
        BY <1>r, <3>3, <4>1
    <3>5. now \in Nat /\ now <= rate + used
      BY <1>1, <1>2, <2>4, GrantOnAccount, AllocatedNat
    <3>6. now <= most
      <4> HIDE DEF now, used, most
      <4> QED
        BY <1>1, <3>3, <3>4, <3>5
    <3>7. RouteCost(role, route, now) <= left
      <4> HIDE DEF now, left
      <4> QED
        BY <3>2, <3>3, <3>5, <3>6, InvertFits
    <3>8. spent <= EndpointCost(leases, dev, role)
      <4>1. IsFiniteSet(R) /\ R \ {route} \in SUBSET R /\ \A r \in R : F[r] \in Nat
        BY CostsSum
      <4> HIDE DEF F, R
      <4>2. SumFunctionOnSet(F, R \ {route}) <= SumFunctionOnSet(F, R)
        BY <4>1, SumMono
      <4> QED
        BY <4>2 DEF F, R, CostOfOtherRoutes, EndpointCost
    <3>9. left = IF spent > Eps[role] THEN 0 ELSE Eps[role] - spent
      BY DEF Left
    <3>10. EndpointCost(next, dev, role) = RouteCost(role, route, now) + spent
      <4>1. /\ IsFiniteSet(R) /\ \A r \in R : G[r] \in Int
            /\ G[route] = RouteCost(role, route, now)
        <5>1. IsFiniteSet(R) /\ \A r \in R : G[r] \in Nat
          BY <1>2, CostsSum
        <5>2. G[route] = RouteCost(role, route, now)
          BY <3>2 DEF RouteCosts
        <5> HIDE DEF G, R
        <5> QED
          BY <5>1, <5>2
      <4>2. IsFiniteSet(R \ {route})
        BY <4>1, FS_Subset
      <4>3. \A r \in R \ {route} : G[r] \in Int /\ G[r] = F[r]
        BY <2>1, <4>1 DEF RouteCosts
      <4> HIDE DEF F, G, R
      <4>4. SumFunctionOnSet(G, R) = G[route] + SumFunctionOnSet(G, R \ {route})
        BY <3>2, <4>1, SumRemove
      <4>5. SumFunctionOnSet(G, R \ {route}) = SumFunctionOnSet(F, R \ {route})
        BY <4>2, <4>3, SumSame
      <4> QED
        BY <4>1, <4>4, <4>5 DEF F, G, R, CostOfOtherRoutes, EndpointCost
    <3>11. RouteCost(role, route, now) \in Nat
      <4> HIDE DEF now
      <4>1. now <= now
        BY <3>5
      <4> QED
        BY <3>2, <3>5, <4>1, RouteCostMono
    <3> HIDE DEF spent, left, most, used, now
    <3> QED
      BY <2>0, <2>2, <3>3, <3>7, <3>8, <3>9, <3>10, <3>11
  <2> QED
    BY <1>3, <2>3, <2>4
<1> QED
  BY <1>2, <1>3

(* So a budget that is kept stays kept.                                    *)
LEMMA GrantKeepsBudget ==
  ASSUME NEW leases, Booked(leases), WithinBudget(leases), NEW t \in Transfers,
         Priceable(Request[t]), NEW ambient \in Ambients,
         NEW rate, rate = MaxAdmissible(leases, Request[t], ambient, FullTrim),
         rate >= MinRate,
         NEW next,
         next = [u \in DOMAIN leases \cup {t} |-> IF u = t THEN rate ELSE leases[u]]
  PROVE  Booked(next) /\ WithinBudget(next)
<1>1. \A d \in Devices : FullTrim[d] \in Nat /\ FullTrim[d] <= TrimUnit
  BY LedgerAssumption DEF FullTrim
<1>2. Booked(next)
  BY <1>1, GrantPriced
<1>3. ASSUME NEW dev \in Devices, NEW role \in Roles
      PROVE  EndpointCost(next, dev, role) <= Eps[role]
  <2>1. \/ EndpointCost(next, dev, role) <= Eps[role]
        \/ EndpointCost(next, dev, role) <= EndpointCost(leases, dev, role)
    BY <1>1, GrantPriced
  <2>2. EndpointCost(leases, dev, role) <= Eps[role] /\ Eps[role] \in Nat
    BY LedgerAssumption DEF WithinBudget
  <2>3. EndpointCost(leases, dev, role) \in Nat /\ EndpointCost(next, dev, role) \in Nat
    BY <1>2, CostsSum DEF EndpointCost
  <2> QED
    BY <2>1, <2>2, <2>3
<1> QED
  BY <1>2, <1>3 DEF WithinBudget

(* release() gives back what it charged, and nothing else moves.           *)
LEMMA ReleaseKeepsBudget ==
  ASSUME NEW leases, Booked(leases), WithinBudget(leases), NEW t,
         NEW next, next = [u \in DOMAIN leases \ {t} |-> leases[u]]
  PROVE  Booked(next) /\ WithinBudget(next)
<1>1. Booked(next) /\ DOMAIN next \subseteq DOMAIN leases
      /\ \A u \in DOMAIN next : next[u] = leases[u]
  BY DEF Booked
<1>2. ASSUME NEW dev \in Devices, NEW role \in Roles, NEW r
      PROVE  Allocated(next, dev, role, r) <= Allocated(leases, dev, role, r)
  <2> DEFINE S == LeasesAt(leases, dev, role, r)
             R == LeasesAt(next, dev, role, r)
  <2>1. R \in SUBSET S /\ S \in SUBSET DOMAIN leases /\ R \subseteq DOMAIN next
    BY <1>1 DEF LeasesAt
  <2> HIDE DEF S, R
  <2>2. /\ IsFiniteSet(S) /\ IsFiniteSet(R)
        /\ \A u \in S : leases[u] \in Nat
    BY <2>1, BookedSum, FS_Subset
  <2>3. \A u \in R : next[u] \in Int /\ next[u] = leases[u]
    BY <1>1, <2>1, <2>2
  <2>4. SumFunctionOnSet(next, R) = SumFunctionOnSet(leases, R)
    BY <2>2, <2>3, SumSame
  <2>5. SumFunctionOnSet(leases, R) <= SumFunctionOnSet(leases, S)
    BY <2>1, <2>2, SumMono
  <2> QED
    BY <2>4, <2>5 DEF R, S, Allocated, TotalRate
<1>3. ASSUME NEW dev \in Devices, NEW role \in Roles
      PROVE  EndpointCost(next, dev, role) <= Eps[role]
  <2>1. EndpointCost(next, dev, role) <= EndpointCost(leases, dev, role)
    BY <1>1, <1>2, CostMono
  <2>2. /\ EndpointCost(leases, dev, role) \in Nat /\ EndpointCost(next, dev, role) \in Nat
        /\ EndpointCost(leases, dev, role) <= Eps[role] /\ Eps[role] \in Nat
    BY <1>1, CostsSum, LedgerAssumption DEF EndpointCost, WithinBudget
  <2> QED
    BY <2>1, <2>2
<1> QED
  BY <1>1, <1>3 DEF WithinBudget
-----------------------------------------------------------------------------
(* Feed-forward mode, or an epoch thread that leaves every trim at 1.0.    *)
TrimsFixed == ~Feedback \/ TrimLevels = {TrimUnit}

TrimsAtUnit ==
  /\ \A d \in Devices : TrimView[d] \in {0, TrimUnit}
  /\ \A th \in Threads, d \in Devices : view[th][d] \in {0, TrimUnit}

(* A lease is charged at the rate it was admitted at, which its link can   *)
(* carry: rate_fn has nothing to rescale.                                  *)
RatesKept ==
  /\ rateBase \in [Transfers -> [rate : Nat, trim : {TrimUnit}]]
  /\ active \in [DOMAIN active -> Nat]
  /\ \A t \in DOMAIN active :
       /\ active[t] = rateBase[t].rate
       /\ LinkPeak[Request[t].route] # 0 => active[t] <= LinkPeak[Request[t].route]

LEMMA TrimsAtUnitInit == TrimsFixed /\ Init => TrimsAtUnit
<1> SUFFICES ASSUME Init PROVE TrimsAtUnit
  OBVIOUS
<1>1. /\ \A d \in Devices : trims[d] \in {0, TrimUnit} /\ NoView[d] = 0
      /\ \A th \in Threads : view[th] = NoView
  BY DEF Init, NoView
<1> QED
  BY <1>1 DEF TrimsAtUnit, TrimView

LEMMA TrimsAtUnitNext ==
  ASSUME TrimsFixed, TypeInv, TrimsAtUnit, [Next]_vars
  PROVE  TrimsAtUnit'
<1>1. TypeOK'
  BY TypeInvNext DEF TypeInv
<1>2. CASE Feedback
  <2>1. TrimLevels = {TrimUnit}
    BY <1>2 DEF TrimsFixed
  <2>2. /\ trims' \in [Devices -> {0, TrimUnit}]
        /\ view' \in [Threads -> [Devices -> {0, TrimUnit}]]
    <3>1. TrimLevels \cup {0} = {0, TrimUnit}
      BY <2>1
    <3> QED
      BY <1>1, <3>1 DEF TypeOK
  <2> QED
    BY <1>2, <2>2 DEF TrimsAtUnit, TrimView
<1>3. CASE ~Feedback
  <2>1. TrimView = NoView /\ TrimView' = NoView /\ \A d \in Devices : NoView[d] = 0
    BY <1>3 DEF TrimView, NoView
  <2>2. view \in [Threads -> [Devices -> TrimLevels \cup {0}]]
    BY DEF TypeInv, TypeOK
  <2>3. \A th \in Threads : view'[th] = view[th] \/ view'[th] = NoView
    <3>1. ASSUME NEW th \in Threads, BeginView(th) \/ EndView(th)
          PROVE  view' = [view EXCEPT ![th] = NoView]
      BY <2>1, <3>1 DEF BeginView, EndView
    <3>2. ASSUME NEW th \in Threads, view' = [view EXCEPT ![th] = NoView]
          PROVE  \A x \in Threads : view'[x] = view[x] \/ view'[x] = NoView
      BY <2>2, <3>2
    <3> QED
      BY <3>1, <3>2, StepOnViews
  <2> QED
    BY <2>1, <2>3 DEF TrimsAtUnit
<1> QED
  BY <1>2, <1>3

LEMMA FullTrimSeen ==
  ASSUME TrimsAtUnit, NEW th \in Threads
  PROVE  TrimOf(view[th]) = FullTrim
  BY DEF TrimsAtUnit, TrimOf, FullTrim

(* rate_fn is a no-op, for a live lease and for a released one.            *)
LEMMA RescaleKeeps ==
  ASSUME TypeOK, TrimsAtUnit, RatesKept, NEW t \in Transfers, NEW th \in Threads,
         Rescale(t, view[th])
  PROVE  UNCHANGED active
<1>1. CASE t \notin DOMAIN active
  BY <1>1 DEF Rescale, UpdateRate
<1>2. CASE t \in DOMAIN active
  <2> DEFINE base == rateBase[t].rate
             link == LinkPeak[Request[t].route]
  <2>1. /\ base \in Nat /\ rateBase[t].trim = TrimUnit /\ active[t] = base
        /\ link # 0 => base <= link
    BY <1>2 DEF RatesKept
  <2>2. link \in Nat /\ TrimUnit \in Nat \ {0}
    BY LedgerAssumption
  <2>3. (IF Request[t].dst = Host THEN TrimUnit ELSE TrimOf(view[th])[Request[t].dst]) = TrimUnit
    <3>1. Request[t].dst \in Devices \cup {Host}
      BY LedgerAssumption DEF Endpoints
    <3> QED
      BY <3>1, FullTrimSeen DEF FullTrim
  <2>4. (base * TrimUnit) \div TrimUnit = base
    BY <2>1, <2>2, ScaledBack
  <2>5. LiveRate(t, view[th]) = IF link # 0 /\ link < base THEN link ELSE base
    BY <2>1, <2>3, <2>4, Zenon DEF LiveRate
  <2>6. LiveRate(t, view[th]) = active[t]
    <3> HIDE DEF base, link
    <3> QED
      BY <2>1, <2>2, <2>5
  <2>7. active' = [active EXCEPT ![t] = active[t]]
    BY <1>2, <2>6, Zenon DEF Rescale, UpdateRate
  <2> QED
    BY <1>2, <2>7 DEF RatesKept
<1> QED
  BY <1>1, <1>2

LEMMA BooksNext ==
  ASSUME TypeInv, TrimsAtUnit, RatesKept, BudgetKept, [Next]_vars
  PROVE  RatesKept' /\ BudgetKept'
<1>b. Booked(active)
  BY DEF TypeInv, TypeOK, RatesKept, Booked
<1>s. ASSUME UNCHANGED <<active, rateBase>>
      PROVE  RatesKept' /\ BudgetKept'
  <2>1. RatesKept'
    BY <1>s DEF RatesKept
  <2>2. BudgetKept'
    BY <1>s DEF BudgetKept
  <2> QED
    BY <2>1, <2>2
<1>1. CASE UNCHANGED vars
  BY <1>1, <1>s DEF vars
<1>2. ASSUME NEW t \in Transfers, Submit(t) \/ Resubmit(t)
      PROVE  RatesKept' /\ BudgetKept'
  BY <1>2, <1>s DEF Submit, Resubmit, transferVars
<1>3. ASSUME NEW d \in Devices, FeedVictim(d) \/ AdjustTrim(d)
      PROVE  RatesKept' /\ BudgetKept'
  BY <1>3, <1>s DEF FeedVictim, AdjustTrim, transferVars
<1>4. ASSUME NEW k \in Devices,
             \/ LoopTop(k) \/ PopQueue(k) \/ PollAdmission(k) \/ BeginTrim0(k)
             \/ CheckCancel(k) \/ CancelInGap(k) \/ LaunchChunk(k) \/ CudaError(k)
             \/ Drain(k) \/ Finish(k)
      PROVE  RatesKept' /\ BudgetKept'
  BY <1>4, <1>s
  DEF LoopTop, PopQueue, PollAdmission, BeginTrim0, CheckCancel, CancelInGap,
      LaunchChunk, CudaError, Drain, Finish, transferVars
<1>5. ASSUME NEW k \in Devices, NativeBoot(k) \/ ApplyRate(k)
      PROVE  RatesKept' /\ BudgetKept'
  <2>1. serving[k] \in Transfers /\ k \in Threads /\ UNCHANGED rateBase
    BY <1>5 DEF NativeBoot, ApplyRate, TypeInv, Placed, Busy, WorkerStates, Threads
  <2>2. UNCHANGED active \/ Rescale(serving[k], view[k])
    BY <1>5 DEF NativeBoot, ApplyRate
  <2> QED
    BY <1>s, <2>1, <2>2, RescaleKeeps DEF TypeInv
<1>6. ASSUME NEW t \in Transfers, MirrorRate(t)
      PROVE  RatesKept' /\ BudgetKept'
  <2>1. t \in Threads /\ UNCHANGED rateBase /\ (UNCHANGED active \/ Rescale(t, view[t]))
    BY <1>6 DEF MirrorRate, Threads
  <2> QED
    BY <1>s, <2>1, RescaleKeeps DEF TypeInv
<1>7. ASSUME NEW t \in Transfers, MirrorWake(t) \/ ChunkLands(t)
      PROVE  RatesKept' /\ BudgetKept'
  BY <1>7, <1>s DEF MirrorWake, ChunkLands
<1>8. ASSUME Shutdown
      PROVE  RatesKept' /\ BudgetKept'
  BY <1>8, <1>s DEF Shutdown, ShutdownBegin, JoinWorkers, DrainStreams, ShutdownRaises, transferVars
<1>9. ASSUME NEW k \in Devices, StartCopy(k)
      PROVE  RatesKept' /\ BudgetKept'
  <2> DEFINE t == serving[k]
  <2>1. t \in Transfers /\ k \in Threads /\ UNCHANGED active
    BY <1>9 DEF StartCopy, TypeInv, Placed, Busy, WorkerStates, Threads
  <2>2. CASE UNCHANGED rateBase
    BY <1>s, <2>1, <2>2
  <2>3. CASE rateBase' = [rateBase EXCEPT ![t].trim =
               IF Request[t].dst = Host THEN TrimUnit ELSE TrimOf(view[k])[Request[t].dst]]
    <3>1. (IF Request[t].dst = Host THEN TrimUnit ELSE TrimOf(view[k])[Request[t].dst]) = TrimUnit
      <4>1. Request[t].dst \in Devices \cup {Host}
        BY <2>1, LedgerAssumption DEF Endpoints
      <4> QED
        BY <2>1, <4>1, FullTrimSeen DEF FullTrim
    <3>2. rateBase' = [rateBase EXCEPT ![t].trim = TrimUnit]
      BY <2>3, <3>1, Zenon
    <3>3. rateBase \in [Transfers -> [rate : Nat, trim : {TrimUnit}]]
      BY DEF RatesKept
    <3> HIDE DEF t
    <3>4. /\ rateBase' \in [Transfers -> [rate : Nat, trim : {TrimUnit}]]
          /\ \A u \in Transfers : rateBase'[u].rate = rateBase[u].rate
      BY <2>1, <3>2, <3>3
    <3>5. RatesKept'
      BY <2>1, <3>4 DEF RatesKept, TypeInv, TypeOK
    <3>6. BudgetKept'
      BY <2>1 DEF BudgetKept
    <3> QED
      BY <3>5, <3>6
  <2> QED
    BY <1>9, <2>2, <2>3 DEF StartCopy
<1>10. ASSUME NEW k \in Devices, Unwind(k)
       PROVE  RatesKept' /\ BudgetKept'
  <2>1. active' = [u \in DOMAIN active \ {serving[k]} |-> active[u]] /\ UNCHANGED rateBase
    BY <1>10 DEF Unwind, Release, transferVars
  <2>2. RatesKept'
    BY <2>1 DEF RatesKept
  <2>3. WithinBudget(active')
    BY <1>b, <2>1, ReleaseKeepsBudget DEF BudgetKept
  <2>4. BudgetKept'
    BY <2>3 DEF BudgetKept
  <2> QED
    BY <2>2, <2>4
<1>11. ASSUME NEW k \in Devices, TryAdmit(k)
       PROVE  RatesKept' /\ BudgetKept'
  <2>1. serving[k] \in Transfers /\ k \in Threads /\ TrimOf(view[k]) = FullTrim
    BY <1>11, FullTrimSeen DEF TryAdmit, TypeInv, Placed, Busy, WorkerStates, Threads
  <2>2. CASE UNCHANGED <<active, rateBase>>
    BY <1>s, <2>2
  <2>3. ASSUME NEW t \in Transfers, NEW ambient \in Ambients, Admit(t, ambient, FullTrim),
               rateBase' = [rateBase EXCEPT ![t].rate = active'[t]]
        PROVE  RatesKept' /\ BudgetKept'
    <3>1. PICK rate : rate = MaxAdmissible(active, Request[t], ambient, FullTrim)
      OBVIOUS
    <3>2. /\ Priceable(Request[t]) /\ rate >= MinRate
          /\ active' = [u \in DOMAIN active \cup {t} |-> IF u = t THEN rate ELSE active[u]]
      BY <2>3, <3>1 DEF Admit
    <3>3. /\ rate \in Nat
          /\ LinkPeak[Request[t].route] # 0 => rate <= LinkPeak[Request[t].route]
      <4>1. \A d \in Devices : FullTrim[d] \in Nat
        BY LedgerAssumption DEF FullTrim
      <4> QED
        BY <1>b, <3>1, <3>2, <4>1, GrantWithinCaps
    <3>4. WithinBudget(active')
      BY <1>b, <3>1, <3>2, GrantKeepsBudget DEF BudgetKept
    <3>5. /\ active'[t] = rate /\ DOMAIN active' = DOMAIN active \cup {t}
          /\ \A u \in DOMAIN active \ {t} : active'[u] = active[u]
          /\ active' \in [DOMAIN active' -> Nat]
      BY <3>2, <3>3 DEF RatesKept
    <3>6. /\ rateBase' \in [Transfers -> [rate : Nat, trim : {TrimUnit}]]
          /\ rateBase'[t].rate = rate
          /\ \A u \in Transfers \ {t} : rateBase'[u].rate = rateBase[u].rate
      BY <2>3, <3>3, <3>5 DEF RatesKept
    <3>7. RatesKept'
      BY <3>3, <3>5, <3>6 DEF RatesKept, TypeInv, TypeOK
    <3>8. BudgetKept'
      BY <3>4 DEF BudgetKept
    <3> QED
      BY <3>7, <3>8
  <2> QED
    BY <1>11, <2>1, <2>2, <2>3 DEF TryAdmit, Defer
<1> QED
  BY <1>1, <1>2, <1>3, <1>4, <1>5, <1>6, <1>7, <1>8, <1>9, <1>10, <1>11
  DEF Next, WorkerStep

(* No endpoint ever costs its victim more than eps, for any devices,       *)
(* routes, curves, links, faults and interleaving of the threads, while    *)
(* the trims stay at 1.0.  The admission reads the trims before it takes   *)
(* the ledger's lock: when they move, the promise breaks.                  *)
THEOREM BudgetHolds ==
  ASSUME TrimsFixed
  PROVE  Spec => []BudgetKept
<1> DEFINE Inv == TypeInv /\ TrimsAtUnit /\ RatesKept /\ BudgetKept
<1>1. Init => Inv
  <2> SUFFICES ASSUME Init PROVE Inv
    OBVIOUS
  <2>1. active = [t \in {} |-> 0] /\ DOMAIN active = {} /\ Booked(active)
    BY DEF Init, LedgerInit, Booked
  <2>2. RatesKept
    BY <2>1 DEF Init, RatesKept
  <2>3. ASSUME NEW dev \in Devices, NEW role \in Roles
        PROVE  EndpointCost(active, dev, role) <= Eps[role]
    <3> DEFINE R == DOMAIN UpperCost[role]
               F == RouteCosts(active, dev, role)
    <3>1. IsFiniteSet(R) /\ \A r \in R : F[r] \in Int
      <4>1. IsFiniteSet(R)
        BY CurveAssumption
      <4>2. R \in SUBSET DOMAIN UpperCost[role]
        OBVIOUS
      <4>3. \A r \in R : F[r] \in Nat
        BY <2>1, <4>2, CostsSum
      <4> QED
        BY <4>1, <4>3
    <3>2. \A r \in R : F[r] = 0
      <4>1. \A r \in R : Allocated(active, dev, role, r) = 0
        <5>1. \A r \in R : LeasesAt(active, dev, role, r) = {}
          BY <2>1 DEF LeasesAt
        <5> QED
          BY <5>1, SumEmpty DEF Allocated, TotalRate
      <4> QED
        BY <4>1 DEF RouteCosts, RouteCost
    <3>3. \A r \in R : F[r] \in Int /\ F[r] <= 0
      BY <3>1, <3>2
    <3> HIDE DEF F, R
    <3>4. SumFunctionOnSet(F, R) <= Cardinality(R) * 0 /\ SumFunctionOnSet(F, R) \in Int
      BY <3>1, <3>3, SumBounded, SumInt
    <3>5. Cardinality(R) \in Nat /\ Eps[role] \in Nat
      BY <3>1, FS_CardinalityType, LedgerAssumption
    <3>6. SumFunctionOnSet(F, R) <= Eps[role]
      BY <3>4, <3>5
    <3> QED
      BY <3>6 DEF EndpointCost, F, R
  <2> QED
    BY <2>2, <2>3, TypeInvInit, TrimsAtUnitInit DEF BudgetKept, WithinBudget
<1>2. Inv /\ [Next]_vars => Inv'
  BY TypeInvNext, TrimsAtUnitNext, BooksNext
<1> QED
  BY <1>1, <1>2, PTL DEF Spec

-----------------------------------------------------------------------------
(* What holds of the books while trims move: rates and the trims they are  *)
(* scaled from are numbers, and no lease is charged beyond its link.       *)
Rated ==
  /\ active \in [DOMAIN active -> Nat]
  /\ rateBase \in [Transfers -> [rate : Nat, trim : Nat \ {0}]]
  /\ \A t \in DOMAIN active :
       LinkPeak[Request[t].route] # 0 => active[t] <= LinkPeak[Request[t].route]

(* Where a transfer is admitted, under a trim of at most one at that end,  *)
(* the account stays within eps, or is not charged if it was over it.      *)
GrantStep ==
  \A t \in DOMAIN active' \ DOMAIN active, role \in Roles :
    LET dev == EndpointOf(t, role)
    IN  dev # Host /\ TrimOf(view[Key(t)])[dev] <= TrimUnit =>
          \/ EndpointCost(active', dev, role) <= Eps[role]
          \/ EndpointCost(active', dev, role) <= EndpointCost(active, dev, role)

LEMMA TrimSeen ==
  ASSUME TypeOK, NEW th \in Threads, NEW d \in Devices
  PROVE  TrimOf(view[th])[d] \in Nat \ {0}
<1>1. view[th][d] \in TrimLevels \cup {0} /\ TrimLevels \subseteq Nat \ {0}
  BY GovernorAssumption DEF TypeOK
<1>2. TrimUnit \in Nat \ {0}
  BY LedgerAssumption
<1> QED
  BY <1>1, <1>2 DEF TrimOf

LEMMA RescaleRated ==
  ASSUME TypeOK, Rated, NEW t \in Transfers, NEW th \in Threads,
         Rescale(t, view[th]), UNCHANGED rateBase
  PROVE  Rated' /\ DOMAIN active' = DOMAIN active
<1>1. CASE t \notin DOMAIN active
  <2>1. active' = active
    BY <1>1, Zenon DEF Rescale, UpdateRate
  <2> QED
    BY <2>1 DEF Rated
<1>2. CASE t \in DOMAIN active
  <2> DEFINE now == IF Request[t].dst = Host THEN TrimUnit
                    ELSE TrimOf(view[th])[Request[t].dst]
             scaled == (rateBase[t].rate * now) \div rateBase[t].trim
             link == LinkPeak[Request[t].route]
             rate == LiveRate(t, view[th])
  <2>1. now \in Nat /\ link \in Nat
    <3>1. /\ Request[t].dst \in Devices \cup {Host} /\ link \in Nat
          /\ TrimUnit \in Nat
      BY LedgerAssumption DEF Endpoints
    <3> QED
      BY <3>1, TrimSeen
  <2>2. rateBase[t].rate \in Nat /\ rateBase[t].trim \in Nat \ {0}
    BY DEF Rated
  <2>3. scaled \in Nat
    <3> HIDE DEF now
    <3> QED
      BY <2>1, <2>2, ScaledDown
  <2>4. rate = IF link # 0 /\ link < scaled THEN link ELSE scaled
    BY Zenon DEF LiveRate
  <2> HIDE DEF now, scaled
  <2>5. rate \in Nat /\ (link # 0 => rate <= link)
    <3> HIDE DEF rate, link
    <3> QED
      BY <2>1, <2>3, <2>4
  <2>6. active' = [active EXCEPT ![t] = rate]
    BY <1>2, Zenon DEF Rescale, UpdateRate
  <2> HIDE DEF rate
  <2>7. /\ DOMAIN active' = DOMAIN active /\ active'[t] = rate
        /\ \A u \in DOMAIN active \ {t} : active'[u] = active[u]
        /\ active' \in [DOMAIN active' -> Nat]
    BY <1>2, <2>5, <2>6 DEF Rated
  <2> QED
    BY <2>5, <2>7 DEF Rated
<1> QED
  BY <1>1, <1>2

LEMMA AdmitRated ==
  ASSUME TypeInv, Rated, NEW k \in Devices, worker[k] = "admit",
         NEW ambient \in Ambients, Admit(serving[k], ambient, TrimOf(view[k])),
         rateBase' = [rateBase EXCEPT ![serving[k]].rate = active'[serving[k]]]
  PROVE  Rated' /\ GrantStep
<1> DEFINE t == serving[k]
           trim == TrimOf(view[k])
<1>1. t \in Transfers /\ k \in Threads /\ Key(t) = k
  BY DEF TypeInv, Placed, Busy, WorkerStates, Threads
<1>2. \A d \in Devices : trim[d] \in Nat
  BY <1>1, TrimSeen DEF TypeInv
<1>3. Booked(active)
  BY DEF TypeInv, TypeOK, Rated, Booked
<1>4. PICK rate : rate = MaxAdmissible(active, Request[t], ambient, trim)
  OBVIOUS
<1>5. /\ Priceable(Request[t]) /\ rate >= MinRate
      /\ active' = [u \in DOMAIN active \cup {t} |-> IF u = t THEN rate ELSE active[u]]
  BY <1>4 DEF Admit
<1> HIDE DEF t, trim
<1>6. /\ rate \in Nat
      /\ LinkPeak[Request[t].route] # 0 => rate <= LinkPeak[Request[t].route]
  BY <1>1, <1>2, <1>3, <1>4, <1>5, GrantWithinCaps
<1>7. Rated'
  <2>1. /\ active'[t] = rate /\ DOMAIN active' = DOMAIN active \cup {t}
        /\ \A u \in DOMAIN active \ {t} : active'[u] = active[u]
        /\ active' \in [DOMAIN active' -> Nat]
    BY <1>5, <1>6 DEF Rated
  <2>2. rateBase' \in [Transfers -> [rate : Nat, trim : Nat \ {0}]]
    <3>1. rateBase' = [rateBase EXCEPT ![t].rate = rate]
      BY <2>1 DEF t
    <3>2. /\ rateBase \in [Transfers -> [rate : Nat, trim : Nat \ {0}]]
          /\ t \in Transfers /\ rate \in Nat
      BY <1>1, <1>6 DEF Rated
    <3> QED
      BY <3>1, <3>2
  <2> QED
    BY <1>6, <2>1, <2>2 DEF Rated
<1>8. GrantStep
  <2> SUFFICES ASSUME NEW u \in DOMAIN active' \ DOMAIN active, NEW role \in Roles,
                      EndpointOf(u, role) # Host,
                      TrimOf(view[Key(u)])[EndpointOf(u, role)] <= TrimUnit
               PROVE  LET dev == EndpointOf(u, role) IN
                      \/ EndpointCost(active', dev, role) <= Eps[role]
                      \/ EndpointCost(active', dev, role) <= EndpointCost(active, dev, role)
    BY DEF GrantStep
  <2>1. u = t
    BY <1>5
  <2>2. EndpointOf(u, role) \in Devices /\ trim[EndpointOf(u, role)] <= TrimUnit
    BY <1>1, <1>5, <2>1, EndpointPriced DEF trim
  <2> QED
    BY <1>1, <1>2, <1>3, <1>4, <1>5, <2>2, GrantPriced
<1> QED
  BY <1>7, <1>8

LEMMA RatedNext ==
  ASSUME TypeInv, Rated, [Next]_vars
  PROVE  Rated' /\ GrantStep
<1>s. ASSUME UNCHANGED <<active, rateBase>>
      PROVE  Rated' /\ GrantStep
  <2>1. Rated'
    BY <1>s DEF Rated
  <2>2. DOMAIN active' \ DOMAIN active = {}
    BY <1>s
  <2> QED
    BY <2>1, <2>2 DEF GrantStep
<1>r. ASSUME NEW t \in Transfers, NEW th \in Threads, Rescale(t, view[th]),
             UNCHANGED rateBase
      PROVE  Rated' /\ GrantStep
  <2>1. Rated' /\ DOMAIN active' = DOMAIN active
    BY <1>r, RescaleRated DEF TypeInv
  <2>2. DOMAIN active' \ DOMAIN active = {}
    BY <2>1
  <2> QED
    BY <2>1, <2>2 DEF GrantStep
<1>1. CASE UNCHANGED vars
  BY <1>1, <1>s DEF vars
<1>2. ASSUME NEW t \in Transfers, Submit(t) \/ Resubmit(t)
      PROVE  Rated' /\ GrantStep
  BY <1>2, <1>s DEF Submit, Resubmit, transferVars
<1>3. ASSUME NEW d \in Devices, FeedVictim(d) \/ AdjustTrim(d)
      PROVE  Rated' /\ GrantStep
  BY <1>3, <1>s DEF FeedVictim, AdjustTrim, transferVars
<1>4. ASSUME NEW k \in Devices,
             \/ LoopTop(k) \/ PopQueue(k) \/ PollAdmission(k) \/ BeginTrim0(k)
             \/ CheckCancel(k) \/ CancelInGap(k) \/ LaunchChunk(k) \/ CudaError(k)
             \/ Drain(k) \/ Finish(k)
      PROVE  Rated' /\ GrantStep
  BY <1>4, <1>s
  DEF LoopTop, PopQueue, PollAdmission, BeginTrim0, CheckCancel, CancelInGap,
      LaunchChunk, CudaError, Drain, Finish, transferVars
<1>5. ASSUME NEW k \in Devices, NativeBoot(k) \/ ApplyRate(k)
      PROVE  Rated' /\ GrantStep
  <2>1. serving[k] \in Transfers /\ k \in Threads /\ UNCHANGED rateBase
    BY <1>5 DEF NativeBoot, ApplyRate, TypeInv, Placed, Busy, WorkerStates, Threads
  <2>2. UNCHANGED active \/ Rescale(serving[k], view[k])
    BY <1>5 DEF NativeBoot, ApplyRate
  <2> QED
    BY <1>s, <1>r, <2>1, <2>2
<1>6. ASSUME NEW t \in Transfers, MirrorRate(t)
      PROVE  Rated' /\ GrantStep
  <2>1. t \in Threads /\ UNCHANGED rateBase /\ (UNCHANGED active \/ Rescale(t, view[t]))
    BY <1>6 DEF MirrorRate, Threads
  <2> QED
    BY <1>s, <1>r, <1>6, <2>1
<1>7. ASSUME NEW t \in Transfers, MirrorWake(t) \/ ChunkLands(t)
      PROVE  Rated' /\ GrantStep
  BY <1>7, <1>s DEF MirrorWake, ChunkLands
<1>8. ASSUME Shutdown
      PROVE  Rated' /\ GrantStep
  BY <1>8, <1>s DEF Shutdown, ShutdownBegin, JoinWorkers, DrainStreams, ShutdownRaises, transferVars
<1>9. ASSUME NEW k \in Devices, StartCopy(k)
      PROVE  Rated' /\ GrantStep
  <2> DEFINE t == serving[k]
             now == IF Request[t].dst = Host THEN TrimUnit
                    ELSE TrimOf(view[k])[Request[t].dst]
  <2>1. t \in Transfers /\ k \in Threads /\ UNCHANGED active
    BY <1>9 DEF StartCopy, TypeInv, Placed, Busy, WorkerStates, Threads
  <2>2. CASE UNCHANGED rateBase
    BY <1>s, <2>1, <2>2
  <2>3. CASE rateBase' = [rateBase EXCEPT ![t].trim = now]
    <3>1. now \in Nat \ {0}
      <4>1. Request[t].dst \in Devices \cup {Host} /\ TrimUnit \in Nat \ {0}
        BY <2>1, LedgerAssumption DEF Endpoints
      <4> QED
        BY <2>1, <4>1, TrimSeen DEF TypeInv
    <3> HIDE DEF t, now
    <3>2. rateBase' \in [Transfers -> [rate : Nat, trim : Nat \ {0}]]
      BY <2>1, <2>3, <3>1 DEF Rated
    <3>3. DOMAIN active' \ DOMAIN active = {}
      BY <2>1
    <3>4. Rated'
      BY <2>1, <3>2 DEF Rated
    <3> QED
      BY <3>3, <3>4 DEF GrantStep
  <2> QED
    BY <1>9, <2>2, <2>3 DEF StartCopy
<1>10. ASSUME NEW k \in Devices, Unwind(k)
       PROVE  Rated' /\ GrantStep
  <2>1. active' = [u \in DOMAIN active \ {serving[k]} |-> active[u]] /\ UNCHANGED rateBase
    BY <1>10 DEF Unwind, Release, transferVars
  <2>2. DOMAIN active' \ DOMAIN active = {}
    BY <2>1
  <2>3. Rated'
    BY <2>1 DEF Rated
  <2> QED
    BY <2>2, <2>3 DEF GrantStep
<1>11. ASSUME NEW k \in Devices, TryAdmit(k)
       PROVE  Rated' /\ GrantStep
  <2>1. worker[k] = "admit"
    BY <1>11 DEF TryAdmit
  <2>2. \/ UNCHANGED <<active, rateBase>>
        \/ /\ \E ambient \in Ambients : Admit(serving[k], ambient, TrimOf(view[k]))
           /\ rateBase' = [rateBase EXCEPT ![serving[k]].rate = active'[serving[k]]]
    BY <1>11 DEF TryAdmit, Defer
  <2> QED
    BY <1>s, <2>1, <2>2, AdmitRated
<1> QED
  BY <1>1, <1>2, <1>3, <1>4, <1>5, <1>6, <1>7, <1>8, <1>9, <1>10, <1>11
  DEF Next, WorkerStep

(* Even while the trims move, and whatever rescaled leases have overdrawn, *)
(* an admission under trims of at most one brings no account over eps:     *)
(* "the largest rate that keeps every endpoint under its eps budget".  The *)
(* trims are those the worker has read before it took the ledger's lock.   *)
(* No lease is charged beyond its link.                                    *)
THEOREM GrantsPriced == Spec => [][GrantStep]_vars /\ []Rated
<1>1. Init => Rated
  <2>1. ASSUME Init PROVE Rated
    <3>1. active = [t \in {} |-> 0] /\ DOMAIN active = {}
      BY <2>1 DEF Init, LedgerInit
    <3>2. rateBase = [t \in Transfers |-> [rate |-> 0, trim |-> TrimUnit]] /\ TrimUnit \in Nat \ {0}
      BY <2>1, LedgerAssumption DEF Init
    <3> QED
      BY <3>1, <3>2 DEF Rated
  <2> QED
    BY <2>1
<1>2. TypeInv /\ Rated /\ [Next]_vars => Rated' /\ [GrantStep]_vars
  BY RatedNext
<1>3. TypeInv /\ Rated /\ [Next]_vars => TypeInv'
  BY TypeInvNext
<1> QED
  BY <1>1, <1>2, <1>3, TypeInvInit, PTL DEF Spec
=============================================================================
