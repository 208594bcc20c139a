-------------------------- MODULE GovernorHandles --------------------------
(***************************************************************************)
(* Theorems about what the engine sees of Governor: the handles, the       *)
(* pending counters, what shutdown() leaves behind, and, last, that the    *)
(* threads implement TransferService.  They rest on where an unfinished    *)
(* transfer can be: in one place of its device's queue, or with that       *)
(* device's worker.                                                        *)
(***************************************************************************)
EXTENDS GovernorService, GovernorProofs, FiniteSetTheorems

Unfinished == submitted \ done

Tracked ==
  /\ done \subseteq submitted
  /\ \A k \in Devices :
       /\ worker[k] \in Busy => serving[k] \in Unfinished
       /\ worker[k] \notin Busy => serving[k] = None
       /\ \A i \in 1..Len(queue[k]) :
            /\ queue[k][i] \in Unfinished
            /\ queue[k][i] # serving[k]
            /\ \A j \in 1..Len(queue[k]) : queue[k][i] = queue[k][j] => i = j

LEMMA TrackedInit == Init => Tracked
  BY DEF Init, Tracked, Busy

(* A new submission goes behind everything its device has not finished.    *)
LEMMA TrackedEnqueue ==
  ASSUME TypeInv, Tracked, NEW t \in Transfers, t \notin Unfinished,
         Enqueue(t), UNCHANGED serving, done' = done \ {t}
  PROVE  Tracked'
<1> DEFINE q == queue[Key(t)]
<1>1. /\ q \in Seq(Transfers) /\ Key(t) \in Devices
      /\ queue' = [queue EXCEPT ![Key(t)] = Append(q, t)]
      /\ submitted' = submitted \cup {t}
  BY KeyIsDevice DEF Enqueue, TypeInv, TypeOK
<1>2. Unfinished' = Unfinished \cup {t} /\ done' \subseteq submitted'
  BY <1>1 DEF Unfinished, Tracked
<1>3. \A k \in Devices : serving'[k] = serving[k] /\ (worker'[k] \in Busy <=> worker[k] \in Busy)
  BY <1>1 DEF Enqueue, TypeInv, TypeOK, Busy
<1>4. \A k \in Devices : serving[k] # t
  BY GovernorAssumption DEF Tracked
<1>5. ASSUME NEW k \in Devices, NEW i \in 1..Len(queue'[k])
      PROVE  /\ queue'[k][i] \in Unfinished'
             /\ queue'[k][i] # serving'[k]
             /\ \A j \in 1..Len(queue'[k]) : queue'[k][i] = queue'[k][j] => i = j
  <2>1. CASE k # Key(t)
    <3>1. queue'[k] = queue[k]
      BY <1>1, <2>1 DEF TypeInv, TypeOK
    <3> QED
      BY <1>2, <1>3, <3>1 DEF Tracked
  <2>2. CASE k = Key(t)
    <3>1. queue'[k] = Append(q, t)
      BY <1>1, <2>2 DEF TypeInv, TypeOK
    <3>2. /\ Len(queue'[k]) = Len(q) + 1 /\ Len(q) \in Nat
          /\ queue'[k][Len(q) + 1] = t
          /\ \A j \in 1..Len(q) : queue'[k][j] = q[j]
      BY <1>1, <3>1
    <3>3. \A j \in 1..Len(q) : q[j] \in Unfinished /\ q[j] # t /\ q[j] # serving[k]
      BY <2>2 DEF Tracked
    <3>4. \A j \in 1..(Len(q) + 1) : j \in 1..Len(q) \/ j = Len(q) + 1
      BY <3>2
    <3>5. CASE i \in 1..Len(q)
      <4>1. /\ queue'[k][i] = q[i] /\ q[i] \in Unfinished' /\ q[i] # serving'[k]
            /\ Len(queue'[k]) = Len(q) + 1
        BY <1>2, <1>3, <3>2, <3>3, <3>5
      <4>2. \A j \in 1..Len(q) : q[i] = q[j] => i = j
        BY <2>2, <3>5 DEF Tracked
      <4>3. \A j \in 1..(Len(q) + 1) : queue'[k][i] = queue'[k][j] => i = j
        BY <3>2, <3>3, <3>4, <3>5, <4>1, <4>2
      <4> QED
        BY <4>1, <4>3
    <3>6. CASE i = Len(q) + 1
      BY <1>2, <1>3, <1>4, <3>2, <3>3, <3>4, <3>6
    <3> QED
      BY <3>2, <3>4, <3>5, <3>6
  <2> QED
    BY <2>1, <2>2
<1> QED
  BY <1>2, <1>3, <1>5 DEF Tracked

LEMMA TrackedPop ==
  ASSUME TypeInv, Tracked, NEW k \in Devices, PopQueue(k)
  PROVE  Tracked'
<1>1. worker[k] = "pop" /\ serving[k] = None /\ UNCHANGED <<submitted, done>>
  BY DEF PopQueue, Tracked, Busy
<1>2. CASE queue[k] = << >>
  <2>1. UNCHANGED <<queue, serving>> /\ Goto(k, "top")
    BY <1>2 DEF PopQueue
  <2> QED
    BY <1>1, <2>1 DEF Tracked, Unfinished, Goto, TypeInv, TypeOK, Busy
<1>3. CASE queue[k] # << >>
  <2> DEFINE q == queue[k]
  <2>1. /\ serving' = [serving EXCEPT ![k] = Head(q)]
        /\ queue' = [queue EXCEPT ![k] = Tail(q)]
        /\ worker' = [worker EXCEPT ![k] = "poll"]
    BY <1>3 DEF PopQueue, Goto
  <2>2. q \in Seq(Transfers) /\ q # << >>
    BY <1>3 DEF TypeInv, TypeOK
  <2>3. /\ Head(q) = q[1] /\ 1 \in 1..Len(q)
        /\ \A i \in 1..Len(Tail(q)) : i + 1 \in 1..Len(q) /\ Tail(q)[i] = q[i + 1] /\ i + 1 # 1
        /\ \A i, j \in 1..Len(Tail(q)) : i + 1 = j + 1 => i = j
    BY <2>2
  <2>4. /\ serving'[k] = q[1] /\ queue'[k] = Tail(q) /\ worker'[k] = "poll"
        /\ \A j \in Devices \ {k} :
             serving'[j] = serving[j] /\ queue'[j] = queue[j] /\ worker'[j] = worker[j]
    BY <2>1, <2>3 DEF TypeInv, TypeOK
  <2>5. Unfinished' = Unfinished
    BY <1>1 DEF Unfinished
  <2>6. ASSUME NEW i \in 1..Len(Tail(q))
        PROVE  /\ Tail(q)[i] \in Unfinished /\ Tail(q)[i] # q[1]
               /\ \A j \in 1..Len(Tail(q)) : Tail(q)[i] = Tail(q)[j] => i = j
    <3>1. /\ i + 1 \in 1..Len(q) /\ Tail(q)[i] = q[i + 1]
          /\ \A j \in 1..Len(Tail(q)) : j + 1 \in 1..Len(q) /\ Tail(q)[j] = q[j + 1]
      BY <2>3
    <3>2. q[i + 1] \in Unfinished /\ \A j \in 1..Len(q) : q[i + 1] = q[j] => i + 1 = j
      BY <3>1 DEF Tracked
    <3> QED
      BY <2>3, <3>1, <3>2
  <2>7. q[1] \in Unfinished
    BY <2>3 DEF Tracked
  <2>8. ASSUME NEW j \in Devices
        PROVE  /\ worker'[j] \in Busy => serving'[j] \in Unfinished'
               /\ worker'[j] \notin Busy => serving'[j] = None
               /\ \A i \in 1..Len(queue'[j]) :
                    /\ queue'[j][i] \in Unfinished' /\ queue'[j][i] # serving'[j]
                    /\ \A h \in 1..Len(queue'[j]) : queue'[j][i] = queue'[j][h] => i = h
    <3>1. CASE j = k
      <4>1. /\ queue'[j] = Tail(q) /\ serving'[j] = q[1] /\ worker'[j] = "poll"
        BY <2>4, <3>1
      <4>2. worker'[j] \in Busy
        BY <4>1 DEF Busy, WorkerStates
      <4> QED
        BY <2>5, <2>6, <2>7, <4>1, <4>2
    <3>2. CASE j # k
      BY <2>4, <2>5, <3>2 DEF Tracked
    <3> QED
      BY <3>1, <3>2
  <2> QED
    BY <1>1, <2>8 DEF Tracked
<1> QED
  BY <1>2, <1>3

LEMMA TrackedFinish ==
  ASSUME TypeInv, Tracked, NEW k \in Devices, Finish(k)
  PROVE  Tracked'
<1> DEFINE t == serving[k]
<1>1. /\ worker[k] = "finish" /\ t \in Unfinished /\ t \in Transfers /\ Key(t) = k
      /\ done' = done \cup {t} /\ UNCHANGED <<queue, submitted>>
      /\ serving' = [serving EXCEPT ![k] = None]
      /\ worker' = [worker EXCEPT ![k] = "top"]
  BY DEF Finish, Goto, Tracked, TypeInv, Placed, Busy, WorkerStates
<1>2. Unfinished' = Unfinished \ {t} /\ done' \subseteq submitted'
  BY <1>1 DEF Unfinished, Tracked
<1>3. ASSUME NEW j \in Devices, NEW i \in 1..Len(queue[j])
      PROVE  queue[j][i] # t /\ queue[j][i] # None
  <2>1. Key(queue[j][i]) = j
    BY DEF TypeInv, Placed
  <2>2. queue[j][i] \in Transfers /\ queue[j][i] # serving[j]
    BY DEF Tracked, Unfinished, TypeInv, TypeOK
  <2>3. CASE j = k
    BY <2>2, <2>3, GovernorAssumption
  <2>4. CASE j # k
    BY <1>1, <2>1, <2>2, <2>4, GovernorAssumption
  <2> QED
    BY <2>3, <2>4
<1>4. /\ serving'[k] = None /\ worker'[k] = "top"
      /\ \A j \in Devices \ {k} : serving'[j] = serving[j] /\ worker'[j] = worker[j]
  BY <1>1 DEF TypeInv, TypeOK
<1>5. \A j \in Devices \ {k} : worker[j] \in Busy => serving[j] # t
  BY <1>1 DEF TypeInv, Placed
<1>6. ASSUME NEW j \in Devices
      PROVE  /\ worker'[j] \in Busy => serving'[j] \in Unfinished'
             /\ worker'[j] \notin Busy => serving'[j] = None
             /\ \A i \in 1..Len(queue'[j]) :
                  /\ queue'[j][i] \in Unfinished' /\ queue'[j][i] # serving'[j]
                  /\ \A h \in 1..Len(queue'[j]) : queue'[j][i] = queue'[j][h] => i = h
  <2>1. queue'[j] = queue[j]
    BY <1>1
  <2>2. CASE j = k
    BY <1>2, <1>3, <1>4, <2>1, <2>2 DEF Tracked, Busy
  <2>3. CASE j # k
    BY <1>2, <1>3, <1>4, <1>5, <2>1, <2>3 DEF Tracked
  <2> QED
    BY <2>2, <2>3
<1> QED
  BY <1>2, <1>6 DEF Tracked

LEMMA TrackedNext ==
  ASSUME TypeInv, Tracked, [Next]_vars
  PROVE  Tracked'
<1> USE DEF TypeInv
(* A step that moves no transfer.                                          *)
<1>s. ASSUME UNCHANGED <<queue, submitted, done, serving>>,
             \A j \in Devices : worker'[j] \in Busy <=> worker[j] \in Busy
      PROVE  Tracked'
  BY <1>s DEF Tracked, Unfinished
<1>1. CASE UNCHANGED vars
  BY <1>1, <1>s DEF vars
<1>2. ASSUME NEW t \in Transfers, Submit(t) PROVE Tracked'
  <2>1. t \notin done
    BY <1>2 DEF Submit, Tracked
  <2>2. done' = done \ {t}
    BY <1>2, <2>1 DEF Submit
  <2> QED
    BY <1>2, <2>2, TrackedEnqueue DEF Submit, Unfinished
<1>3. ASSUME NEW t \in Transfers, Resubmit(t) PROVE Tracked'
  BY <1>3, TrackedEnqueue DEF Resubmit, Unfinished
<1>4. ASSUME NEW d \in Devices, FeedVictim(d) \/ AdjustTrim(d) PROVE Tracked'
  BY <1>4, <1>s DEF FeedVictim, AdjustTrim, engineVars
<1>5. ASSUME NEW k \in Devices,
             \/ LoopTop(k) \/ PollAdmission(k) \/ BeginTrim0(k) \/ NativeBoot(k)
             \/ CheckCancel(k) \/ CancelInGap(k) \/ LaunchChunk(k) \/ ApplyRate(k)
             \/ CudaError(k) \/ Drain(k) \/ Unwind(k)
      PROVE  Tracked'
  <2>1. UNCHANGED <<queue, submitted, done, serving>>
    BY <1>5
    DEF LoopTop, PollAdmission, BeginTrim0, NativeBoot, CheckCancel, CancelInGap,
        LaunchChunk, ApplyRate, CudaError, Drain, Unwind, engineVars
  <2>2. \A j \in Devices : worker'[j] \in Busy <=> worker[j] \in Busy
    BY <1>5
    DEF LoopTop, PollAdmission, BeginTrim0, NativeBoot, CheckCancel, CancelInGap,
        LaunchChunk, ApplyRate, CudaError, Drain, Unwind, Goto, TypeOK, Busy, WorkerStates
  <2> QED
    BY <2>1, <2>2, <1>s
<1>6. ASSUME NEW k \in Devices, TryAdmit(k) \/ StartCopy(k) PROVE Tracked'
  BY <1>6, <1>s DEF TryAdmit, StartCopy, Raise, Goto, engineVars, TypeOK, Busy, WorkerStates
<1>7. ASSUME NEW t \in Transfers, MirrorWake(t) \/ MirrorRate(t) \/ ChunkLands(t)
      PROVE  Tracked'
  BY <1>7, <1>s DEF MirrorWake, MirrorRate, ChunkLands, engineVars
<1>8. ASSUME Shutdown PROVE Tracked'
  BY <1>8, <1>s DEF Shutdown, ShutdownBegin, JoinWorkers, DrainStreams, ShutdownRaises, engineVars
<1> QED
  BY <1>1, <1>2, <1>3, <1>4, <1>5, <1>6, <1>7, <1>8, TrackedPop, TrackedFinish
  DEF Next, WorkerStep

-----------------------------------------------------------------------------
(* What a handle holds at each stage of its transfer: nothing in the queue *)
(* and up to the last chunk, an answer from then on, and with a result no  *)
(* chunk missing and none in flight.                                       *)
QueueSettled(k) == \A i \in 1..Len(queue[k]) : outcome[queue[k][i]] = "none"

WorkerSettled(k) ==
  LET t == serving[k] IN
  /\ worker[k] \in {"poll", "admit", "admitted", "trim0", "boot", "check", "launch", "rate"} =>
       outcome[t] = "none"
  /\ worker[k] \in {"drain", "unwind"} => outcome[t] # "none"
  /\ worker[k] = "finish" => outcome[t] # "none" \/ stop
  /\ worker[k] \in {"drain", "unwind", "finish"} /\ outcome[t] = "copied" =>
       launched[t] = Request[t].chunks
  /\ worker[k] \in {"unwind", "finish"} /\ outcome[t] = "copied" => inflight[t] = 0

Settled ==
  /\ \A k \in Devices : QueueSettled(k) /\ WorkerSettled(k)
  /\ \A t \in Transfers \ submitted : outcome[t] = "none"
  /\ HandleSettled
  /\ ResultMeansLanded

LEMMA SettledInit == Init => Settled
  BY DEF Init, Settled, QueueSettled, WorkerSettled, HandleSettled, ResultMeansLanded

(* A step of one worker on the transfer it serves disturbs nothing else.   *)
LEMMA SettledServing ==
  ASSUME TypeInv, Tracked, Settled, NEW k \in Devices, worker[k] \in Busy,
         UNCHANGED <<queue, serving, submitted, done, stop>>,
         \A j \in Devices \ {k} : worker'[j] = worker[j],
         \A u \in Transfers \ {serving[k]} :
           outcome'[u] = outcome[u] /\ launched'[u] = launched[u] /\ inflight'[u] = inflight[u],
         WorkerSettled(k)'
  PROVE  Settled'
<1> DEFINE t == serving[k]
<1>1. t \in Unfinished /\ t \in Transfers
  BY DEF Tracked, TypeInv, Placed
<1>2. ASSUME NEW j \in Devices PROVE QueueSettled(j)'
  <2>1. \A i \in 1..Len(queue[j]) : queue[j][i] \in Transfers \ {t}
    <3>1. ASSUME NEW i \in 1..Len(queue[j]) PROVE queue[j][i] \in Transfers \ {t}
      <4>1. Key(queue[j][i]) = j /\ Key(t) = k /\ queue[j][i] \in Transfers
        BY DEF TypeInv, TypeOK, Placed
      <4>2. j = k => queue[j][i] # t
        BY DEF Tracked
      <4> QED
        BY <4>1, <4>2
    <3> QED
      BY <3>1
  <2> QED
    BY <2>1 DEF Settled, QueueSettled
<1>3. ASSUME NEW j \in Devices PROVE WorkerSettled(j)'
  <2>1. CASE j = k
    BY <2>1
  <2>2. CASE j # k /\ worker[j] \in Busy
    <3>1. serving[j] \in Transfers \ {t}
      BY <2>2, OneServer DEF TypeInv, Placed
    <3> QED
      BY <2>2, <3>1 DEF Settled, WorkerSettled
  <2>3. CASE j # k /\ worker[j] \notin Busy
    BY <2>3 DEF WorkerSettled, Busy, WorkerStates
  <2> QED
    BY <2>1, <2>2, <2>3
<1>4. \A u \in Transfers : u \in done \/ u \notin submitted => u # t
  BY <1>1 DEF Unfinished
<1> QED
  BY <1>2, <1>3, <1>4 DEF Settled, HandleSettled, ResultMeansLanded, TypeInv, TypeOK

LEMMA SettledEnqueue ==
  ASSUME TypeInv, Tracked, Settled, NEW t \in Transfers, t \notin Unfinished,
         Enqueue(t), done' = done \ {t}, UNCHANGED <<serving, stop>>,
         outcome'[t] = "none",
         \A u \in Transfers \ {t} :
           outcome'[u] = outcome[u] /\ launched'[u] = launched[u] /\ inflight'[u] = inflight[u]
  PROVE  Settled'
<1>1. /\ queue' = [queue EXCEPT ![Key(t)] = Append(queue[Key(t)], t)] /\ Key(t) \in Devices
      /\ \A k \in Devices : queue[k] \in Seq(Transfers)
      /\ submitted' = submitted \cup {t}
  BY KeyIsDevice DEF Enqueue, TypeInv, TypeOK
<1>2. ASSUME NEW k \in Devices PROVE QueueSettled(k)'
  <2>1. ASSUME NEW i \in 1..Len(queue[k]) PROVE outcome'[queue[k][i]] = "none"
    <3>1. queue[k][i] \in Transfers \ {t} /\ outcome[queue[k][i]] = "none"
      BY <1>1 DEF Tracked, Settled, QueueSettled
    <3> QED
      BY <3>1
  <2>2. CASE k # Key(t)
    BY <1>1, <2>1, <2>2 DEF QueueSettled, TypeInv, TypeOK
  <2>3. CASE k = Key(t)
    <3>1. queue'[k] = Append(queue[k], t)
      BY <1>1, <2>3 DEF TypeInv, TypeOK
    <3>2. /\ Len(queue'[k]) = Len(queue[k]) + 1 /\ Len(queue[k]) \in Nat
          /\ queue'[k][Len(queue[k]) + 1] = t
          /\ \A i \in 1..Len(queue[k]) : queue'[k][i] = queue[k][i]
      BY <1>1, <3>1
    <3>3. \A i \in 1..(Len(queue[k]) + 1) : i \in 1..Len(queue[k]) \/ i = Len(queue[k]) + 1
      BY <3>2
    <3> QED
      BY <2>1, <3>2, <3>3 DEF QueueSettled
  <2> QED
    BY <2>2, <2>3
<1>3. ASSUME NEW k \in Devices PROVE WorkerSettled(k)'
  <2>1. CASE worker[k] \in Busy
    <3>1. worker'[k] = worker[k]
      BY <2>1 DEF Enqueue, TypeInv, TypeOK, Busy
    <3>2. serving[k] \in Transfers \ {t}
      BY <2>1 DEF Tracked, TypeInv, Placed
    <3> QED
      BY <3>1, <3>2 DEF Settled, WorkerSettled
  <2>2. CASE worker[k] \notin Busy
    <3>1. worker'[k] \notin Busy
      BY <2>2 DEF Enqueue, TypeInv, TypeOK, Busy
    <3> QED
      BY <3>1 DEF WorkerSettled, Busy, WorkerStates
  <2> QED
    BY <2>1, <2>2
<1>4. \A u \in done' : u \in done /\ u \in Transfers \ {t}
  BY DEF TypeInv, TypeOK
<1> QED
  BY <1>1, <1>2, <1>3, <1>4 DEF Settled, HandleSettled, ResultMeansLanded

LEMMA SettledPop ==
  ASSUME TypeInv, Tracked, Settled, NEW k \in Devices, PopQueue(k)
  PROVE  Settled'
<1>1. UNCHANGED <<submitted, done, outcome, launched, inflight, stop>> /\ worker[k] = "pop"
  BY DEF PopQueue, transferVars
<1>2. CASE queue[k] = << >>
  <2>1. UNCHANGED <<queue, serving>> /\ worker' = [worker EXCEPT ![k] = "top"]
    BY <1>2 DEF PopQueue, Goto
  <2> QED
    BY <1>1, <2>1
    DEF Settled, QueueSettled, WorkerSettled, HandleSettled, ResultMeansLanded, TypeInv, TypeOK
<1>3. CASE queue[k] # << >>
  <2> DEFINE q == queue[k]
  <2>1. /\ serving' = [serving EXCEPT ![k] = Head(q)]
        /\ queue' = [queue EXCEPT ![k] = Tail(q)]
        /\ worker' = [worker EXCEPT ![k] = "poll"]
    BY <1>3 DEF PopQueue, Goto
  <2>2. q \in Seq(Transfers) /\ q # << >>
    BY <1>3 DEF TypeInv, TypeOK
  <2>3. /\ Head(q) = q[1] /\ 1 \in 1..Len(q)
        /\ \A i \in 1..Len(Tail(q)) : i + 1 \in 1..Len(q) /\ Tail(q)[i] = q[i + 1]
    BY <2>2
  <2>4. /\ serving'[k] = q[1] /\ queue'[k] = Tail(q) /\ worker'[k] = "poll"
        /\ \A j \in Devices \ {k} :
             serving'[j] = serving[j] /\ queue'[j] = queue[j] /\ worker'[j] = worker[j]
    BY <2>1, <2>3 DEF TypeInv, TypeOK
  <2>5. \A i \in 1..Len(q) : outcome[q[i]] = "none"
    BY DEF Settled, QueueSettled
  <2>6. QueueSettled(k)' /\ WorkerSettled(k)'
    BY <1>1, <2>3, <2>4, <2>5 DEF QueueSettled, WorkerSettled
  <2>7. \A j \in Devices \ {k} : QueueSettled(j)' /\ WorkerSettled(j)'
    BY <1>1, <2>4 DEF Settled, QueueSettled, WorkerSettled
  <2> QED
    BY <1>1, <2>6, <2>7 DEF Settled, HandleSettled, ResultMeansLanded
<1> QED
  BY <1>2, <1>3

LEMMA SettledFinish ==
  ASSUME TypeInv, Settled, NEW k \in Devices, Finish(k)
  PROVE  Settled'
<1> DEFINE t == serving[k]
<1>1. /\ worker[k] = "finish" /\ worker' = [worker EXCEPT ![k] = "top"]
      /\ serving' = [serving EXCEPT ![k] = None] /\ done' = done \cup {t}
      /\ UNCHANGED <<queue, submitted, outcome, launched, inflight, stop>>
  BY DEF Finish, Goto, transferVars
<1>2. /\ outcome[t] = "none" => stop
      /\ outcome[t] = "copied" => launched[t] = Request[t].chunks /\ inflight[t] = 0
  BY <1>1 DEF Settled, WorkerSettled
<1>3. \A j \in Devices : QueueSettled(j)' /\ WorkerSettled(j)'
  BY <1>1 DEF Settled, QueueSettled, WorkerSettled, TypeInv, TypeOK
<1> QED
  BY <1>1, <1>2, <1>3 DEF Settled, HandleSettled, ResultMeansLanded

LEMMA SettledNext ==
  ASSUME TypeInv, Tracked, Settled, [Next]_vars
  PROVE  Settled'
<1> USE DEF TypeInv
(* A step that touches no handle, queue, chunk or program counter.         *)
<1>s. ASSUME UNCHANGED <<queue, serving, worker, submitted, done, outcome, launched, inflight>>,
             stop => stop'
      PROVE  Settled'
  BY <1>s DEF Settled, QueueSettled, WorkerSettled, HandleSettled, ResultMeansLanded
<1>1. CASE UNCHANGED vars
  BY <1>1, <1>s DEF vars
<1>2. ASSUME NEW t \in Transfers, Submit(t) PROVE Settled'
  <2>1. t \notin done /\ outcome[t] = "none"
    BY <1>2 DEF Submit, Tracked, Settled
  <2>2. done' = done \ {t} /\ UNCHANGED <<serving, stop, outcome, launched, inflight>>
    BY <1>2, <2>1 DEF Submit, transferVars
  <2> QED
    BY <1>2, <2>1, <2>2, SettledEnqueue DEF Submit, Unfinished
<1>3. ASSUME NEW t \in Transfers, Resubmit(t) PROVE Settled'
  <2>1. /\ t \notin Unfinished /\ Enqueue(t) /\ done' = done \ {t}
        /\ UNCHANGED <<serving, stop, inflight>>
        /\ outcome' = [outcome EXCEPT ![t] = "none"]
        /\ launched' = [launched EXCEPT ![t] = 0]
    BY <1>3 DEF Resubmit, Unfinished
  <2>2. /\ outcome'[t] = "none"
        /\ \A u \in Transfers \ {t} : outcome'[u] = outcome[u] /\ launched'[u] = launched[u]
    BY <2>1 DEF TypeOK
  <2> QED
    BY <2>1, <2>2, SettledEnqueue
<1>4. ASSUME NEW d \in Devices, FeedVictim(d) \/ AdjustTrim(d) PROVE Settled'
  BY <1>4, <1>s DEF FeedVictim, AdjustTrim, engineVars, transferVars
<1>5. ASSUME NEW k \in Devices, LoopTop(k) PROVE Settled'
  BY <1>5
  DEF LoopTop, Goto, engineVars, transferVars, TypeOK, Settled, QueueSettled,
      WorkerSettled, HandleSettled, ResultMeansLanded
<1>w. ASSUME NEW k \in Devices, WorkerStep(k), ~LoopTop(k), ~PopQueue(k), ~Finish(k)
      PROVE  Settled'
  <2> DEFINE t == serving[k]
  <2>1. /\ worker[k] \in Busy /\ UNCHANGED <<queue, serving, submitted, done, stop>>
        /\ \E pc \in WorkerStates : worker' = [worker EXCEPT ![k] = pc]
    BY <1>w
    DEF WorkerStep, PollAdmission, TryAdmit, BeginTrim0, StartCopy, NativeBoot, CheckCancel,
        CancelInGap, LaunchChunk, ApplyRate, CudaError, Drain, Unwind, Raise, Goto,
        engineVars, Busy, WorkerStates
  <2>2. /\ t \in Transfers
        /\ \A j \in Devices \ {k} : worker'[j] = worker[j]
    BY <2>1 DEF TypeOK, Placed
  <2>3. \A u \in Transfers \ {t} :
          outcome'[u] = outcome[u] /\ launched'[u] = launched[u] /\ inflight'[u] = inflight[u]
    BY <1>w
    DEF WorkerStep, PollAdmission, TryAdmit, BeginTrim0, StartCopy, NativeBoot, CheckCancel,
        CancelInGap, LaunchChunk, ApplyRate, CudaError, Drain, Unwind, Raise,
        transferVars, TypeOK
  <2>4. WorkerSettled(k)
    BY DEF Settled
  <2>5. WorkerSettled(k)'
    <3>1. CASE PollAdmission(k) \/ BeginTrim0(k) \/ NativeBoot(k)
      BY <2>1, <2>4, <3>1
      DEF PollAdmission, BeginTrim0, NativeBoot, Goto, transferVars, TypeOK, WorkerSettled
    <3>2. CASE TryAdmit(k) \/ StartCopy(k)
      BY <2>1, <2>2, <2>4, <3>2 DEF TryAdmit, StartCopy, Raise, Goto, TypeOK, WorkerSettled
    <3>3. CASE CheckCancel(k) \/ CancelInGap(k)
      BY <2>1, <2>2, <2>4, <3>3 DEF CheckCancel, CancelInGap, Goto, TypeOK, WorkerSettled
    <3>4. CASE LaunchChunk(k)
      <4>1. worker[k] = "launch" /\ worker'[k] \in {"check", "rate"} /\ UNCHANGED outcome
        BY <3>4 DEF LaunchChunk, Goto, TypeOK
      <4> QED
        BY <2>1, <2>4, <4>1 DEF WorkerSettled
    <3>5. CASE ApplyRate(k) \/ CudaError(k)
      BY <2>1, <2>2, <2>4, <3>5 DEF ApplyRate, CudaError, Goto, TypeOK, WorkerSettled
    <3>6. CASE Drain(k) \/ Unwind(k)
      BY <2>1, <2>2, <2>4, <3>6 DEF Drain, Unwind, Goto, transferVars, TypeOK, WorkerSettled
    <3> QED
      BY <1>w, <3>1, <3>2, <3>3, <3>4, <3>5, <3>6 DEF WorkerStep
  <2> QED
    BY <2>1, <2>2, <2>3, <2>5, SettledServing
<1>6. ASSUME NEW t \in Transfers, MirrorWake(t) \/ MirrorRate(t) PROVE Settled'
  BY <1>6, <1>s DEF MirrorWake, MirrorRate, engineVars
<1>7. ASSUME NEW t \in Transfers, ChunkLands(t) PROVE Settled'
  <2>1. /\ UNCHANGED <<queue, serving, worker, submitted, done, outcome, launched, stop>>
        /\ \A u \in Transfers : inflight[u] = 0 => inflight'[u] = 0
    BY <1>7 DEF ChunkLands, engineVars, TypeOK
  <2>2. \A k \in Devices : worker[k] \in {"unwind", "finish"} => serving[k] \in Transfers
    BY DEF Placed, Busy, WorkerStates
  <2> QED
    BY <2>1, <2>2
    DEF Settled, QueueSettled, WorkerSettled, HandleSettled, ResultMeansLanded, TypeOK
<1>8. ASSUME Shutdown PROVE Settled'
  BY <1>8, <1>s
  DEF Shutdown, ShutdownBegin, JoinWorkers, DrainStreams, ShutdownRaises, engineVars,
      transferVars
<1> QED
  BY <1>1, <1>2, <1>3, <1>4, <1>5, <1>w, <1>6, <1>7, <1>8, SettledPop, SettledFinish
  DEF Next, WorkerStep

Handled == TypeInv /\ Tracked /\ Settled

LEMMA HandledAlways == Spec => []Handled
<1>1. Init => Handled
  BY TypeInvInit, TrackedInit, SettledInit DEF Handled
<1>2. Handled /\ [Next]_vars => Handled'
  BY TypeInvNext, TrackedNext, SettledNext DEF Handled
<1> QED
  BY <1>1, <1>2, PTL DEF Spec

(* Whatever breaks on the way (a CUDA call, a trims dictionary growing     *)
(* under a walk, a route without a curve), a handle whose event is set     *)
(* holds a result or an error, unless the governor was stopped.            *)
THEOREM HandlesSettled == Spec => []HandleSettled
<1>1. Handled => HandleSettled
  BY DEF Handled, Settled
<1> QED
  BY <1>1, HandledAlways, PTL

(* A handle with a result stands for a train all of whose chunks were      *)
(* launched and have landed.                                               *)
THEOREM ResultsLanded == Spec => []ResultMeansLanded
<1>1. Handled => ResultMeansLanded
  BY DEF Handled, Settled
<1> QED
  BY <1>1, HandledAlways, PTL

-----------------------------------------------------------------------------
(* The unfinished submissions to a device.                                 *)
Owed(d) == { t \in Unfinished : Request[t].dst = d }

LEMMA OwedFinite ==
  ASSUME TypeInv, NEW d
  PROVE  IsFiniteSet(Owed(d)) /\ Cardinality(Owed(d)) \in Nat
<1>1. Owed(d) \in SUBSET Transfers /\ IsFiniteSet(Transfers)
  BY LedgerAssumption DEF Owed, Unfinished, TypeInv, TypeOK
<1>2. IsFiniteSet(Owed(d))
  BY <1>1, FS_Subset
<1> QED
  BY <1>2, FS_CardinalityType

LEMMA CountInit == Init => PendingCount
<1> SUFFICES ASSUME Init, NEW d \in Devices
             PROVE  pendingDst[d] = Cardinality(Owed(d))
  BY DEF PendingCount, Owed, Unfinished
<1>1. Owed(d) = {} /\ pendingDst[d] = 0
  BY DEF Init, Owed, Unfinished
<1> QED
  BY <1>1, FS_EmptySet

LEMMA CountNext ==
  ASSUME TypeInv, Tracked, PendingCount, [Next]_vars
  PROVE  PendingCount'
<1>c. \A d \in Devices : pendingDst[d] = Cardinality(Owed(d))
  BY DEF PendingCount, Owed, Unfinished
<1>g. ASSUME \A d \in Devices : pendingDst'[d] = Cardinality(Owed(d)')
      PROVE  PendingCount'
  BY <1>g DEF PendingCount, Owed, Unfinished
<1>s. ASSUME UNCHANGED <<pendingDst, submitted, done>> PROVE PendingCount'
  BY <1>s DEF PendingCount
<1>e. ASSUME NEW t \in Transfers, t \notin Unfinished, Enqueue(t), done' = done \ {t}
      PROVE  PendingCount'
  <2>1. /\ pendingDst' = [d \in Devices |->
             IF d = Request[t].dst THEN pendingDst[d] + 1 ELSE pendingDst[d]]
        /\ Unfinished' = Unfinished \cup {t}
    BY <1>e DEF Enqueue, Unfinished
  <2>2. ASSUME NEW d \in Devices PROVE pendingDst'[d] = Cardinality(Owed(d)')
    <3>1. IsFiniteSet(Owed(d)) /\ t \notin Owed(d)
      BY <1>e, OwedFinite DEF Owed
    <3>2. CASE d = Request[t].dst
      <4>1. Owed(d)' = Owed(d) \cup {t}
        BY <2>1, <3>2 DEF Owed
      <4>2. Cardinality(Owed(d) \cup {t}) = Cardinality(Owed(d)) + 1
        BY <3>1, FS_AddElement
      <4> QED
        BY <1>c, <2>1, <3>2, <4>1, <4>2
    <3>3. CASE d # Request[t].dst
      <4>1. Owed(d)' = Owed(d)
        BY <2>1, <3>3 DEF Owed
      <4> QED
        BY <1>c, <2>1, <3>3, <4>1
    <3> QED
      BY <3>2, <3>3
  <2> QED
    BY <2>2, <1>g
<1>1. CASE UNCHANGED vars
  BY <1>1, <1>s DEF vars
<1>2. ASSUME NEW t \in Transfers, Submit(t) PROVE PendingCount'
  <2>1. t \notin Unfinished /\ Enqueue(t) /\ done' = done \ {t}
    BY <1>2 DEF Submit, Unfinished, Tracked
  <2> QED
    BY <2>1, <1>e
<1>3. ASSUME NEW t \in Transfers, Resubmit(t) PROVE PendingCount'
  BY <1>3, <1>e DEF Resubmit, Unfinished
<1>4. ASSUME NEW d \in Devices, FeedVictim(d) \/ AdjustTrim(d) PROVE PendingCount'
  BY <1>4, <1>s DEF FeedVictim, AdjustTrim, engineVars
<1>5. ASSUME NEW k \in Devices, WorkerStep(k), ~Finish(k) PROVE PendingCount'
  BY <1>5, <1>s
  DEF WorkerStep, LoopTop, PopQueue, PollAdmission, TryAdmit, BeginTrim0, StartCopy,
      NativeBoot, CheckCancel, CancelInGap, LaunchChunk, ApplyRate, CudaError, Drain,
      Unwind, engineVars
<1>6. ASSUME NEW k \in Devices, Finish(k) PROVE PendingCount'
  <2> DEFINE t == serving[k]
  <2>1. /\ pendingDst' = [d \in Devices |->
             IF d = Request[t].dst THEN pendingDst[d] - 1 ELSE pendingDst[d]]
        /\ done' = done \cup {t} /\ UNCHANGED submitted /\ t \in Unfinished
    BY <1>6 DEF Finish, Tracked, Busy, WorkerStates
  <2>2. Unfinished' = Unfinished \ {t}
    BY <2>1 DEF Unfinished
  <2>3. ASSUME NEW d \in Devices PROVE pendingDst'[d] = Cardinality(Owed(d)')
    <3>1. IsFiniteSet(Owed(d))
      BY OwedFinite
    <3>2. CASE d = Request[t].dst
      <4>1. Owed(d)' = Owed(d) \ {t} /\ t \in Owed(d)
        BY <2>1, <2>2, <3>2 DEF Owed
      <4>2. Cardinality(Owed(d) \ {t}) = Cardinality(Owed(d)) - 1
        BY <3>1, <4>1, FS_RemoveElement
      <4> QED
        BY <1>c, <2>1, <3>2, <4>1, <4>2
    <3>3. CASE d # Request[t].dst
      <4>1. Owed(d)' = Owed(d)
        BY <2>2, <3>3 DEF Owed
      <4> QED
        BY <1>c, <2>1, <3>3, <4>1
    <3> QED
      BY <3>2, <3>3
  <2> QED
    BY <2>3, <1>g
<1>7. ASSUME NEW t \in Transfers, MirrorWake(t) \/ MirrorRate(t) \/ ChunkLands(t)
      PROVE  PendingCount'
  BY <1>7, <1>s DEF MirrorWake, MirrorRate, ChunkLands, engineVars
<1>8. ASSUME Shutdown PROVE PendingCount'
  BY <1>8, <1>s DEF Shutdown, ShutdownBegin, JoinWorkers, DrainStreams, ShutdownRaises, engineVars
<1> QED
  BY <1>1, <1>2, <1>3, <1>4, <1>5, <1>6, <1>7, <1>8 DEF Next

(* The counter the epoch thread reads is the number of unfinished          *)
(* submissions to the device, through errors, cancellation, shutdown and   *)
(* resubmission alike.                                                     *)
THEOREM PendingCounted == Spec => []PendingCount
<1> DEFINE Inv == TypeInv /\ Tracked /\ PendingCount
<1>1. Init => Inv
  BY TypeInvInit, TrackedInit, CountInit
<1>2. Inv /\ [Next]_vars => Inv'
  BY TypeInvNext, TrackedNext, CountNext
<1> QED
  BY <1>1, <1>2, PTL DEF Spec

-----------------------------------------------------------------------------
(* A native train that has not come to its drain has a mirror that will    *)
(* relay the cancellation, or has been told already.                       *)
Relayed ==
  Native => \A k \in Devices :
    /\ worker[k] # "rate"
    /\ worker[k] \in {"check", "launch"} =>
         mirror[serving[k]] # "off" \/ boxCancel[serving[k]]

LEMMA RelayedInit == Init => Relayed
  BY DEF Init, Relayed

LEMMA RelayedNext ==
  ASSUME Faulty = {}, TypeInv, ViewsWhole, Tracked, Relayed, [Next]_vars
  PROVE  Relayed'
<1> USE DEF TypeInv
<1>b. \A th \in Threads : ~MayBreak(th)
  BY NoBreak
(* A step that leaves mirrors and flags alone, and brings no worker into   *)
(* the chunk loop.                                                         *)
<1>s. ASSUME UNCHANGED <<pacerKind, mirror, boxCancel>>,
             \A k \in Devices :
               /\ worker'[k] = "rate" => worker[k] = "rate"
               /\ worker'[k] \in {"check", "launch"} =>
                    worker[k] \in {"check", "launch"} /\ serving'[k] = serving[k]
      PROVE  Relayed'
  BY <1>s DEF Relayed, Native
<1>1. CASE UNCHANGED vars
  BY <1>1, <1>s DEF vars
<1>2. ASSUME NEW t \in Transfers, Submit(t) PROVE Relayed'
  BY <1>2, <1>s, KeyIsDevice DEF Submit, Enqueue, TypeOK, transferVars
<1>3. ASSUME NEW t \in Transfers, Resubmit(t) PROVE Relayed'
  <2>1. \A k \in Devices : worker[k] \in {"check", "launch"} => serving[k] \in Transfers \ {t}
    BY <1>3 DEF Resubmit, Tracked, Unfinished, Busy, WorkerStates, Placed
  <2>2. /\ UNCHANGED <<pacerKind, mirror, serving>>
        /\ \A u \in Transfers \ {t} : boxCancel'[u] = boxCancel[u]
        /\ \A k \in Devices : worker'[k] = worker[k] \/ worker'[k] = "top"
    BY <1>3, KeyIsDevice DEF Resubmit, Enqueue, TypeOK
  <2> QED
    BY <2>1, <2>2 DEF Relayed, Native
<1>4. ASSUME NEW d \in Devices, FeedVictim(d) \/ AdjustTrim(d) PROVE Relayed'
  BY <1>4, <1>s DEF FeedVictim, AdjustTrim, transferVars
<1>5. ASSUME NEW k \in Devices,
             \/ LoopTop(k) \/ PopQueue(k) \/ PollAdmission(k) \/ BeginTrim0(k)
             \/ CheckCancel(k) \/ CancelInGap(k) \/ Unwind(k) \/ Finish(k)
      PROVE  Relayed'
  BY <1>5, <1>s
  DEF LoopTop, PopQueue, PollAdmission, BeginTrim0, CheckCancel, CancelInGap, Unwind,
      Finish, Goto, TypeOK, transferVars
<1>6. ASSUME NEW k \in Devices, TryAdmit(k) PROVE Relayed'
  BY <1>6, <1>s DEF TryAdmit, Raise, Goto, TypeOK
<1>7. CASE ~Native
  <2>1. UNCHANGED pacerKind
    BY DEF Next, vars, Submit, Resubmit, FeedVictim, AdjustTrim, WorkerStep, LoopTop, PopQueue,
           PollAdmission, TryAdmit, BeginTrim0, StartCopy, NativeBoot, CheckCancel,
           CancelInGap, LaunchChunk, ApplyRate, CudaError, Drain, Unwind, Finish,
           MirrorWake, MirrorRate, ChunkLands, Shutdown, ShutdownBegin, JoinWorkers,
           DrainStreams, ShutdownRaises
  <2> QED
    BY <1>7, <2>1 DEF Relayed, Native
<1>8. ASSUME NEW k \in Devices, StartCopy(k), Native PROVE Relayed'
  BY <1>8, <1>s DEF StartCopy, Raise, Goto, TypeOK
<1>9. ASSUME NEW k \in Devices, NativeBoot(k), Native PROVE Relayed'
  <2> DEFINE t == serving[k]
  <2>1. worker[k] = "boot" /\ t \in Transfers
    BY <1>9 DEF NativeBoot, Placed, Busy, WorkerStates
  <2>2. /\ UNCHANGED <<pacerKind, serving>> /\ mirror'[t] = "wait"
        /\ \A u \in Transfers \ {t} : mirror'[u] = mirror[u] /\ boxCancel'[u] = boxCancel[u]
        /\ worker' = [worker EXCEPT ![k] = "check"]
    BY <1>9, <2>1 DEF NativeBoot, Goto, TypeOK
  <2>3. \A j \in Devices \ {k} : worker[j] \in {"check", "launch"} => serving[j] \in Transfers \ {t}
    BY <2>1, OneServer DEF Placed, Busy, WorkerStates
  <2> QED
    BY <1>9, <2>2, <2>3 DEF Relayed, Native, TypeOK
<1>10. ASSUME NEW k \in Devices, LaunchChunk(k), Native PROVE Relayed'
  BY <1>10, <1>s DEF LaunchChunk, Goto, TypeOK
<1>11. ASSUME NEW k \in Devices, ApplyRate(k), Native PROVE Relayed'
  BY <1>11 DEF ApplyRate, Relayed
<1>12. ASSUME NEW k \in Devices, CudaError(k) PROVE Relayed'
  BY <1>12 DEF CudaError
<1>13. ASSUME NEW k \in Devices, Drain(k), Native PROVE Relayed'
  <2> DEFINE t == serving[k]
  <2>1. worker[k] = "drain" /\ t \in Transfers
    BY <1>13 DEF Drain, Placed, Busy, WorkerStates
  <2>2. /\ UNCHANGED <<pacerKind, serving, boxCancel>>
        /\ \A u \in Transfers \ {t} : mirror'[u] = mirror[u]
        /\ worker' = [worker EXCEPT ![k] = "unwind"]
    BY <1>13, <2>1 DEF Drain, StopMirror, Goto, TypeOK
  <2>3. \A j \in Devices \ {k} : worker[j] \in {"check", "launch"} => serving[j] \in Transfers \ {t}
    BY <2>1, OneServer DEF Placed, Busy, WorkerStates
  <2> QED
    BY <1>13, <2>2, <2>3 DEF Relayed, Native, TypeOK
<1>14. ASSUME NEW t \in Transfers, MirrorWake(t) PROVE Relayed'
  <2>1. /\ UNCHANGED <<pacerKind, serving, worker>>
        /\ mirror'[t] # "off" \/ boxCancel'[t]
        /\ \A u \in Transfers \ {t} : mirror'[u] = mirror[u] /\ boxCancel'[u] = boxCancel[u]
    BY <1>14 DEF MirrorWake, TypeOK
  <2>2. \A k \in Devices : worker[k] \in {"check", "launch"} => serving[k] \in Transfers
    BY DEF Placed, Busy, WorkerStates
  <2> QED
    BY <2>1, <2>2 DEF Relayed, Native
<1>15. ASSUME NEW t \in Transfers, MirrorRate(t) PROVE Relayed'
  <2>1. /\ UNCHANGED <<pacerKind, serving, worker, boxCancel>>
        /\ mirror'[t] = IF TrainRunning(t) THEN "wait" ELSE "off"
        /\ \A u \in Transfers \ {t} : mirror'[u] = mirror[u]
    BY <1>15, <1>b DEF MirrorRate, Threads, TypeOK
  <2>2. \A k \in Devices : worker[k] \in {"check", "launch"} =>
          serving[k] \in Transfers /\ TrainRunning(serving[k])
    BY DEF Placed, Busy, WorkerStates, TrainRunning
  <2> QED
    BY <2>1, <2>2 DEF Relayed, Native
<1>16. ASSUME NEW t \in Transfers, ChunkLands(t) PROVE Relayed'
  BY <1>16, <1>s DEF ChunkLands
<1>17. ASSUME Shutdown PROVE Relayed'
  BY <1>17, <1>s DEF Shutdown, ShutdownBegin, JoinWorkers, DrainStreams, ShutdownRaises, transferVars
<1> QED
  BY <1>1, <1>2, <1>3, <1>4, <1>5, <1>6, <1>7, <1>8, <1>9, <1>10, <1>11, <1>12, <1>13,
     <1>14, <1>15, <1>16, <1>17
  DEF Next, WorkerStep

(* Once shutdown() has joined the workers, none is at work again.          *)
Joined ==
  /\ LateIdle
  /\ shut \in {"joined", "returned"} =>
       \A k \in Devices : worker[k] \in {"none", "top", "exited"}

LEMMA JoinedNext ==
  ASSUME TypeInv, Relayed, Joined, [Next]_vars
  PROVE  Joined'
<1> USE DEF TypeInv
<1>l. LateIdle'
  BY LateIdleNext DEF Joined
<1>1. CASE UNCHANGED vars
  BY <1>1, <1>l DEF vars, Joined
<1>2. ASSUME NEW t \in Transfers, Submit(t) \/ Resubmit(t) PROVE Joined'
  BY <1>2, <1>l, KeyIsDevice DEF Submit, Resubmit, Enqueue, Joined, TypeOK
<1>3. ASSUME NEW d \in Devices, FeedVictim(d) \/ AdjustTrim(d) PROVE Joined'
  BY <1>3, <1>l DEF FeedVictim, AdjustTrim, Joined
<1>4. ASSUME NEW k \in Devices, LoopTop(k) PROVE Joined'
  BY <1>4, <1>l DEF LoopTop, Goto, Joined, LateIdle, TypeOK
<1>5. ASSUME NEW k \in Devices, WorkerStep(k), ~LoopTop(k) PROVE Joined'
  <2>1. worker[k] \notin {"none", "top", "exited"} /\ UNCHANGED <<stop, shut>>
    BY <1>5
    DEF WorkerStep, PopQueue, PollAdmission, TryAdmit, BeginTrim0, StartCopy,
        NativeBoot, CheckCancel, CancelInGap, LaunchChunk, ApplyRate, CudaError,
        Drain, Unwind, Finish
  <2> QED
    BY <2>1, <1>l DEF Joined
<1>6. ASSUME NEW t \in Transfers, MirrorWake(t) \/ MirrorRate(t) \/ ChunkLands(t) PROVE Joined'
  BY <1>6, <1>l DEF MirrorWake, MirrorRate, ChunkLands, Joined
<1>7. CASE ShutdownBegin \/ DrainStreams \/ ShutdownRaises
  BY <1>7, <1>l DEF ShutdownBegin, DrainStreams, ShutdownRaises, Joined
<1>8. CASE JoinWorkers
  <2>1. \A k \in Devices : ~Uncancellable(k)
    BY DEF Relayed, Uncancellable
  <2> QED
    BY <1>8, <1>l, <2>1 DEF JoinWorkers, Joined, LateIdle
<1> QED
  BY <1>1, <1>2, <1>3, <1>4, <1>5, <1>6, <1>7, <1>8 DEF Next, Shutdown

(* With either actuator nothing moves and nobody can launch once           *)
(* shutdown() has returned, when no CUDA call fails and the trims          *)
(* dictionary does not grow: the mirror thread lives as long as its train  *)
(* and relays the cancellation to it.                                      *)
THEOREM NativeShutdownQuiesces ==
  ASSUME TrimsSettled, Faulty = {}
  PROVE  Spec => []ShutdownQuiesces
<1> DEFINE Inv == TypeInv /\ ViewsWhole /\ Tracked /\ InFlightServed /\ Relayed /\ Joined
<1>1. Init => Inv
  BY TypeInvInit, ViewsWholeInit, TrackedInit, InFlightServedInit, RelayedInit
  DEF Init, Joined, LateIdle
<1>2. Inv /\ [Next]_vars => Inv'
  BY TypeInvNext, ViewsWholeNext, TrackedNext, InFlightServedNext, RelayedNext, JoinedNext
  DEF TypeInv
<1>3. Inv => ShutdownQuiesces
  <2> SUFFICES ASSUME Inv, shut = "returned" PROVE ShutdownQuiesces
    BY DEF ShutdownQuiesces
  <2>1. \A k \in Devices : worker[k] \in {"none", "top", "exited"}
    BY DEF Joined
  <2>2. \A t \in Transfers : inflight[t] \in Nat /\ ~(inflight[t] > 0)
    BY <2>1 DEF InFlightServed, Running, TypeInv, TypeOK
  <2> QED
    BY <2>1, <2>2 DEF ShutdownQuiesces, Holding
<1> QED
  BY <1>1, <1>2, <1>3, PTL DEF Spec

-----------------------------------------------------------------------------
(* The refinement: every step is one of the service, or a stutter.         *)

Lines == [k \in Devices |-> InLine(k)]

ServiceStep == [Service!Next]_(Service!vars)

LEMMA InLineBusy ==
  ASSUME TypeInv, NEW k \in Devices, worker[k] \in Busy
  PROVE  /\ Lines[k] = <<serving[k]>> \o queue[k]
         /\ Lines[k] \in Seq(Transfers) /\ Lines[k] # << >>
         /\ Head(Lines[k]) = serving[k]
         /\ Tail(Lines[k]) = queue[k]
<1>1. /\ serving[k] \in Transfers /\ serving[k] # None
      /\ queue[k] \in Seq(Transfers)
  BY GovernorAssumption DEF TypeInv, TypeOK, Placed
<1>2. Lines[k] = <<serving[k]>> \o queue[k]
  BY <1>1 DEF Lines, InLine
<1> QED
  BY <1>1, <1>2

LEMMA InLineIdle ==
  ASSUME TypeInv, NEW k \in Devices, serving[k] = None
  PROVE  Lines[k] = queue[k]
<1>1. queue[k] \in Seq(Transfers)
  BY DEF TypeInv, TypeOK
<1>2. Lines[k] = << >> \o queue[k]
  BY DEF Lines, InLine
<1> QED
  BY <1>1, <1>2

(* The transfer a worker serves is the first of its line.                  *)
LEMMA ServedIsFirst ==
  ASSUME TypeInv, NEW k \in Devices, worker[k] \in Busy
  PROVE  /\ serving[k] \in Transfers /\ Key(serving[k]) = k
         /\ Service!First(serving[k])
<1>1. serving[k] \in Transfers /\ Key(serving[k]) = k
  BY DEF TypeInv, Placed
<1> QED
  BY <1>1, InLineBusy DEF Service!First, Lines

(* Only a transfer in progress is in a line.                               *)
LEMMA WaitingIsUnfinished ==
  ASSUME TypeInv, Tracked, NEW t \in Transfers, Service!Waiting(t)
  PROVE  t \in Unfinished
<1>1. PICK k \in Devices : \E i \in DOMAIN Lines[k] : Lines[k][i] = t
  BY DEF Service!Waiting, Lines
<1>2. PICK i \in DOMAIN Lines[k] : Lines[k][i] = t
  BY <1>1
<1>3. queue[k] \in Seq(Transfers) /\ \A j \in 1..Len(queue[k]) : queue[k][j] \in Unfinished
  BY DEF TypeInv, TypeOK, Tracked
<1>4. CASE worker[k] \in Busy
  <2>1. Lines[k] = <<serving[k]>> \o queue[k] /\ serving[k] \in Unfinished
    BY <1>4, InLineBusy DEF Tracked
  <2>2. CASE i = 1
    <3>1. Lines[k][1] = serving[k]
      BY <1>3, <2>1
    <3> QED
      BY <1>2, <2>1, <2>2, <3>1
  <2>3. CASE i # 1
    <3>1. i - 1 \in 1..Len(queue[k]) /\ Lines[k][i] = queue[k][i - 1]
      BY <1>2, <1>3, <2>1, <2>3
    <3> QED
      BY <1>2, <1>3, <3>1
  <2> QED
    BY <2>2, <2>3
<1>5. CASE worker[k] \notin Busy
  <2>1. Lines[k] = queue[k]
    BY <1>5, InLineIdle DEF Tracked
  <2> QED
    BY <1>2, <1>3, <2>1
<1> QED
  BY <1>4, <1>5

-----------------------------------------------------------------------------
LEMMA InitService == Init => Service!Init
<1> SUFFICES ASSUME Init PROVE Service!Init
  OBVIOUS
<1>1. \A k \in Devices : InLine(k) = << >>
  BY DEF Init, InLine
<1> QED
  BY <1>1 DEF Init, LedgerInit, Service!Init

LEMMA StutterService ==
  ASSUME UNCHANGED <<queue, serving, active, done>>
  PROVE  ServiceStep
  BY DEF ServiceStep, Service!vars, InLine

LEMMA EnqueueService ==
  ASSUME TypeInv, Tracked, NEW t \in Transfers, t \notin Unfinished, Enqueue(t),
         done' = done \ {t}, UNCHANGED <<serving, active>>
  PROVE  ServiceStep
<1>1. Key(t) \in Devices /\ queue' = [queue EXCEPT ![Key(t)] = Append(queue[Key(t)], t)]
  BY KeyIsDevice DEF Enqueue
<1>2. ~Service!Waiting(t)
  BY WaitingIsUnfinished
<1>3. Lines' = [Lines EXCEPT ![Key(t)] = Append(Lines[Key(t)], t)]
  <2>1. \A k \in Devices : k # Key(t) => InLine(k)' = InLine(k)
    BY <1>1 DEF InLine, TypeInv, TypeOK
  <2>2. InLine(Key(t))' = Append(InLine(Key(t)), t)
    <3> DEFINE q == queue[Key(t)]
               s == IF serving[Key(t)] = None THEN << >> ELSE <<serving[Key(t)]>>
    <3>1. q \in Seq(Transfers) /\ s \in Seq(Transfers) /\ queue'[Key(t)] = Append(q, t)
      BY <1>1 DEF TypeInv, TypeOK
    <3>2. InLine(Key(t)) = s \o q /\ InLine(Key(t))' = s \o Append(q, t)
      BY <3>1 DEF InLine
    <3> HIDE DEF q, s
    <3>3. s \o Append(q, t) = Append(s \o q, t)
      BY <3>1
    <3> QED
      BY <3>2, <3>3
  <2> QED
    BY <1>1, <2>1, <2>2 DEF Lines
<1>4. Service!Submit(t)
  BY <1>2, <1>3 DEF Service!Submit, Lines
<1> QED
  BY <1>4 DEF ServiceStep, Service!Next

LEMMA PopService ==
  ASSUME TypeInv, Tracked, NEW k \in Devices, PopQueue(k)
  PROVE  ServiceStep
<1>1. UNCHANGED <<active, done>> /\ serving[k] = None
  BY DEF PopQueue, Tracked, Busy
<1>2. CASE queue[k] = << >>
  BY <1>1, <1>2, StutterService DEF PopQueue
<1>3. CASE queue[k] # << >>
  <2> DEFINE q == queue[k]
  <2>1. q \in Seq(Transfers) /\ q # << >>
    BY <1>3 DEF TypeInv, TypeOK
  <2>2. Head(q) \in Transfers /\ Head(q) # None /\ <<Head(q)>> \o Tail(q) = q
    BY <2>1, GovernorAssumption
  <2>3. /\ serving'[k] = Head(q) /\ queue'[k] = Tail(q)
        /\ \A j \in Devices \ {k} : serving'[j] = serving[j] /\ queue'[j] = queue[j]
    BY <1>3 DEF PopQueue, TypeInv, TypeOK
  <2>4. InLine(k)' = q
    BY <2>2, <2>3 DEF InLine
  <2>5. InLine(k) = q
    BY <1>1, InLineIdle DEF Lines
  <2>6. \A j \in Devices : InLine(j)' = InLine(j)
    BY <2>3, <2>4, <2>5 DEF InLine
  <2> QED
    BY <1>1, <2>6 DEF ServiceStep, Service!vars
<1> QED
  BY <1>2, <1>3

LEMMA RescaleService ==
  ASSUME NEW t \in Transfers, NEW v, Rescale(t, v), UNCHANGED <<queue, serving, done>>
  PROVE  ServiceStep
<1>1. CASE t \in DOMAIN active
  <2>1. active' = [active EXCEPT ![t] = LiveRate(t, v)]
    BY <1>1 DEF Rescale, UpdateRate
  <2>2. Service!Rescale(t)
    BY <1>1, <2>1 DEF Service!Rescale, Service!SameBut, InLine
  <2> QED
    BY <2>2 DEF ServiceStep, Service!Next
<1>2. CASE t \notin DOMAIN active
  BY <1>2, StutterService DEF Rescale, UpdateRate
<1> QED
  BY <1>1, <1>2

(* A transfer holds a grant exactly while its worker is in Holding.        *)
LEMMA GrantedIsHeld ==
  ASSUME TypeInv, LeaseHeld, NEW k \in Devices, worker[k] \in Busy
  PROVE  serving[k] \in DOMAIN active <=> worker[k] \in Holding
  BY OneServer, HoldingIsBusy DEF LeaseHeld

LEMMA AdmitService ==
  ASSUME TypeInv, LeaseHeld, NEW k \in Devices, worker[k] = "admit",
         NEW ambient \in Ambients, Admit(serving[k], ambient, TrimOf(view[k])),
         UNCHANGED <<queue, serving, done>>
  PROVE  ServiceStep
<1> DEFINE t == serving[k]
           rate == MaxAdmissible(active, Request[t], ambient, TrimOf(view[k]))
<1>1. worker[k] \in Busy /\ worker[k] \notin Holding
  BY DEF Busy, WorkerStates, Holding
<1>2. t \in Transfers /\ Service!First(t) /\ t \notin DOMAIN active
  BY <1>1, ServedIsFirst, GrantedIsHeld
<1>3. /\ rate >= MinRate
      /\ active' = [u \in DOMAIN active \cup {t} |-> IF u = t THEN rate ELSE active[u]]
  BY DEF Admit
<1> HIDE DEF rate
<1>4. Service!Grant(t)
  BY <1>2, <1>3 DEF Service!Grant, Service!SameBut, InLine
<1> QED
  BY <1>2, <1>4 DEF ServiceStep, Service!Next

LEMMA UnwindService ==
  ASSUME TypeInv, LeaseHeld, NEW k \in Devices, Unwind(k)
  PROVE  ServiceStep
<1> DEFINE t == serving[k]
<1>1. worker[k] = "unwind" /\ Release(t) /\ UNCHANGED <<queue, serving, done>>
  BY DEF Unwind, engineVars
<1>2. t \in Transfers /\ t \in DOMAIN active
  BY <1>1, ServedIsFirst, GrantedIsHeld DEF Busy, WorkerStates, Holding
<1>3. Service!GiveBack(t)
  BY <1>1, <1>2 DEF Service!GiveBack, Release, InLine
<1> QED
  BY <1>2, <1>3 DEF ServiceStep, Service!Next

LEMMA FinishService ==
  ASSUME TypeInv, LeaseHeld, NEW k \in Devices, Finish(k)
  PROVE  ServiceStep
<1> DEFINE t == serving[k]
<1>1. /\ worker[k] = "finish" /\ serving' = [serving EXCEPT ![k] = None]
      /\ done' = done \cup {t} /\ UNCHANGED <<queue, active>>
  BY DEF Finish
<1>2. /\ t \in Transfers /\ Key(t) = k /\ Service!First(t) /\ t \notin DOMAIN active
      /\ worker[k] \in Busy
  BY <1>1, ServedIsFirst, GrantedIsHeld DEF Busy, WorkerStates, Holding
<1>3. InLine(k)' = Tail(InLine(k))
  <2>1. Tail(InLine(k)) = queue[k]
    BY <1>2, InLineBusy DEF Lines
  <2>2. serving'[k] = None /\ queue'[k] = queue[k] /\ queue[k] \in Seq(Transfers)
    BY <1>1 DEF TypeInv, TypeOK
  <2>3. InLine(k)' = << >> \o queue[k]
    BY <2>2 DEF InLine
  <2> QED
    BY <2>1, <2>2, <2>3
<1>4. \A j \in Devices \ {k} : InLine(j)' = InLine(j)
  BY <1>1 DEF InLine, TypeInv, TypeOK
<1>5. Lines' = [Lines EXCEPT ![k] = Tail(Lines[k])]
  BY <1>3, <1>4 DEF Lines
<1>6. Service!Finish(t)
  BY <1>1, <1>2, <1>5 DEF Service!Finish, Lines
<1> QED
  BY <1>2, <1>6 DEF ServiceStep, Service!Next

LEMMA NextService ==
  ASSUME TypeInv, ViewsWhole, LeaseHeld, Tracked, [Next]_vars
  PROVE  ServiceStep
<1>b. \A th \in Threads : ~MayBreak(th)
  BY NoBreak
<1>1. CASE UNCHANGED vars
  BY <1>1, StutterService DEF vars
<1>2. ASSUME NEW t \in Transfers, Submit(t) PROVE ServiceStep
  <2>1. t \notin Unfinished /\ Enqueue(t) /\ done' = done \ {t} /\ UNCHANGED <<serving, active>>
    BY <1>2 DEF Submit, Unfinished, Tracked
  <2> QED
    BY <2>1, EnqueueService
<1>3. ASSUME NEW t \in Transfers, Resubmit(t) PROVE ServiceStep
  BY <1>3, EnqueueService DEF Resubmit, Unfinished
<1>4. ASSUME NEW d \in Devices, FeedVictim(d) \/ AdjustTrim(d) PROVE ServiceStep
  BY <1>4, StutterService DEF FeedVictim, AdjustTrim, engineVars
<1>5. ASSUME NEW k \in Devices,
             \/ LoopTop(k) \/ PollAdmission(k) \/ BeginTrim0(k) \/ StartCopy(k)
             \/ CheckCancel(k) \/ CancelInGap(k) \/ LaunchChunk(k) \/ CudaError(k)
             \/ Drain(k)
      PROVE  ServiceStep
  BY <1>5, StutterService
  DEF LoopTop, PollAdmission, BeginTrim0, StartCopy, CheckCancel, CancelInGap,
      LaunchChunk, CudaError, Drain, engineVars
<1>6. ASSUME NEW k \in Devices, TryAdmit(k) PROVE ServiceStep
  <2>1. worker[k] = "admit" /\ UNCHANGED <<queue, serving, done>>
    BY <1>6 DEF TryAdmit, engineVars
  <2>2. \/ UNCHANGED active
        \/ \E ambient \in Ambients : Admit(serving[k], ambient, TrimOf(view[k]))
    BY <1>6 DEF TryAdmit, Defer
  <2> QED
    BY <2>1, <2>2, StutterService, AdmitService
<1>7. ASSUME NEW k \in Devices, NativeBoot(k) \/ ApplyRate(k) PROVE ServiceStep
  <2>1. /\ UNCHANGED <<queue, serving, done>> /\ serving[k] \in Transfers
        /\ UNCHANGED active \/ Rescale(serving[k], view[k])
    BY <1>7 DEF NativeBoot, ApplyRate, engineVars, TypeInv, Placed, Busy, WorkerStates
  <2> QED
    BY <2>1, StutterService, RescaleService
<1>8. ASSUME NEW t \in Transfers, MirrorWake(t) \/ ChunkLands(t) PROVE ServiceStep
  BY <1>8, StutterService DEF MirrorWake, ChunkLands, engineVars
<1>9. ASSUME NEW t \in Transfers, MirrorRate(t) PROVE ServiceStep
  <2>1. /\ UNCHANGED <<queue, serving, done>>
        /\ UNCHANGED active \/ Rescale(t, view[t])
    BY <1>9 DEF MirrorRate, engineVars
  <2> QED
    BY <2>1, StutterService, RescaleService
<1>10. ASSUME Shutdown PROVE ServiceStep
  BY <1>10, StutterService
  DEF Shutdown, ShutdownBegin, JoinWorkers, DrainStreams, ShutdownRaises, engineVars
<1> QED
  BY <1>1, <1>2, <1>3, <1>4, <1>5, <1>6, <1>7, <1>8, <1>9, <1>10,
     PopService, UnwindService, FinishService
  DEF Next, WorkerStep

(* The governor is a TransferService: submissions of a device are served   *)
(* in their order, one grant at a time, and no transfer finishes with its  *)
(* lease in the ledger, whatever the workers, mirrors, engine threads and  *)
(* shutdown do, as long as the trims dictionary does not grow under them.  *)
THEOREM GovernorImplementsService ==
  ASSUME TrimsSettled
  PROVE  Spec => ImplementsService
<1> DEFINE Inv == TypeInv /\ ViewsWhole /\ LeaseHeld /\ Tracked
<1>1. Init => Inv
  BY TypeInvInit, ViewsWholeInit, LeaseHeldInit, TrackedInit
<1>2. Inv /\ [Next]_vars => Inv'
  BY TypeInvNext, ViewsWholeNext, LeaseHeldNext, TrackedNext DEF TypeInv
<1>3. Inv /\ [Next]_vars => [Service!Next]_(Service!vars)
  BY NextService DEF ServiceStep
<1> QED
  BY <1>1, <1>2, <1>3, InitService, PTL DEF Spec, ImplementsService, Service!Spec
=============================================================================
