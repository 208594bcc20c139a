--------------------------- MODULE PeerPathProofs ---------------------------
(***************************************************************************)
(* Theorems about PeerStaging, for any number of layers, any batches and   *)
(* any split of the block ids, and about PeerPath, for any cost models,    *)
(* requests, probe times and batches.                                      *)
(***************************************************************************)
EXTENDS PeerPath, TLAPS, FiniteSetTheorems, SequenceTheorems

Kinds == {"copy", "write", "kernel"}
OpIds == Nat \X Nat \X Kinds

Ops == [id : OpIds, kind : Kinds, stream : 0..Layers,
        layer : 1..Layers, step : Nat, table : UNION { [D -> Nat] : D \in SUBSET Ids },
        writes : SUBSET Ids, needs : SUBSET OpIds]

(* What the operators that make an operation promise of it.                *)
WellMade(op) ==
  /\ op.id = <<op.step, op.layer, op.kind>>
  /\ op.stream = IF op.kind = "copy" THEN op.layer ELSE Current
  /\ op.writes \subseteq DOMAIN op.table \/ op.kind = "copy"
  /\ op.kind = "copy" =>
       \A b \in DOMAIN op.table :
         b \in PeerIds /\ op.table[b] \in CLocal..(CLocal + CScratch - 1)
  /\ op.kind = "write" => op.table = InPlace(op.writes)

(* The part of TableResolved that is about one operation, when layer l's   *)
(* tensor has the indices shape[l] and n layers are relaid.                *)
Resolved(op, shape, n) ==
  op.kind = "kernel" =>
    \A b \in DOMAIN op.table :
      /\ op.table[b] \in shape[op.layer]
      /\ IF op.layer <= n /\ b >= CLocal
         THEN op.table[b] >= CLocal
         ELSE op.table[b] = b

Shape == [l \in 1..Layers |-> DOMAIN local[l]]

HostTypes ==
  /\ relayout \in {"pending", "done", "failed"} /\ engine \in {"up", "dead"}
  /\ laid \in 0..Layers /\ (relayout = "done" => laid = Layers)
  /\ relayout = "pending" => laid < Layers /\ step = 0 /\ at = 0 /\ queue = << >>
  /\ published \in BOOLEAN /\ (laid > 0 => published)
  /\ handed \in [1..Layers -> BOOLEAN]
  /\ \A l \in 1..Layers : handed[l] <=> l <= laid
  /\ layout \in [1..Layers -> BOOLEAN]
  /\ \A l \in 1..Layers : layout[l] => published /\ handed[l]
  /\ step \in 0..MaxSteps /\ at \in 0..Layers /\ (at > 0 => step > 0)
  /\ batch \in Batches \cup { NoBatch }

(* Every tensor has the indices the relayout gave it.                      *)
TensorShapes ==
  /\ local = [l \in 1..Layers |-> local[l]]
  /\ peer = [l \in 1..Layers |-> peer[l]]
  /\ \A l \in 1..Layers :
       /\ DOMAIN local[l] = IF l <= laid THEN 0..(CLocal + CScratch - 1) ELSE Ids
       /\ l <= laid => DOMAIN peer[l] = PeerIds

QueueTypes ==
  /\ queue \in Seq(Ops)
  /\ \A i \in DOMAIN queue :
       /\ WellMade(queue[i]) /\ Resolved(queue[i], Shape, laid)
       /\ queue[i].step \in 1..step

StagingInv == HostTypes /\ TensorShapes /\ QueueTypes

-----------------------------------------------------------------------------
LEMMA Constants ==
  /\ Layers \in Nat \ {0} /\ MaxSteps \in Nat
  /\ CLocal \in Nat \ {0} /\ CPeer \in Nat \ {0} /\ CScratch \in Nat
  /\ Ids \subseteq Nat /\ PeerIds \subseteq Ids
  BY StagingAssumption DEF Ids, PeerIds

(* A batch names block ids only.                                           *)
LEMMA BatchReads ==
  ASSUME HostTypes
  PROVE  /\ batch.reads \subseteq Ids /\ batch.writes \subseteq batch.reads
         /\ \A b \in Cold : b \in PeerIds /\ b \in Nat
<1>1. batch.reads \subseteq Ids /\ batch.writes \subseteq batch.reads
  BY StagingAssumption DEF HostTypes, NoBatch, Ids
<1>2. ASSUME NEW b \in Cold
      PROVE  b \in PeerIds /\ b \in Nat
  BY <1>1, Constants DEF Cold, PeerIds
<1> QED
  BY <1>1, <1>2

LEMMA ColdFinite ==
  ASSUME HostTypes
  PROVE  /\ IsFiniteSet(Cold) /\ Cardinality(Cold) \in Nat
         /\ \A T \in SUBSET Cold : /\ IsFiniteSet(T) /\ Cardinality(T) \in Nat
                                   /\ Cardinality(T) <= Cardinality(Cold)
                                   /\ T # Cold => Cardinality(T) < Cardinality(Cold)
<1>1. IsFiniteSet(Ids)
  BY Constants, FS_Interval DEF Ids
<1>2. Cold \in SUBSET Ids
  BY BatchReads, Constants
<1>3. IsFiniteSet(Cold) /\ Cardinality(Cold) \in Nat
  BY <1>1, <1>2, FS_Subset, FS_CardinalityType
<1>4. ASSUME NEW T \in SUBSET Cold
      PROVE  /\ IsFiniteSet(T) /\ Cardinality(T) \in Nat
             /\ Cardinality(T) <= Cardinality(Cold)
             /\ T # Cold => Cardinality(T) < Cardinality(Cold)
  <2>1. IsFiniteSet(T) /\ Cardinality(T) <= Cardinality(Cold)
        /\ (Cardinality(Cold) = Cardinality(T) => Cold = T)
    BY <1>3, FS_Subset
  <2>2. Cardinality(T) \in Nat
    BY <2>1, FS_CardinalityType
  <2> QED
    BY <1>3, <2>1, <2>2
<1> QED
  BY <1>3, <1>4

(* stage() gives each peer block of a table that fits a scratch slot of    *)
(* its own.                                                                *)
LEMMA SlotsInScratch ==
  ASSUME HostTypes, Cardinality(Cold) <= CScratch, NEW b \in Cold
  PROVE  Slot(b) \in CLocal..(CLocal + CScratch - 1)
<1> DEFINE Below == { c \in Cold : c < b }
<1>1. b \in Nat /\ Below \in SUBSET Cold /\ b \notin Below
  BY BatchReads
<1>2. Cardinality(Below) \in Nat /\ Cardinality(Below) < Cardinality(Cold)
  BY <1>1, ColdFinite
<1> QED
  BY <1>2, ColdFinite, Constants DEF Slot

LEMMA SlotsApart ==
  ASSUME HostTypes, NEW b \in Cold, NEW c \in Cold, b # c
  PROVE  Slot(b) # Slot(c)
<1>1. ASSUME NEW x \in Cold, NEW y \in Cold, x < y
      PROVE  Slot(x) < Slot(y)
  <2> DEFINE BelowX == { z \in Cold : z < x }
             BelowY == { z \in Cold : z < y }
  <2>1. x \in Nat /\ y \in Nat /\ \A z \in Cold : z \in Nat
    BY BatchReads
  <2>2. x \in BelowY /\ x \notin BelowX
    BY <1>1, <2>1
  <2>3. BelowX \in SUBSET BelowY
    <3>1. \A z \in Cold : z < x => z < y
      BY <1>1, <2>1
    <3> QED
      BY <3>1, Zenon
  <2>4. IsFiniteSet(BelowY) /\ Cardinality(BelowY) \in Nat
    BY ColdFinite
  <2>5. Cardinality(BelowX) <= Cardinality(BelowY) /\ Cardinality(BelowX) # Cardinality(BelowY)
    BY <2>2, <2>3, <2>4, FS_Subset
  <2>6. Cardinality(BelowX) \in Nat
    BY ColdFinite
  <2> QED
    BY <2>4, <2>5, <2>6, Constants DEF Slot
<1>2. b \in Nat /\ c \in Nat /\ Slot(b) \in Int /\ Slot(c) \in Int
  <2>1. \A d \in Cold : Cardinality({ z \in Cold : z < d }) \in Nat
    BY ColdFinite
  <2> QED
    BY <2>1, BatchReads, Constants DEF Slot
<1> QED
  BY <1>1, <1>2

-----------------------------------------------------------------------------
(* What is left of the queue once the GPU has done operation n.            *)
Old(n, j) == IF j < n THEN j ELSE j + 1

LEMMA RemovedOne ==
  ASSUME NEW S, NEW s \in Seq(S), NEW n \in DOMAIN s
  PROVE  /\ RemoveAt(s, n) \in Seq(S)
         /\ DOMAIN RemoveAt(s, n) = 1..(Len(s) - 1)
         /\ \A j \in 1..(Len(s) - 1) :
              /\ Old(n, j) \in DOMAIN s /\ Old(n, j) # n
              /\ RemoveAt(s, n)[j] = s[Old(n, j)]
<1> DEFINE front == SubSeq(s, 1, n - 1)
           back == SubSeq(s, n + 1, Len(s))
<1>1. n \in 1..Len(s) /\ Len(s) \in Nat /\ \A i \in 1..Len(s) : s[i] \in S
  OBVIOUS
<1>2. /\ front \in Seq(S) /\ Len(front) = n - 1
      /\ \A i \in 1..(n - 1) : front[i] = s[i]
  BY <1>1, SubSeqProperties
<1>3. /\ back \in Seq(S) /\ Len(back) = Len(s) - n
      /\ \A i \in 1..(Len(s) - n) : back[i] = s[n + i]
  BY <1>1, SubSeqProperties
<1> HIDE DEF front, back
<1>4. /\ front \o back \in Seq(S)
      /\ Len(front \o back) = Len(front) + Len(back)
      /\ \A i \in 1..(Len(front) + Len(back)) :
           (front \o back)[i] = IF i <= Len(front) THEN front[i] ELSE back[i - Len(front)]
  BY <1>2, <1>3, ConcatProperties
<1>5. RemoveAt(s, n) = front \o back
  BY DEF RemoveAt, front, back
<1>6. Len(front) + Len(back) = Len(s) - 1
  BY <1>1, <1>2, <1>3
<1>7. ASSUME NEW j \in 1..(Len(s) - 1)
      PROVE  /\ Old(n, j) \in DOMAIN s /\ Old(n, j) # n
             /\ (front \o back)[j] = s[Old(n, j)]
  <2>1. CASE j < n
    <3>1. (front \o back)[j] = front[j] /\ front[j] = s[j]
      BY <1>1, <1>2, <1>4, <1>6, <2>1
    <3> QED
      BY <1>1, <2>1, <3>1 DEF Old
  <2>2. CASE ~(j < n)
    <3>1. j - (n - 1) \in 1..(Len(s) - n) /\ ~(j <= n - 1)
      BY <1>1, <2>2
    <3>2. (front \o back)[j] = back[j - (n - 1)]
      BY <1>1, <1>2, <1>4, <1>6, <3>1
    <3>3. back[j - (n - 1)] = s[n + (j - (n - 1))] /\ n + (j - (n - 1)) = j + 1
      BY <1>1, <1>3, <3>1
    <3> QED
      BY <1>1, <2>2, <3>2, <3>3 DEF Old
  <2> QED
    BY <1>1, <2>1, <2>2
<1>8. DOMAIN (front \o back) = 1..(Len(s) - 1)
  BY <1>4, <1>6
<1> QED
  BY <1>4, <1>5, <1>7, <1>8

-----------------------------------------------------------------------------
(* What forward() enqueues for the layer it is at.                         *)
LEMMA OpMade ==
  ASSUME HostTypes, at # 0, NEW kind \in Kinds, NEW stream \in 0..Layers,
         NEW D \in SUBSET Ids, NEW table \in [D -> Nat], NEW needs \in SUBSET OpIds
  PROVE  /\ Op(kind, stream, table, needs) \in Ops
         /\ Op(kind, stream, table, needs).id = <<step, at, kind>>
         /\ Op(kind, stream, table, needs).kind = kind
         /\ Op(kind, stream, table, needs).stream = stream
         /\ Op(kind, stream, table, needs).layer = at
         /\ Op(kind, stream, table, needs).step = step /\ step \in 1..step
         /\ Op(kind, stream, table, needs).table = table
         /\ Op(kind, stream, table, needs).writes = batch.writes
         /\ Op(kind, stream, table, needs).needs = needs
<1>1. at \in 1..Layers /\ at \in Nat /\ step \in Nat /\ step \in 1..step
  BY Constants DEF HostTypes
<1>2. batch.writes \in SUBSET Ids
  BY BatchReads
<1>3. <<step, at, kind>> \in OpIds
  BY <1>1, Zenon DEF OpIds
<1>4. table \in UNION { [E -> Nat] : E \in SUBSET Ids }
  OBVIOUS
<1> QED
  BY <1>1, <1>2, <1>3, <1>4 DEF Op, Id, Ops

LEMMA PendingIds ==
  ASSUME QueueTypes, NEW stream
  PROVE  Pending(stream) \subseteq OpIds
<1>1. \A i \in DOMAIN queue : queue[i] \in Ops
  BY DEF QueueTypes
<1>2. \A op \in Ops : op.id \in OpIds
  BY DEF Ops
<1> QED
  BY <1>1, <1>2 DEF Pending

LEMMA QueueExtended ==
  ASSUME QueueTypes, NEW new \in Seq(Ops), queue' = queue \o new,
         laid' = laid, Shape' = Shape, step' = step,
         \A i \in DOMAIN new : /\ WellMade(new[i]) /\ Resolved(new[i], Shape, laid)
                               /\ new[i].step \in 1..step
  PROVE  QueueTypes'
<1>1. /\ queue \in Seq(Ops) /\ queue' \in Seq(Ops) /\ Len(queue') = Len(queue) + Len(new)
      /\ \A i \in 1..(Len(queue) + Len(new)) :
           queue'[i] = IF i <= Len(queue) THEN queue[i] ELSE new[i - Len(queue)]
  BY ConcatProperties DEF QueueTypes
<1>2. ASSUME NEW i \in DOMAIN queue'
      PROVE  WellMade(queue'[i]) /\ Resolved(queue'[i], Shape, laid) /\ queue'[i].step \in 1..step
  <2>1. i \in 1..(Len(queue) + Len(new)) /\ Len(queue) \in Nat /\ Len(new) \in Nat
    BY <1>1
  <2>2. CASE i <= Len(queue)
    BY <1>1, <2>1, <2>2 DEF QueueTypes
  <2>3. CASE ~(i <= Len(queue))
    <3>1. i - Len(queue) \in DOMAIN new /\ queue'[i] = new[i - Len(queue)]
      BY <1>1, <2>1, <2>3
    <3> QED
      BY <3>1
  <2> QED
    BY <2>2, <2>3
<1> QED
  BY <1>1, <1>2 DEF QueueTypes

LEMMA InPlaceTable ==
  ASSUME NEW D \in SUBSET Ids
  PROVE  InPlace(D) \in [D -> Nat] /\ \A b \in D : InPlace(D)[b] = b
  BY Constants DEF InPlace

LEMMA SuperMade ==
  ASSUME HostTypes, at # 0, NEW table \in [batch.reads -> Nat], NEW needs \in SUBSET OpIds
  PROVE  LET w == Op("write", Current, InPlace(batch.writes), needs)
             k == Op("kernel", Current, table, {})
         IN  /\ w \in Ops /\ k \in Ops /\ Super(table, needs) = <<w, k>>
             /\ WellMade(w) /\ WellMade(k)
             /\ Resolved(w, Shape, laid)
             /\ w.step \in 1..step /\ k.step \in 1..step
<1> DEFINE w == Op("write", Current, InPlace(batch.writes), needs)
           k == Op("kernel", Current, table, {})
<1>1. batch.reads \in SUBSET Ids /\ batch.writes \in SUBSET batch.reads
  BY BatchReads
<1>2. /\ w \in Ops /\ w.id = <<step, at, "write">> /\ w.kind = "write" /\ w.stream = Current
      /\ w.layer = at /\ w.step = step /\ step \in 1..step
      /\ w.table = InPlace(batch.writes) /\ w.writes = batch.writes
  <2>1. InPlace(batch.writes) \in [batch.writes -> Nat] /\ batch.writes \in SUBSET Ids
    BY <1>1, InPlaceTable
  <2>2. "write" \in Kinds /\ Current \in 0..Layers
    BY Constants DEF Kinds, Current
  <2> QED
    BY <2>1, <2>2, OpMade, SMTT(40)
<1>3. /\ k \in Ops /\ k.id = <<step, at, "kernel">> /\ k.kind = "kernel" /\ k.stream = Current
      /\ k.layer = at /\ k.step = step /\ k.table = table /\ k.writes = batch.writes
  <2>1. "kernel" \in Kinds /\ Current \in 0..Layers /\ {} \in SUBSET OpIds
    BY Constants DEF Kinds, Current
  <2> QED
    BY <1>1, <2>1, OpMade, SMTT(40)
<1> HIDE DEF w, k
<1>4. DOMAIN InPlace(batch.writes) = batch.writes /\ DOMAIN table = batch.reads
  BY DEF InPlace
<1>5. WellMade(w) /\ Resolved(w, Shape, laid)
  BY <1>2, <1>4 DEF WellMade, Resolved
<1>6. WellMade(k)
  BY <1>1, <1>3, <1>4 DEF WellMade
<1>7. Super(table, needs) = <<w, k>>
  BY DEF Super, w, k
<1> QED
  BY <1>2, <1>3, <1>5, <1>6, <1>7 DEF w, k

-----------------------------------------------------------------------------
LEMMA StagingStart == StagingInit => StagingInv
<1> SUFFICES ASSUME StagingInit PROVE StagingInv
  OBVIOUS
<1>1. HostTypes
  <2>1. /\ \A l \in 1..Layers : handed[l] = FALSE /\ layout[l] = FALSE /\ ~(l <= laid)
        /\ handed \in [1..Layers -> BOOLEAN] /\ layout \in [1..Layers -> BOOLEAN]
    BY Constants DEF StagingInit
  <2>2. /\ relayout = "pending" /\ laid = 0 /\ laid \in 0..Layers /\ laid < Layers
        /\ published = FALSE /\ step = 0 /\ step \in 0..MaxSteps /\ at = 0 /\ at \in 0..Layers
        /\ batch = NoBatch /\ queue = << >> /\ engine = "up" /\ ~(laid > 0) /\ ~(at > 0)
    BY Constants DEF StagingInit
  <2> QED
    BY <2>1, <2>2 DEF HostTypes
<1>2. TensorShapes
  BY Constants DEF StagingInit, TensorShapes
<1>3. QueueTypes
  BY EmptySeq DEF StagingInit, QueueTypes
<1> QED
  BY <1>1, <1>2, <1>3 DEF StagingInv

(* A layer that stages nothing has no peer block in its table.             *)
LEMMA PlainForward ==
  ASSUME StagingInv, ForwardInPlace
  PROVE  LET w == Op("write", Current, InPlace(batch.writes), {})
             k == Op("kernel", Current, InPlace(batch.reads), {})
         IN  /\ QueueTypes' /\ at \in 1..Layers
             /\ w \in Ops /\ k \in Ops /\ queue' = queue \o <<w, k>>
             /\ \A b \in DOMAIN k.table : ~(at <= laid /\ b >= CLocal)
<1> DEFINE table == InPlace(batch.reads)
           w == Op("write", Current, InPlace(batch.writes), {})
           k == Op("kernel", Current, table, {})
<1>1. /\ at # 0 /\ at \in 1..Layers /\ ~Stages /\ queue' = queue \o Super(table, {})
      /\ UNCHANGED <<laid, step, local>>
  BY DEF ForwardInPlace, LayerDone, StagingInv, HostTypes, alloc, gpu
<1>2. batch.reads \in SUBSET Ids /\ batch.writes \in SUBSET batch.reads
  BY BatchReads DEF StagingInv
<1>3. table \in [batch.reads -> Nat] /\ \A b \in batch.reads : table[b] = b
  BY <1>2, InPlaceTable
<1>4. /\ w \in Ops /\ k \in Ops /\ Super(table, {}) = <<w, k>>
      /\ WellMade(w) /\ WellMade(k) /\ Resolved(w, Shape, laid)
      /\ w.step \in 1..step /\ k.step \in 1..step
  BY <1>1, <1>3, SuperMade DEF StagingInv
<1>5. k.layer = at /\ k.table = table
  BY DEF Op
<1>6. ASSUME NEW b \in batch.reads
      PROVE  b \in Shape[at] /\ ~(at <= laid /\ b >= CLocal)
  <2>1. b \in Ids /\ b \in Nat
    BY <1>2, Constants
  <2>2. Shape[at] = IF at <= laid THEN 0..(CLocal + CScratch - 1) ELSE Ids
    BY <1>1 DEF Shape, StagingInv, TensorShapes
  <2>3. CASE at <= laid
    <3>1. handed[at] /\ EnsuredLayout
      <4>1. handed[at] = TRUE /\ published = TRUE
        BY <1>1, <2>3, Constants DEF StagingInv, HostTypes
      <4> QED
        BY <4>1 DEF EnsuredLayout
    <3>2. Cold = {}
      BY <1>1, <3>1 DEF Stages
    <3> QED
      BY <2>1, <2>2, <2>3, <3>2, Constants DEF Cold
  <2>4. CASE ~(at <= laid)
    BY <2>1, <2>2, <2>4
  <2> QED
    BY <2>3, <2>4
<1>7. Resolved(k, Shape, laid)
  <2>1. DOMAIN table = batch.reads
    BY DEF InPlace
  <2> HIDE DEF k, table
  <2> QED
    BY <1>3, <1>5, <1>6, <2>1 DEF Resolved
<1> HIDE DEF w, k, table
<1>8. /\ <<w, k>> \in Seq(Ops)
      /\ \A i \in DOMAIN <<w, k>> : <<w, k>>[i] = w \/ <<w, k>>[i] = k
  BY <1>4
<1>9. Shape' = Shape
  BY <1>1 DEF Shape
<1>10. QueueTypes'
  BY <1>1, <1>4, <1>7, <1>8, <1>9, QueueExtended DEF StagingInv
<1>11. DOMAIN k.table = batch.reads
  BY <1>3, <1>5
<1> QED
  BY <1>1, <1>4, <1>6, <1>10, <1>11 DEF w, k, table

(* stage(): the copy goes to slots of the scratch, and so does the table.  *)
LEMMA StagedTables ==
  ASSUME StagingInv, at # 0, Stages, Cardinality(Cold) <= CScratch
  PROVE  /\ [b \in Cold |-> Slot(b)] \in [Cold -> Nat] /\ Cold \in SUBSET Ids
         /\ \A b \in Cold : Slot(b) \in CLocal..(CLocal + CScratch - 1) /\ b \in PeerIds
         /\ Remapped \in [batch.reads -> Nat] /\ Cold \subseteq batch.reads
         /\ \A b \in batch.reads :
              /\ b >= CLocal => b \in Cold /\ Remapped[b] = Slot(b)
              /\ ~(b >= CLocal) => Remapped[b] = b
         /\ at <= laid
<1>1. batch.reads \in SUBSET Ids /\ batch.writes \in SUBSET batch.reads
      /\ \A b \in Cold : b \in PeerIds /\ b \in Nat
  BY BatchReads DEF StagingInv
<1>2. \A b \in Cold : Slot(b) \in CLocal..(CLocal + CScratch - 1) /\ Slot(b) \in Nat
  BY SlotsInScratch, Constants DEF StagingInv
<1>3. Cold \in SUBSET batch.reads /\ \A b \in batch.reads : b \in Cold <=> b >= CLocal
  BY DEF Cold
<1>4. \A b \in batch.reads : b \in Nat
  BY <1>1, Constants
<1>5. Remapped \in [batch.reads -> Nat]
  BY <1>2, <1>4 DEF Remapped
<1>6. \A b \in batch.reads :
        /\ b >= CLocal => b \in Cold /\ Remapped[b] = Slot(b)
        /\ ~(b >= CLocal) => Remapped[b] = b
  BY <1>3 DEF Remapped
<1>7. at <= laid
  BY Constants DEF Stages, StagingInv, HostTypes
<1> QED
  BY <1>1, <1>2, <1>3, <1>5, <1>6, <1>7

LEMMA StagedForward ==
  ASSUME StagingInv, ForwardStaged
  PROVE  LET c == Op("copy", at, [b \in Cold |-> Slot(b)], CopyAwaits)
             w == Op("write", Current, InPlace(batch.writes), KernelAwaits)
             k == Op("kernel", Current, Remapped, {})
         IN  /\ QueueTypes' /\ at \in 1..Layers
             /\ c \in Ops /\ w \in Ops /\ k \in Ops /\ queue' = queue \o <<c, w, k>>
             /\ Stages /\ Cardinality(Cold) <= CScratch
<1> DEFINE slots == [b \in Cold |-> Slot(b)]
           c == Op("copy", at, slots, CopyAwaits)
           w == Op("write", Current, InPlace(batch.writes), KernelAwaits)
           k == Op("kernel", Current, Remapped, {})
<1>1. /\ at # 0 /\ at \in 1..Layers /\ Stages /\ Cardinality(Cold) <= CScratch
      /\ queue' = queue \o <<c>> \o Super(Remapped, KernelAwaits)
      /\ UNCHANGED <<laid, step, local>>
  BY DEF ForwardStaged, LayerDone, StagingInv, HostTypes, alloc, gpu
<1>2. CopyAwaits \in SUBSET OpIds /\ KernelAwaits \in SUBSET OpIds
  <2>1. <<step, at, "copy">> \in OpIds
    BY <1>1, Constants DEF StagingInv, HostTypes, OpIds, Kinds
  <2> QED
    BY <2>1, PendingIds DEF StagingInv, CopyAwaits, KernelAwaits, Id
<1>3. /\ c \in Ops /\ c.id = <<step, at, "copy">> /\ c.kind = "copy" /\ c.stream = at
      /\ c.layer = at /\ c.step = step /\ step \in 1..step /\ c.table = slots
  <2>1. "copy" \in Kinds /\ at \in 0..Layers /\ slots \in [Cold -> Nat] /\ Cold \in SUBSET Ids
    BY <1>1, StagedTables, Constants DEF Kinds
  <2> HIDE DEF slots
  <2>2. HostTypes /\ at # 0 /\ CopyAwaits \in SUBSET OpIds
    BY <1>1, <1>2 DEF StagingInv
  <2> QED
    BY <2>1, <2>2, OpMade
<1>4. /\ w \in Ops /\ k \in Ops /\ Super(Remapped, KernelAwaits) = <<w, k>>
      /\ WellMade(w) /\ WellMade(k) /\ Resolved(w, Shape, laid)
      /\ w.step \in 1..step /\ k.step \in 1..step
  BY <1>1, <1>2, StagedTables, SuperMade DEF StagingInv
<1>5. k.layer = at /\ k.table = Remapped
  BY DEF Op
<1>6. DOMAIN slots = Cold /\ \A b \in Cold : slots[b] = Slot(b)
  OBVIOUS
<1> HIDE DEF slots, c, w, k
<1>7. WellMade(c) /\ Resolved(c, Shape, laid)
  BY <1>1, <1>3, <1>6, StagedTables DEF WellMade, Resolved
<1>8. Resolved(k, Shape, laid)
  <2>1. DOMAIN Remapped = batch.reads
    BY DEF Remapped
  <2>2. Shape[at] = 0..(CLocal + CScratch - 1) /\ at <= laid
    BY <1>1, StagedTables DEF Shape, StagingInv, TensorShapes
  <2>3. ASSUME NEW b \in batch.reads
        PROVE  /\ Remapped[b] \in Shape[at]
               /\ IF at <= laid /\ b >= CLocal THEN Remapped[b] >= CLocal ELSE Remapped[b] = b
    <3>1. b \in Nat
      BY BatchReads, Constants DEF StagingInv
    <3>2. CASE b >= CLocal
      <4>1. Remapped[b] \in CLocal..(CLocal + CScratch - 1)
        BY <1>1, <3>2, StagedTables
      <4> QED
        BY <2>2, <3>2, <4>1, Constants
    <3>3. CASE ~(b >= CLocal)
      <4>1. Remapped[b] = b
        BY <1>1, <3>3, StagedTables
      <4> QED
        BY <2>2, <3>1, <3>3, <4>1, Constants
    <3> QED
      BY <3>2, <3>3
  <2> QED
    BY <1>5, <2>1, <2>3 DEF Resolved
<1>9. /\ <<c, w, k>> \in Seq(Ops)
      /\ \A i \in DOMAIN <<c, w, k>> : <<c, w, k>>[i] \in {c, w, k}
  BY <1>3, <1>4
<1>10. queue' = queue \o <<c, w, k>>
  <2>1. <<c, w, k>> = <<c>> \o <<w, k>>
    OBVIOUS
  <2>2. /\ queue \in Seq(Ops) /\ <<c>> \in Seq(Ops) /\ <<w, k>> \in Seq(Ops)
    BY <1>3, <1>4 DEF StagingInv, QueueTypes
  <2> QED
    BY <1>1, <1>4, <2>1, <2>2, ConcatAssociative, SMTT(40)
<1>11. Shape' = Shape
  BY <1>1 DEF Shape
<1>12. QueueTypes'
  BY <1>1, <1>3, <1>4, <1>7, <1>8, <1>9, <1>10, <1>11, QueueExtended DEF StagingInv
<1> QED
  BY <1>1, <1>3, <1>4, <1>10, <1>12 DEF c, w, k, slots

LEMMA Executed ==
  ASSUME StagingInv, NEW n \in DOMAIN queue, Execute(n)
  PROVE  /\ QueueTypes' /\ TensorShapes'
         /\ UNCHANGED <<alloc, layout, nvlink, peer, host, engine>>
<1>1. /\ UNCHANGED <<alloc, layout, nvlink, peer, host, engine>>
      /\ UNCHANGED <<laid, step>> /\ queue' = RemoveAt(queue, n)
  BY DEF Execute, alloc, host
<1>2. queue[n] \in Ops /\ queue[n].layer \in 1..Layers
  <2>1. queue[n] \in Ops
    BY DEF StagingInv, QueueTypes
  <2> QED
    BY <2>1 DEF Ops
<1>3. /\ local' = [l \in 1..Layers |-> local'[l]]
      /\ \A l \in 1..Layers : DOMAIN local'[l] = DOMAIN local[l]
  <2>1. local = [l \in 1..Layers |-> local[l]]
    BY DEF StagingInv, TensorShapes
  <2>2. CASE queue[n].kind = "kernel"
    BY <2>1, <2>2 DEF Execute
  <2>3. CASE queue[n].kind # "kernel"
    <3> DEFINE filled == [j \in DOMAIN local[queue[n].layer] |->
                 LET put == { b \in DOMAIN queue[n].table : queue[n].table[b] = j } IN
                 IF put = {} THEN local[queue[n].layer][j]
                 ELSE LET b == CHOOSE x \in put : TRUE IN
                      [of  |-> IF queue[n].kind = "write" THEN b ELSE peer[queue[n].layer][b].of,
                       src |-> b, by |-> queue[n].step]]
    <3>1. local' = [local EXCEPT ![queue[n].layer] = filled]
      BY <2>3, Zenon DEF Execute
    <3>2. DOMAIN filled = DOMAIN local[queue[n].layer]
      OBVIOUS
    <3> HIDE DEF filled
    <3> QED
      BY <1>2, <2>1, <3>1, <3>2
  <2> QED
    BY <2>2, <2>3
<1>4. TensorShapes'
  BY <1>1, <1>3 DEF StagingInv, TensorShapes
<1>5. Shape' = Shape
  BY <1>3 DEF Shape
<1>6. /\ queue' \in Seq(Ops) /\ DOMAIN queue' = 1..(Len(queue) - 1)
      /\ \A j \in 1..(Len(queue) - 1) : Old(n, j) \in DOMAIN queue /\ queue'[j] = queue[Old(n, j)]
  BY <1>1, RemovedOne DEF StagingInv, QueueTypes
<1>7. QueueTypes'
  BY <1>1, <1>5, <1>6 DEF StagingInv, QueueTypes
<1> QED
  BY <1>1, <1>4, <1>7

LEMMA StagingKept ==
  ASSUME StagingInv, [StagingNext \/ \E bw \in {0, NvlinkBw} : PublishLink(bw)]_stagingVars
  PROVE  StagingInv'
<1> USE DEF StagingInv
<1>1. CASE RelayLayer
  <2>1. /\ relayout = "pending" /\ laid < Layers /\ laid' = laid + 1 /\ published' = TRUE
        /\ laid \in 0..Layers /\ laid + 1 \in 1..Layers /\ laid' \in 0..Layers
        /\ handed' = [handed EXCEPT ![laid + 1] = TRUE]
        /\ relayout' = IF laid + 1 = Layers THEN "done" ELSE "pending"
        /\ queue = << >> /\ step = 0 /\ at = 0
        /\ UNCHANGED <<layout, step, at, batch, queue, engine>>
    BY <1>1, Constants DEF RelayLayer, PublishedAt, HostTypes, host
  <2>2. /\ handed' \in [1..Layers -> BOOLEAN]
        /\ \A l \in 1..Layers : handed'[l] <=> l <= laid'
    <3>1. /\ handed \in [1..Layers -> BOOLEAN] /\ \A l \in 1..Layers : handed[l] <=> l <= laid
      BY DEF HostTypes
    <3> QED
      BY <2>1, <3>1, Constants
  <2>3. \A l \in 1..Layers : layout'[l] => published' /\ handed'[l]
    BY <2>1, <2>2, Constants DEF HostTypes
  <2>4. HostTypes'
    BY <2>1, <2>2, <2>3, Constants DEF HostTypes
  <2>5. TensorShapes'
    <3> DEFINE m == laid + 1
               whole == [i \in 0..(CLocal + CScratch - 1) |->
                           IF i < CLocal THEN local[m][i] ELSE Zeros(None)]
               split == [b \in PeerIds |-> local[m][b]]
    <3>1. local' = [local EXCEPT ![m] = whole] /\ peer' = [peer EXCEPT ![m] = split]
      BY <1>1 DEF RelayLayer
    <3>2. DOMAIN whole = 0..(CLocal + CScratch - 1) /\ DOMAIN split = PeerIds
      OBVIOUS
    <3> HIDE DEF whole, split
    <3>3. /\ local = [l \in 1..Layers |-> local[l]] /\ peer = [l \in 1..Layers |-> peer[l]]
          /\ m \in 1..Layers /\ laid' = m /\ \A l \in 1..Layers : l <= m <=> l <= laid \/ l = m
      BY <2>1, Constants DEF TensorShapes
    <3>4. /\ local' = [l \in 1..Layers |-> local'[l]] /\ peer' = [l \in 1..Layers |-> peer'[l]]
          /\ local'[m] = whole /\ peer'[m] = split
          /\ \A l \in 1..Layers \ {m} : local'[l] = local[l] /\ peer'[l] = peer[l]
      BY <3>1, <3>3
    <3> QED
      BY <3>2, <3>3, <3>4 DEF TensorShapes
  <2>6. QueueTypes'
    BY <2>1, EmptySeq DEF QueueTypes
  <2> QED
    BY <2>4, <2>5, <2>6
<1>2. CASE RelayoutFails
  BY <1>2 DEF RelayoutFails, HostTypes, TensorShapes, QueueTypes, Shape, gpu, host
<1>3. ASSUME NEW b \in Batches, StartStep(b)
      PROVE  StagingInv'
  <2>1. /\ relayout # "pending" /\ step \in 0..MaxSteps /\ step < MaxSteps
        /\ step' = step + 1 /\ at' = 1 /\ batch' = b
        /\ UNCHANGED <<relayout, laid, published, handed, layout, local, peer, queue, engine>>
    BY <1>3 DEF StartStep, HostTypes, alloc, gpu
  <2>2. HostTypes'
    BY <2>1, Constants DEF HostTypes
  <2>3. TensorShapes' /\ Shape' = Shape
    BY <2>1 DEF TensorShapes, Shape
  <2>4. QueueTypes'
    BY <2>1, <2>3, Constants DEF QueueTypes
  <2> QED
    BY <2>2, <2>3, <2>4
<1>4. ASSUME ForwardInPlace \/ ForwardStaged
      PROVE  StagingInv'
  <2>1. QueueTypes'
    BY <1>4, PlainForward, StagedForward
  <2>2. /\ at # 0 /\ LayerDone
    BY <1>4 DEF ForwardInPlace, ForwardStaged
  <2>3. TensorShapes'
    BY <2>2 DEF LayerDone, TensorShapes, alloc, gpu
  <2>4. /\ at \in 1..Layers /\ at' = (IF at = Layers THEN 0 ELSE at + 1)
        /\ UNCHANGED <<relayout, laid, published, handed, step, batch, engine>>
        /\ layout' = [layout EXCEPT ![at] = IF handed[at] THEN EnsuredLayout ELSE @]
    BY <2>2 DEF LayerDone, HostTypes, alloc
  <2>5. /\ layout' \in [1..Layers -> BOOLEAN]
        /\ \A l \in 1..Layers : layout'[l] => published /\ handed[l]
    <3>1. EnsuredLayout \in BOOLEAN /\ (EnsuredLayout => published)
      BY <2>4 DEF EnsuredLayout, HostTypes
    <3> QED
      BY <2>4, <3>1 DEF HostTypes
  <2>6. HostTypes'
    BY <2>2, <2>4, <2>5, Constants DEF HostTypes
  <2> QED
    BY <2>1, <2>3, <2>6
<1>5. CASE ForwardRaises
  <2>1. /\ at \in 1..Layers /\ engine' = "dead" /\ layout' = [layout EXCEPT ![at] = TRUE]
        /\ handed[at] /\ published
        /\ UNCHANGED <<relayout, laid, published, handed, local, peer, step, at, batch, queue>>
    BY <1>5 DEF ForwardRaises, Stages, EnsuredLayout, HostTypes, alloc, gpu, host
  <2>2. HostTypes'
    BY <2>1, Constants DEF HostTypes
  <2>3. TensorShapes' /\ QueueTypes'
    BY <2>1 DEF TensorShapes, QueueTypes, Shape
  <2> QED
    BY <2>2, <2>3
<1>6. ASSUME NEW n \in DOMAIN queue, Execute(n)
      PROVE  StagingInv'
  <2>1. QueueTypes' /\ TensorShapes' /\ UNCHANGED <<alloc, layout, nvlink, peer, host, engine>>
    BY <1>6, Executed
  <2>2. relayout # "pending"
    BY <1>6 DEF HostTypes
  <2> QED
    BY <2>1, <2>2 DEF HostTypes, alloc, host
<1>7. ASSUME NEW bw \in {0, NvlinkBw}, PublishLink(bw)
      PROVE  StagingInv'
  BY <1>7 DEF PublishLink, HostTypes, TensorShapes, QueueTypes, Shape, alloc, gpu, host
<1>8. CASE UNCHANGED stagingVars
  BY <1>8 DEF stagingVars, HostTypes, TensorShapes, QueueTypes, Shape, alloc, gpu, host
<1> QED
  BY <1>1, <1>2, <1>3, <1>4, <1>5, <1>6, <1>7, <1>8 DEF StagingNext

-----------------------------------------------------------------------------
(* The order of the GPU's work.  Operations are told apart by forward pass,*)
(* layer and kind, so the queue is a set in the order Precedes.            *)
Rank == [copy |-> 0, write |-> 1, kernel |-> 2]

SamePass(p, q) == p.step = q.step /\ p.layer = q.layer

Precedes(p, q) ==
  \/ p.step < q.step
  \/ p.step = q.step /\ p.layer < q.layer
  \/ SamePass(p, q) /\ Rank[p.kind] < Rank[q.kind]

InOrder(s) == \A i, j \in DOMAIN s : i < j => Precedes(s[i], s[j])

Work == { queue[i] : i \in DOMAIN queue }

(* What is queued is older than the layer forward() is at.                 *)
Behind ==
  \A p \in Work : p.step < step \/ (p.step = step /\ (at = 0 \/ p.layer < at))

(* A copy waits for all that the current stream had to do before it.       *)
Awaited(S) ==
  \A c \in S, p \in S :
    c.kind = "copy" /\ p.stream = Current /\ Precedes(p, c) => p.id \in c.needs

(* A copy fills the slots its pass' kernel reads, each with one block, and *)
(* the write before that kernel waits for it.                              *)
Paired(S, n) ==
  \A k, c \in S : k.kind = "kernel" /\ c.kind = "copy" /\ SamePass(k, c) =>
    /\ \A b \in DOMAIN k.table :
         b >= CLocal /\ k.layer <= n => b \in DOMAIN c.table /\ c.table[b] = k.table[b]
    /\ \E w \in S : w.kind = "write" /\ SamePass(w, k) /\ c.id \in w.needs

OnePerSlot(S) ==
  \A c \in S : c.kind = "copy" =>
    \A b, d \in DOMAIN c.table : c.table[b] = c.table[d] => b = d

SameWrites(S) ==
  \A k, w \in S :
    k.kind = "kernel" /\ w.kind = "write" /\ SamePass(k, w) => k.writes = w.writes

Copying(S, k) == \E c \in S : c.kind = "copy" /\ SamePass(c, k)

(* Nothing is left before kernel k that could touch its slots but the      *)
(* write of its own pass.                                                  *)
Cleared(S, k) ==
  \A p \in S : Precedes(p, k) =>
    /\ p.stream = Current => p.kind = "write" /\ SamePass(p, k)
    /\ ~(p.kind = "copy" /\ p.layer = k.layer)

Holds(k, b) ==
  LET held == local[k.layer][k.table[b]] IN held.by = k.step /\ held.src \in {b} \cup k.writes

(* Once its copy is done, a kernel's slots hold what it staged.            *)
Filled ==
  \A k \in Work : k.kind = "kernel" /\ ~Copying(Work, k) =>
    \A b \in DOMAIN k.table :
      b >= CLocal /\ k.layer <= laid => Holds(k, b) /\ Cleared(Work, k)

OrderInv ==
  /\ InOrder(queue) /\ Behind
  /\ Awaited(Work) /\ Paired(Work, laid) /\ OnePerSlot(Work) /\ SameWrites(Work)
  /\ Filled

-----------------------------------------------------------------------------
LEMMA RankOf == \A kind \in Kinds : Rank[kind] \in 0..2
                  /\ (Rank[kind] = 0 <=> kind = "copy") /\ (Rank[kind] = 2 <=> kind = "kernel")
  BY DEF Rank, Kinds

LEMMA OpFields ==
  ASSUME NEW p \in Ops
  PROVE  p.step \in Nat /\ p.layer \in Nat /\ p.layer # 0 /\ Rank[p.kind] \in 0..2 /\ p.kind \in Kinds
<1>1. p.step \in Nat /\ p.layer \in 1..Layers /\ p.kind \in Kinds
  BY DEF Ops
<1> QED
  BY <1>1, RankOf, Constants

LEMMA Asymmetric ==
  ASSUME NEW p \in Ops, NEW q \in Ops, Precedes(p, q)
  PROVE  ~Precedes(q, p) /\ p # q
  BY OpFields DEF Precedes, SamePass

(* Between a copy and the kernel of its pass only their write fits.        *)
LEMMA Squeezed ==
  ASSUME NEW c \in Ops, NEW p \in Ops, NEW k \in Ops, c.kind = "copy", k.kind = "kernel",
         SamePass(c, k), Precedes(c, p), Precedes(p, k)
  PROVE  p.kind = "write" /\ SamePass(p, k)
<1>1. SamePass(p, c) /\ SamePass(p, k)
  BY OpFields DEF Precedes, SamePass
<1>2. Rank[c.kind] < Rank[p.kind] /\ Rank[p.kind] < Rank[k.kind]
  BY <1>1, OpFields DEF Precedes, SamePass
<1>3. p.kind # "copy" /\ p.kind # "kernel"
  BY <1>2, OpFields, RankOf
<1> QED
  BY <1>1, <1>3, OpFields DEF Kinds

LEMMA WorkIsOps ==
  ASSUME QueueTypes
  PROVE  \A p \in Work : p \in Ops /\ WellMade(p) /\ Resolved(p, Shape, laid) /\ p.step \in 1..step
  BY DEF QueueTypes, Work

LEMMA Ordered ==
  ASSUME QueueTypes, InOrder(queue)
  PROVE  /\ \A i, j \in DOMAIN queue : i < j <=> Precedes(queue[i], queue[j])
         /\ \A i, j \in DOMAIN queue : i # j => queue[i] # queue[j]
         /\ \A p, q \in Work : p = q \/ Precedes(p, q) \/ Precedes(q, p)
<1>1. \A i \in DOMAIN queue : queue[i] \in Ops /\ i \in Nat
  BY DEF QueueTypes
<1>2. ASSUME NEW i \in DOMAIN queue, NEW j \in DOMAIN queue
      PROVE  i < j <=> Precedes(queue[i], queue[j])
  <2>1. CASE i < j
    BY <2>1 DEF InOrder
  <2>2. CASE i = j
    BY <1>1, <2>2, Asymmetric
  <2>3. CASE j < i
    <3>1. Precedes(queue[j], queue[i])
      BY <2>3 DEF InOrder
    <3> QED
      BY <1>1, <2>3, <3>1, Asymmetric
  <2> QED
    BY <1>1, <2>1, <2>2, <2>3
<1>3. ASSUME NEW i \in DOMAIN queue, NEW j \in DOMAIN queue
      PROVE  i = j \/ Precedes(queue[i], queue[j]) \/ Precedes(queue[j], queue[i])
  BY <1>1, <1>2
<1>4. \A i, j \in DOMAIN queue : i # j => queue[i] # queue[j]
  BY <1>1, <1>3, Asymmetric
<1> QED
  BY <1>2, <1>3, <1>4 DEF Work

LEMMA RunnableWork ==
  ASSUME QueueTypes, InOrder(queue), NEW n \in DOMAIN queue, Runnable(n)
  PROVE  \A p \in Work : /\ Precedes(p, queue[n]) => p.stream # queue[n].stream
                         /\ p.id \notin queue[n].needs
<1> SUFFICES ASSUME NEW j \in DOMAIN queue
             PROVE  /\ Precedes(queue[j], queue[n]) => queue[j].stream # queue[n].stream
                    /\ queue[j].id \notin queue[n].needs
  BY DEF Work
<1>1. Precedes(queue[j], queue[n]) => j \in 1..(n - 1)
  <2>1. queue \in Seq(Ops) /\ n \in Nat /\ j \in Nat /\ j >= 1
    BY DEF QueueTypes
  <2> QED
    BY <2>1, Ordered
<1> QED
  BY <1>1 DEF Runnable

LEMMA WorkRemoved ==
  ASSUME StagingInv, InOrder(queue), NEW n \in DOMAIN queue, queue' = RemoveAt(queue, n)
  PROVE  Work' = Work \ {queue[n]} /\ InOrder(queue')
<1>1. /\ DOMAIN queue' = 1..(Len(queue) - 1) /\ Len(queue) \in Nat /\ n \in 1..Len(queue)
      /\ DOMAIN queue = 1..Len(queue)
      /\ \A j \in 1..(Len(queue) - 1) :
           Old(n, j) \in DOMAIN queue /\ Old(n, j) # n /\ queue'[j] = queue[Old(n, j)]
  BY RemovedOne DEF StagingInv, QueueTypes
<1>2. \A i, j \in DOMAIN queue : i # j => queue[i] # queue[j]
  BY Ordered DEF StagingInv
<1>3. ASSUME NEW p \in Work'
      PROVE  p \in Work \ {queue[n]}
  <2>1. PICK j \in DOMAIN queue' : p = queue'[j]
    BY <1>3 DEF Work
  <2>2. p = queue[Old(n, j)] /\ Old(n, j) \in DOMAIN queue /\ Old(n, j) # n
    BY <1>1, <2>1
  <2> QED
    BY <1>2, <2>2 DEF Work
<1>4. ASSUME NEW p \in Work \ {queue[n]}
      PROVE  p \in Work'
  <2>1. PICK i \in DOMAIN queue : p = queue[i]
    BY DEF Work
  <2>2. i # n /\ i \in 1..Len(queue)
    BY <1>1, <2>1
  <2> DEFINE j == IF i < n THEN i ELSE i - 1
  <2>3. j \in 1..(Len(queue) - 1) /\ Old(n, j) = i
    BY <1>1, <2>2 DEF Old
  <2>4. j \in DOMAIN queue' /\ queue'[j] = p
    BY <1>1, <2>1, <2>3
  <2> QED
    BY <2>4 DEF Work
<1>5. ASSUME NEW i \in DOMAIN queue', NEW j \in DOMAIN queue', i < j
      PROVE  Precedes(queue'[i], queue'[j])
  <2>1. Old(n, i) < Old(n, j)
    BY <1>1, <1>5 DEF Old
  <2> QED
    BY <1>1, <2>1 DEF InOrder
<1>6. InOrder(queue')
  BY <1>5 DEF InOrder
<1> QED
  BY <1>3, <1>4, <1>6

(* What an operation leaves in an index of its layer's tensor.             *)
LEMMA TensorAfter ==
  ASSUME StagingInv, NEW n \in DOMAIN queue, Execute(n),
         NEW l \in 1..Layers, NEW j \in DOMAIN local[l]
  PROVE  LET op == queue[n] IN
         /\ op.kind = "kernel" \/ l # op.layer => local'[l][j] = local[l][j]
         /\ op.kind # "kernel" /\ l = op.layer =>
              IF \E b \in DOMAIN op.table : op.table[b] = j
              THEN \E b \in DOMAIN op.table :
                     op.table[b] = j /\ local'[l][j].src = b /\ local'[l][j].by = op.step
              ELSE local'[l][j] = local[l][j]
<1> DEFINE op == queue[n]
           put == { b \in DOMAIN op.table : op.table[b] = j }
<1>1. local = [k \in 1..Layers |-> local[k]] /\ op.layer \in 1..Layers
  <2>1. op \in Ops
    BY DEF StagingInv, QueueTypes
  <2> QED
    BY <2>1 DEF StagingInv, TensorShapes, Ops
<1>2. CASE op.kind = "kernel" \/ l # op.layer
  <2>1. CASE op.kind = "kernel"
    BY <2>1 DEF Execute
  <2>2. CASE op.kind # "kernel" /\ l # op.layer
    BY <1>1, <2>2 DEF Execute
  <2> QED
    BY <1>2, <2>1, <2>2
<1>3. CASE op.kind # "kernel" /\ l = op.layer
  <2>1. local'[l][j] =
          IF put = {} THEN local[l][j]
          ELSE LET b == CHOOSE x \in put : TRUE IN
               [of  |-> IF op.kind = "write" THEN b ELSE peer[l][b].of,
                src |-> b, by |-> op.step]
    BY <1>1, <1>3 DEF Execute
  <2>2. CASE put = {}
    BY <1>3, <2>1, <2>2
  <2>3. CASE put # {}
    <3>1. PICK b \in put : b = CHOOSE x \in put : TRUE
      BY <2>3
    <3>2. local'[l][j].src = b /\ local'[l][j].by = op.step
      BY <2>1, <2>3, <3>1
    <3> QED
      BY <1>3, <3>1, <3>2
  <2> QED
    BY <2>2, <2>3
<1> QED
  BY <1>2, <1>3

LEMMA SlotHeld ==
  ASSUME StagingInv, NEW k \in Work, k.kind = "kernel", k.layer <= laid,
         NEW b \in DOMAIN k.table
  PROVE  k.layer \in 1..Layers /\ k.table[b] \in DOMAIN local[k.layer]
<1>1. k \in Ops /\ Resolved(k, Shape, laid)
  BY WorkIsOps DEF StagingInv
<1>2. k.layer \in 1..Layers
  BY <1>1 DEF Ops
<1> QED
  BY <1>1, <1>2 DEF Resolved, Shape

(* The copy of a kernel's pass is the operation that fills its slots, and  *)
(* waits for everything else that might.                                   *)
LEMMA CopyFills ==
  ASSUME StagingInv, OrderInv, NEW n \in DOMAIN queue, Execute(n),
         NEW k \in Work, k.kind = "kernel", queue[n].kind = "copy", SamePass(queue[n], k),
         NEW b \in DOMAIN k.table, b >= CLocal, k.layer <= laid
  PROVE  Holds(k, b)' /\ Cleared(Work \ {queue[n]}, k)
<1> DEFINE op == queue[n]
<1>1. Runnable(n) /\ op \in Work
  BY DEF Execute, Work
<1>2. \A p \in Work : p \in Ops /\ WellMade(p)
  BY WorkIsOps DEF StagingInv
<1>3. /\ b \in DOMAIN op.table /\ op.table[b] = k.table[b]
      /\ \A d \in DOMAIN op.table : op.table[d] = k.table[b] => d = b
  BY <1>1 DEF OrderInv, Paired, OnePerSlot, SamePass
<1>4. k.layer \in 1..Layers /\ k.table[b] \in DOMAIN local[k.layer]
  BY SlotHeld
<1>5. local'[k.layer][k.table[b]].src = b /\ local'[k.layer][k.table[b]].by = op.step
  BY <1>3, <1>4, TensorAfter DEF SamePass
<1>6. Holds(k, b)'
  BY <1>5 DEF Holds, SamePass
<1>7. ASSUME NEW p \in Work \ {op}, Precedes(p, k)
      PROVE  /\ p.stream = Current => p.kind = "write" /\ SamePass(p, k)
             /\ ~(p.kind = "copy" /\ p.layer = k.layer)
  <2>1. /\ Precedes(p, op) => p.stream # op.stream
        /\ p.id \notin op.needs
    BY <1>1, RunnableWork DEF StagingInv, OrderInv
  <2>2. CASE Precedes(p, op)
    <3>1. p.stream # Current
      BY <1>1, <2>1, <2>2 DEF OrderInv, Awaited
    <3>2. op.stream = k.layer /\ (p.kind = "copy" => p.stream = p.layer)
      BY <1>1, <1>2 DEF WellMade, SamePass
    <3> QED
      BY <2>1, <2>2, <3>1, <3>2
  <2>3. CASE ~Precedes(p, op)
    <3>1. Precedes(op, p)
      BY <1>1, <2>3, Ordered DEF StagingInv, OrderInv
    <3>2. p.kind = "write" /\ SamePass(p, k)
      BY <1>1, <1>2, <1>7, <3>1, Squeezed
    <3> QED
      BY <3>2
  <2> QED
    BY <2>2, <2>3
<1> QED
  BY <1>6, <1>7 DEF Cleared

(* No other operation touches the slots of a kernel whose copy is done.    *)
LEMMA OthersLeaveSlots ==
  ASSUME StagingInv, OrderInv, NEW n \in DOMAIN queue, Execute(n),
         NEW k \in Work, k.kind = "kernel", k # queue[n],
         ~(queue[n].kind = "copy" /\ SamePass(queue[n], k)),
         NEW b \in DOMAIN k.table, b >= CLocal, k.layer <= laid,
         Holds(k, b), Cleared(Work, k)
  PROVE  Holds(k, b)'
<1> DEFINE op == queue[n]
           j == k.table[b]
<1>1. Runnable(n) /\ op \in Work
  BY DEF Execute, Work
<1>2. \A p \in Work : p \in Ops /\ WellMade(p)
  BY WorkIsOps DEF StagingInv
<1>3. k.layer \in 1..Layers /\ j \in DOMAIN local[k.layer]
  BY SlotHeld
<1>4. /\ Precedes(k, op) => k.stream # op.stream
      /\ k.id \notin op.needs
  BY <1>1, RunnableWork DEF StagingInv, OrderInv
<1>5. Precedes(op, k) \/ Precedes(k, op)
  BY <1>1, Ordered DEF StagingInv, OrderInv
<1>6. k.stream = Current
  BY <1>2 DEF WellMade
<1>7. CASE op.kind = "kernel" \/ op.layer # k.layer
  <2>1. local'[k.layer][j] = local[k.layer][j]
    BY <1>3, <1>7, TensorAfter
  <2> QED
    BY <2>1 DEF Holds
<1>8. CASE op.kind = "copy" /\ op.layer = k.layer
  <2>1. Precedes(k, op)
    BY <1>1, <1>5, <1>8 DEF Cleared
  <2> QED
    BY <1>1, <1>4, <1>6, <1>8, <2>1 DEF OrderInv, Awaited
<1>9. CASE op.kind = "write" /\ op.layer = k.layer
  <2>1. op.stream = Current /\ op.table = InPlace(op.writes)
    BY <1>1, <1>2, <1>9 DEF WellMade
  <2>2. SamePass(op, k)
    BY <1>1, <1>4, <1>5, <1>6, <2>1 DEF Cleared
  <2>3. op.writes = k.writes
    BY <1>1, <1>9, <2>2 DEF OrderInv, SameWrites, SamePass
  <2>4. DOMAIN op.table = k.writes /\ \A d \in k.writes : op.table[d] = d
    BY <2>1, <2>3 DEF InPlace
  <2>5. CASE \E d \in DOMAIN op.table : op.table[d] = j
    <3>1. PICK d \in DOMAIN op.table : /\ op.table[d] = j /\ local'[k.layer][j].src = d
                                       /\ local'[k.layer][j].by = op.step
      BY <1>3, <1>9, <2>5, TensorAfter
    <3> QED
      BY <2>2, <2>4, <3>1 DEF Holds, SamePass
  <2>6. CASE ~\E d \in DOMAIN op.table : op.table[d] = j
    <3>1. local'[k.layer][j] = local[k.layer][j]
      BY <1>3, <1>9, <2>6, TensorAfter
    <3> QED
      BY <3>1 DEF Holds
  <2> QED
    BY <2>5, <2>6
<1>10. op.kind \in Kinds
  BY <1>1, <1>2, OpFields
<1> QED
  BY <1>7, <1>8, <1>9, <1>10 DEF Kinds

LEMMA OrderExecuted ==
  ASSUME StagingInv, OrderInv, NEW n \in DOMAIN queue, Execute(n)
  PROVE  OrderInv'
<1> DEFINE op == queue[n]
<1>1. /\ Runnable(n) /\ op \in Work /\ queue' = RemoveAt(queue, n)
      /\ UNCHANGED <<laid, step, at>>
  BY DEF Execute, Work, alloc, host
<1>2. Work' = Work \ {op} /\ InOrder(queue') /\ Work' \subseteq Work
  BY <1>1, WorkRemoved DEF OrderInv
<1>3. Behind' /\ Awaited(Work') /\ OnePerSlot(Work') /\ SameWrites(Work')
  BY <1>1, <1>2 DEF OrderInv, Behind, Awaited, OnePerSlot, SameWrites
<1>4. Paired(Work', laid)
  <2> SUFFICES ASSUME NEW k \in Work', NEW c \in Work',
                      k.kind = "kernel", c.kind = "copy", SamePass(k, c)
               PROVE  \E w \in Work' : w.kind = "write" /\ SamePass(w, k) /\ c.id \in w.needs
    BY <1>2 DEF OrderInv, Paired
  <2>1. PICK w \in Work : w.kind = "write" /\ SamePass(w, k) /\ c.id \in w.needs
    BY <1>2 DEF OrderInv, Paired
  <2>2. w # op
    BY <1>1, <1>2, <2>1, RunnableWork DEF StagingInv, OrderInv
  <2> QED
    BY <1>2, <2>1, <2>2
<1>5. ASSUME NEW k \in Work', k.kind = "kernel", ~Copying(Work', k),
             NEW b \in DOMAIN k.table, b >= CLocal, k.layer <= laid
      PROVE  Holds(k, b)' /\ Cleared(Work', k)
  <2>1. k \in Work /\ k # op
    BY <1>2
  <2>2. CASE op.kind = "copy" /\ SamePass(op, k)
    BY <1>2, <1>5, <2>1, <2>2, CopyFills
  <2>3. CASE ~(op.kind = "copy" /\ SamePass(op, k))
    <3>1. ~Copying(Work, k)
      BY <1>2, <1>5, <2>3 DEF Copying
    <3>2. Holds(k, b) /\ Cleared(Work, k)
      BY <1>5, <2>1, <3>1 DEF OrderInv, Filled
    <3>3. Cleared(Work', k)
      BY <1>2, <3>2 DEF Cleared
    <3> QED
      BY <1>5, <2>1, <2>3, <3>2, <3>3, OthersLeaveSlots
  <2> QED
    BY <2>2, <2>3
<1>6. Filled'
  BY <1>1, <1>5 DEF Filled
<1> QED
  BY <1>1, <1>2, <1>3, <1>4, <1>6 DEF OrderInv

-----------------------------------------------------------------------------
LEMMA WorkAdded ==
  ASSUME StagingInv, OrderInv, at # 0, NEW new \in Seq(Ops), queue' = queue \o new,
         InOrder(new), \A i \in DOMAIN new : new[i].step = step /\ new[i].layer = at
  PROVE  /\ InOrder(queue') /\ Work' = Work \cup { new[i] : i \in DOMAIN new }
         /\ \A p \in Work, i \in DOMAIN new :
              Precedes(p, new[i]) /\ ~Precedes(new[i], p) /\ ~SamePass(p, new[i])
<1>1. /\ Len(queue) \in Nat /\ Len(new) \in Nat /\ queue' \in Seq(Ops)
      /\ DOMAIN queue = 1..Len(queue) /\ DOMAIN new = 1..Len(new)
      /\ DOMAIN queue' = 1..(Len(queue) + Len(new))
      /\ \A i \in DOMAIN queue : queue'[i] = queue[i]
      /\ \A i \in DOMAIN new : queue'[Len(queue) + i] = new[i]
  <2>1. queue \in Seq(Ops)
    BY DEF StagingInv, QueueTypes
  <2> QED
    BY <2>1, ConcatProperties
<1>2. ASSUME NEW p \in Work, NEW i \in DOMAIN new
      PROVE  Precedes(p, new[i]) /\ ~Precedes(new[i], p) /\ ~SamePass(p, new[i])
  <2>1. p \in Ops /\ new[i] \in Ops
    BY WorkIsOps DEF StagingInv
  <2>2. Precedes(p, new[i]) /\ ~SamePass(p, new[i])
    BY <2>1, OpFields DEF OrderInv, Behind, Precedes, SamePass
  <2> QED
    BY <2>1, <2>2, Asymmetric
<1>3. ASSUME NEW i \in DOMAIN queue', NEW j \in DOMAIN queue', i < j
      PROVE  Precedes(queue'[i], queue'[j])
  <2>1. CASE j <= Len(queue)
    BY <1>1, <1>3, <2>1 DEF OrderInv, InOrder
  <2>2. CASE i <= Len(queue) /\ ~(j <= Len(queue))
    <3>1. j - Len(queue) \in DOMAIN new /\ queue'[j] = new[j - Len(queue)]
      BY <1>1, <2>2
    <3>2. queue'[i] = queue[i] /\ queue[i] \in Work
      BY <1>1, <2>2 DEF Work
    <3> QED
      BY <1>2, <3>1, <3>2
  <2>3. CASE ~(i <= Len(queue))
    <3>1. /\ i - Len(queue) \in DOMAIN new /\ j - Len(queue) \in DOMAIN new
          /\ i - Len(queue) < j - Len(queue)
          /\ queue'[i] = new[i - Len(queue)] /\ queue'[j] = new[j - Len(queue)]
      BY <1>1, <1>3, <2>3
    <3> QED
      BY <3>1 DEF InOrder
  <2> QED
    BY <1>1, <1>3, <2>1, <2>2, <2>3
<1>4. ASSUME NEW p \in Work'
      PROVE  p \in Work \cup { new[i] : i \in DOMAIN new }
  <2>1. PICK j \in DOMAIN queue' : p = queue'[j]
    BY <1>4 DEF Work
  <2>2. CASE j <= Len(queue)
    BY <1>1, <2>1, <2>2 DEF Work
  <2>3. CASE ~(j <= Len(queue))
    <3>1. j - Len(queue) \in DOMAIN new /\ queue'[j] = new[j - Len(queue)]
      BY <1>1, <2>3
    <3> QED
      BY <2>1, <3>1
  <2> QED
    BY <2>2, <2>3
<1>5. ASSUME NEW i \in DOMAIN queue
      PROVE  queue[i] \in Work'
  <2>1. i \in DOMAIN queue' /\ queue'[i] = queue[i]
    BY <1>1
  <2> QED
    BY <2>1 DEF Work
<1>6. ASSUME NEW i \in DOMAIN new
      PROVE  new[i] \in Work'
  <2>1. Len(queue) + i \in DOMAIN queue' /\ queue'[Len(queue) + i] = new[i]
    BY <1>1
  <2> QED
    BY <2>1 DEF Work
<1>7. Work' = Work \cup { new[i] : i \in DOMAIN new }
  BY <1>4, <1>5, <1>6 DEF Work
<1> QED
  BY <1>2, <1>3, <1>7 DEF InOrder

(* forward() enqueues a set N of operations that are in order themselves.  *)
LEMMA OrderForward ==
  ASSUME StagingInv, OrderInv, at \in 1..Layers, NEW new \in Seq(Ops), queue' = queue \o new,
         InOrder(new), \A i \in DOMAIN new : new[i].step = step /\ new[i].layer = at,
         UNCHANGED <<laid, local, step>>, at' \in {0, at + 1},
         NEW N, N = { new[i] : i \in DOMAIN new },
         Awaited(N), Paired(N, laid), OnePerSlot(N), SameWrites(N),
         \A c \in N, p \in Work : c.kind = "copy" /\ p.stream = Current => p.id \in c.needs,
         \A k \in N : k.kind = "kernel" /\ ~Copying(N, k) =>
           \A b \in DOMAIN k.table : ~(b >= CLocal /\ k.layer <= laid)
  PROVE  OrderInv'
<1>1. /\ InOrder(queue') /\ Work' = Work \cup N
      /\ \A p \in Work, q \in N : Precedes(p, q) /\ ~Precedes(q, p) /\ ~SamePass(p, q)
                                 /\ ~SamePass(q, p)
  <2>1. at # 0
    BY Constants
  <2>2. /\ InOrder(queue') /\ Work' = Work \cup { new[i] : i \in DOMAIN new }
        /\ \A p \in Work, i \in DOMAIN new :
             Precedes(p, new[i]) /\ ~Precedes(new[i], p) /\ ~SamePass(p, new[i])
    BY <2>1, WorkAdded
  <2>3. Work' = Work \cup N
    BY <2>2
  <2>4. ASSUME NEW p \in Work, NEW q \in N
        PROVE  Precedes(p, q) /\ ~Precedes(q, p) /\ ~SamePass(p, q) /\ ~SamePass(q, p)
    <3>1. PICK i \in DOMAIN new : q = new[i]
      OBVIOUS
    <3>2. Precedes(p, q) /\ ~Precedes(q, p) /\ ~SamePass(p, q)
      BY <2>2, <3>1
    <3> QED
      BY <3>2 DEF SamePass
  <2> QED
    BY <2>2, <2>3, <2>4
<1>2. Behind'
  <2>1. \A p \in N : p.step = step /\ p.layer = at
    OBVIOUS
  <2>2. \A p \in Work : p.step < step \/ (p.step = step /\ p.layer < at)
    BY Constants DEF OrderInv, Behind
  <2>3. \A p \in Work : p.layer \in Nat
    BY WorkIsOps, OpFields DEF StagingInv
  <2> QED
    BY <1>1, <2>1, <2>2, <2>3, Constants DEF Behind
<1>3. Awaited(Work')
  BY <1>1 DEF OrderInv, Awaited
<1>4. Paired(Work', laid)
  <2> SUFFICES ASSUME NEW k \in Work', NEW c \in Work',
                      k.kind = "kernel", c.kind = "copy", SamePass(k, c)
               PROVE  /\ \A b \in DOMAIN k.table :
                           b >= CLocal /\ k.layer <= laid =>
                             b \in DOMAIN c.table /\ c.table[b] = k.table[b]
                      /\ \E w \in Work' : w.kind = "write" /\ SamePass(w, k) /\ c.id \in w.needs
    BY DEF Paired
  <2>1. \/ k \in Work /\ c \in Work
        \/ k \in N /\ c \in N
    BY <1>1
  <2>2. CASE k \in Work /\ c \in Work
    <3>1. /\ \A b \in DOMAIN k.table :
                b >= CLocal /\ k.layer <= laid =>
                  b \in DOMAIN c.table /\ c.table[b] = k.table[b]
          /\ \E w \in Work : w.kind = "write" /\ SamePass(w, k) /\ c.id \in w.needs
      BY <2>2 DEF OrderInv, Paired
    <3>2. Work \subseteq Work'
      BY <1>1
    <3> QED
      BY <3>1, <3>2, Zenon
  <2>3. CASE k \in N /\ c \in N
    <3>1. /\ \A b \in DOMAIN k.table :
                b >= CLocal /\ k.layer <= laid =>
                  b \in DOMAIN c.table /\ c.table[b] = k.table[b]
          /\ \E w \in N : w.kind = "write" /\ SamePass(w, k) /\ c.id \in w.needs
      BY <2>3 DEF Paired
    <3>2. N \subseteq Work'
      BY <1>1
    <3> QED
      BY <3>1, <3>2, Zenon
  <2> QED
    BY <2>1, <2>2, <2>3
<1>5. OnePerSlot(Work') /\ SameWrites(Work')
  BY <1>1 DEF OrderInv, OnePerSlot, SameWrites
<1>6. ASSUME NEW k \in Work', k.kind = "kernel", ~Copying(Work', k),
             NEW b \in DOMAIN k.table, b >= CLocal, k.layer <= laid
      PROVE  Holds(k, b)' /\ Cleared(Work', k)
  <2>1. k \in Work
    BY <1>1, <1>6 DEF Copying
  <2>2. Holds(k, b) /\ Cleared(Work, k)
    BY <1>1, <1>6, <2>1 DEF OrderInv, Filled, Copying
  <2>3. Holds(k, b)'
    BY <2>2 DEF Holds
  <2>4. Cleared(Work', k)
    BY <1>1, <2>1, <2>2 DEF Cleared
  <2> QED
    BY <2>3, <2>4
<1>7. Filled'
  BY <1>6 DEF Filled
<1> QED
  BY <1>1, <1>2, <1>3, <1>4, <1>5, <1>7 DEF OrderInv

LEMMA OrderPlain ==
  ASSUME StagingInv, OrderInv, ForwardInPlace
  PROVE  OrderInv'
<1> DEFINE w == Op("write", Current, InPlace(batch.writes), {})
           k == Op("kernel", Current, InPlace(batch.reads), {})
           new == <<w, k>>
           N == { new[i] : i \in DOMAIN new }
<1>1. /\ at \in 1..Layers /\ w \in Ops /\ k \in Ops /\ queue' = queue \o new
      /\ \A b \in DOMAIN k.table : ~(at <= laid /\ b >= CLocal)
  BY PlainForward
<1>2. UNCHANGED <<laid, local, step>> /\ at' \in {0, at + 1}
  BY DEF ForwardInPlace, LayerDone, alloc, gpu
<1>3. /\ w.step = step /\ w.layer = at /\ w.kind = "write" /\ w.writes = batch.writes
      /\ k.step = step /\ k.layer = at /\ k.kind = "kernel" /\ k.writes = batch.writes
  BY DEF Op
<1> HIDE DEF w, k
<1>4. new \in Seq(Ops) /\ DOMAIN new = 1..2 /\ new[1] = w /\ new[2] = k /\ N = {w, k}
  BY <1>1
<1> HIDE DEF new, N
<1>5. InOrder(new)
  <2>1. Precedes(w, k)
    BY <1>3 DEF Precedes, SamePass, Rank
  <2>2. \A i, j \in 1..2 : i < j => i = 1 /\ j = 2
    OBVIOUS
  <2> QED
    BY <1>4, <2>1, <2>2, Zenon DEF InOrder
<1>6. \A i \in DOMAIN new : new[i].step = step /\ new[i].layer = at
  BY <1>3, <1>4
<1>7. Awaited(N) /\ Paired(N, laid) /\ OnePerSlot(N) /\ SameWrites(N)
  BY <1>3, <1>4 DEF Awaited, Paired, OnePerSlot, SameWrites
<1>8. \A c \in N, p \in Work : c.kind = "copy" /\ p.stream = Current => p.id \in c.needs
  BY <1>3, <1>4
<1>9. \A q \in N : q.kind = "kernel" /\ ~Copying(N, q) =>
        \A b \in DOMAIN q.table : ~(b >= CLocal /\ q.layer <= laid)
  BY <1>1, <1>3, <1>4
<1>10. N = { new[i] : i \in DOMAIN new }
  BY DEF N
<1> QED
  BY <1>1, <1>2, <1>4, <1>5, <1>6, <1>7, <1>8, <1>9, <1>10, OrderForward

LEMMA OrderStaged ==
  ASSUME StagingInv, OrderInv, ForwardStaged
  PROVE  OrderInv'
<1> DEFINE c == Op("copy", at, [b \in Cold |-> Slot(b)], CopyAwaits)
           w == Op("write", Current, InPlace(batch.writes), KernelAwaits)
           k == Op("kernel", Current, Remapped, {})
           new == <<c, w, k>>
           N == { new[i] : i \in DOMAIN new }
<1>1. /\ at \in 1..Layers /\ at # 0 /\ c \in Ops /\ w \in Ops /\ k \in Ops
      /\ queue' = queue \o new /\ Stages /\ Cardinality(Cold) <= CScratch
  BY StagedForward, Constants
<1>2. UNCHANGED <<laid, local, step>> /\ at' \in {0, at + 1}
  BY DEF ForwardStaged, LayerDone, alloc, gpu
<1>3. /\ c.step = step /\ c.layer = at /\ c.kind = "copy" /\ c.id = Id("copy")
      /\ c.needs = CopyAwaits /\ c.stream = at /\ c.table = [b \in Cold |-> Slot(b)]
      /\ w.step = step /\ w.layer = at /\ w.kind = "write" /\ w.writes = batch.writes
      /\ w.needs = KernelAwaits
      /\ k.step = step /\ k.layer = at /\ k.kind = "kernel" /\ k.writes = batch.writes
      /\ k.table = Remapped
  BY DEF Op
<1> HIDE DEF c, w, k
<1>4. /\ new \in Seq(Ops) /\ DOMAIN new = 1..3 /\ new[1] = c /\ new[2] = w /\ new[3] = k
      /\ N = {c, w, k}
  BY <1>1
<1> HIDE DEF new, N
<1>5. Precedes(c, w) /\ Precedes(w, k) /\ Precedes(c, k)
  BY <1>3 DEF Precedes, SamePass, Rank
<1>6. InOrder(new)
  <2>1. \A i, j \in 1..3 : i < j => \/ i = 1 /\ j = 2
                                    \/ i = 1 /\ j = 3
                                    \/ i = 2 /\ j = 3
    OBVIOUS
  <2> QED
    BY <1>4, <1>5, <2>1, Zenon DEF InOrder
<1>7. \A i \in DOMAIN new : new[i].step = step /\ new[i].layer = at
  BY <1>3, <1>4
<1>8. Awaited(N)
  <2>1. ~Precedes(w, c) /\ ~Precedes(k, c) /\ ~Precedes(c, c)
    BY <1>1, <1>5, Asymmetric
  <2> QED
    BY <1>3, <1>4, <2>1 DEF Awaited
<1>9. Paired(N, laid)
  <2>1. ASSUME NEW b \in DOMAIN k.table, b >= CLocal
        PROVE  b \in DOMAIN c.table /\ c.table[b] = k.table[b]
    <3>1. b \in batch.reads
      BY <1>3 DEF Remapped
    <3>2. b \in Cold /\ Remapped[b] = Slot(b)
      BY <1>1, <2>1, <3>1, StagedTables
    <3> QED
      BY <1>3, <3>2
  <2>2. w \in N /\ w.kind = "write" /\ SamePass(w, k) /\ c.id \in w.needs
    BY <1>3, <1>4 DEF SamePass, KernelAwaits
  <2>3. \A q \in N : (q.kind = "kernel" => q = k) /\ (q.kind = "copy" => q = c)
    BY <1>3, <1>4
  <2> QED
    BY <2>1, <2>2, <2>3, Zenon DEF Paired
<1>10. OnePerSlot(N)
  <2>1. \A b, d \in Cold : Slot(b) = Slot(d) => b = d
    BY SlotsApart DEF StagingInv
  <2>2. DOMAIN c.table = Cold /\ \A b \in Cold : c.table[b] = Slot(b)
    BY <1>3
  <2> QED
    BY <1>3, <1>4, <2>1, <2>2 DEF OnePerSlot
<1>11. SameWrites(N)
  BY <1>3, <1>4 DEF SameWrites
<1>12. \A q \in N, p \in Work : q.kind = "copy" /\ p.stream = Current => p.id \in q.needs
  <2>1. \A p \in Work : p.stream = Current => p.id \in CopyAwaits
    BY DEF CopyAwaits, Pending, Work
  <2> QED
    BY <1>3, <1>4, <2>1
<1>13. \A q \in N : q.kind = "kernel" => Copying(N, q)
  BY <1>3, <1>4 DEF Copying, SamePass
<1>14. N = { new[i] : i \in DOMAIN new }
  BY DEF N
<1> QED
  BY <1>1, <1>2, <1>4, <1>6, <1>7, <1>8, <1>9, <1>10, <1>11, <1>12, <1>13, <1>14, OrderForward

-----------------------------------------------------------------------------
LEMMA NothingQueued ==
  ASSUME queue = << >>
  PROVE  OrderInv
<1>1. Work = {} /\ DOMAIN queue = {}
  BY DEF Work
<1> QED
  BY <1>1 DEF OrderInv, InOrder, Behind, Awaited, Paired, OnePerSlot, SameWrites, Filled

LEMMA OrderKept ==
  ASSUME StagingInv, StagingInv', OrderInv,
         [StagingNext \/ \E bw \in {0, NvlinkBw} : PublishLink(bw)]_stagingVars
  PROVE  OrderInv'
<1>1. CASE RelayLayer \/ RelayoutFails
  <2>1. queue' = << >>
    BY <1>1 DEF RelayLayer, RelayoutFails, StagingInv, HostTypes
  <2>2. Work' = {} /\ DOMAIN queue' = {}
    BY <2>1 DEF Work
  <2> QED
    BY <2>2 DEF OrderInv, InOrder, Behind, Awaited, Paired, OnePerSlot, SameWrites, Filled
<1>2. ASSUME NEW b \in Batches, StartStep(b)
      PROVE  OrderInv'
  <2>1. UNCHANGED <<laid, local, queue>> /\ step' = step + 1
    BY <1>2 DEF StartStep, alloc, gpu
  <2>2. Work' = Work
    BY <2>1 DEF Work
  <2>3. Behind'
    <3>1. \A p \in Work : p.step < step'
      BY <2>1, WorkIsOps, Constants DEF StagingInv, HostTypes
    <3> QED
      BY <2>2, <3>1 DEF Behind
  <2>4. Filled'
    BY <2>1, <2>2 DEF OrderInv, Filled, Holds
  <2> QED
    BY <2>1, <2>2, <2>3, <2>4 DEF OrderInv
<1>3. CASE ForwardInPlace
  BY <1>3, OrderPlain
<1>4. CASE ForwardStaged
  BY <1>4, OrderStaged
<1>5. ASSUME NEW n \in DOMAIN queue, Execute(n)
      PROVE  OrderInv'
  BY <1>5, OrderExecuted
<1>6. CASE \/ ForwardRaises \/ UNCHANGED stagingVars
           \/ \E bw \in {0, NvlinkBw} : PublishLink(bw)
  <2>1. UNCHANGED <<laid, local, queue, step, at>>
    BY <1>6 DEF ForwardRaises, PublishLink, stagingVars, alloc, gpu, host
  <2>2. Work' = Work
    BY <2>1 DEF Work
  <2>3. Filled' /\ Behind'
    BY <2>1, <2>2 DEF OrderInv, Filled, Holds, Behind
  <2> QED
    BY <2>1, <2>2, <2>3 DEF OrderInv
<1> QED
  BY <1>1, <1>2, <1>3, <1>4, <1>5, <1>6 DEF StagingNext

LEMMA StagingAlways == StagingSpec => [](StagingInv /\ OrderInv)
<1>1. StagingInit => StagingInv /\ OrderInv
  BY StagingStart, NothingQueued DEF StagingInit
<1>2. StagingInv /\ OrderInv
        /\ [StagingNext \/ \E bw \in {0, NvlinkBw} : PublishLink(bw)]_stagingVars
        => StagingInv' /\ OrderInv'
  BY StagingKept, OrderKept
<1> QED
  BY <1>1, <1>2, PTL DEF StagingSpec

-----------------------------------------------------------------------------
(* Types, tensor shapes and the scratch bound of every queued copy.        *)
THEOREM StagingTypeCorrect == StagingSpec => []TypeOK
<1>1. StagingInv => TypeOK
  <2> SUFFICES ASSUME StagingInv PROVE TypeOK
    OBVIOUS
  <2>1. \A l \in 1..Layers : handed[l] = (l <= laid)
    <3> SUFFICES ASSUME NEW l \in 1..Layers PROVE handed[l] = (l <= laid)
      OBVIOUS
    <3>1. handed[l] \in BOOLEAN /\ (handed[l] <=> l <= laid)
      BY DEF StagingInv, HostTypes
    <3>2. CASE l <= laid
      BY <3>1, <3>2
    <3>3. CASE ~(l <= laid)
      BY <3>1, <3>3
    <3> QED
      BY <3>2, <3>3
  <2>2. \A l \in 1..Layers :
          /\ layout[l] => published /\ handed[l]
          /\ DOMAIN local[l] = IF l <= laid THEN 0..(CLocal + CScratch - 1) ELSE Ids
    BY DEF StagingInv, HostTypes, TensorShapes
  <2>3. ASSUME NEW i \in DOMAIN queue
        PROVE  /\ queue[i].step \in 1..step /\ queue[i].layer \in 1..Layers
               /\ queue[i].kind = "copy" =>
                    \A b \in DOMAIN queue[i].table :
                      b \in PeerIds /\ queue[i].table[b] \in CLocal..(CLocal + CScratch - 1)
    <3>1. queue[i] \in Ops /\ WellMade(queue[i]) /\ queue[i].step \in 1..step
      BY DEF StagingInv, QueueTypes
    <3>2. queue[i].layer \in 1..Layers
      BY <3>1 DEF Ops
    <3> QED
      BY <3>1, <3>2 DEF WellMade
  <2>4. /\ relayout \in {"pending", "done", "failed"} /\ engine \in {"up", "dead"}
        /\ laid \in 0..Layers /\ (relayout = "done" => laid = Layers)
        /\ step \in 0..MaxSteps /\ at \in 0..Layers /\ batch \in Batches \cup { NoBatch }
    BY DEF StagingInv, HostTypes
  <2> QED
    BY <2>1, <2>2, <2>3, <2>4 DEF TypeOK
<1> QED
  BY <1>1, StagingAlways, PTL

(* Every index a kernel is given leads to its block, also when the         *)
(* relayout stopped between two layers.                                    *)
THEOREM TablesResolve == StagingSpec => []TableResolved
<1>1. StagingInv => TableResolved
  <2> SUFFICES ASSUME StagingInv, NEW i \in Kernels, NEW b \in DOMAIN queue[i].table
               PROVE  /\ queue[i].table[b] \in DOMAIN local[queue[i].layer]
                      /\ IF queue[i].layer <= laid /\ b >= CLocal
                         THEN queue[i].table[b] >= CLocal
                         ELSE queue[i].table[b] = b
    BY DEF TableResolved
  <2>1. /\ i \in DOMAIN queue /\ queue[i].kind = "kernel" /\ queue[i] \in Ops
        /\ Resolved(queue[i], Shape, laid)
    BY DEF Kernels, StagingInv, QueueTypes
  <2>2. queue[i].layer \in 1..Layers
    BY <2>1 DEF Ops
  <2> QED
    BY <2>1, <2>2 DEF Resolved, Shape
<1> QED
  BY <1>1, StagingAlways, PTL

(* The two wait_stream() calls suffice: no kernel reads a scratch slot     *)
(* that another forward pass filled, however the streams run.              *)
THEOREM ScratchIsOwn == StagingSpec => []SeesOwnStaging
<1>1. StagingInv /\ OrderInv => SeesOwnStaging
  <2> SUFFICES ASSUME StagingInv, OrderInv, NEW i \in Kernels, Runnable(i),
                      NEW b \in DOMAIN queue[i].table, b >= CLocal, queue[i].layer <= laid
               PROVE  Holds(queue[i], b)
    BY DEF SeesOwnStaging, Holds
  <2> DEFINE k == queue[i]
  <2>1. i \in DOMAIN queue /\ k \in Work /\ k.kind = "kernel"
    BY DEF Kernels, Work
  <2>2. \A p \in Work : p \in Ops /\ WellMade(p)
    BY WorkIsOps DEF StagingInv
  <2>3. ~Copying(Work, k)
    <3> SUFFICES ASSUME NEW c \in Work, c.kind = "copy", SamePass(c, k)
                 PROVE  FALSE
      BY DEF Copying
    <3>1. PICK w \in Work : w.kind = "write" /\ SamePass(w, k) /\ c.id \in w.needs
      BY <2>1 DEF OrderInv, Paired, SamePass
    <3>2. Precedes(w, k)
      BY <2>1, <3>1 DEF Precedes, Rank
    <3>3. w.stream = k.stream
      BY <2>1, <2>2, <3>1 DEF WellMade
    <3> QED
      BY <2>1, <3>2, <3>3, RunnableWork DEF StagingInv, OrderInv
  <2> QED
    BY <2>1, <2>3 DEF OrderInv, Filled
<1> QED
  BY <1>1, StagingAlways, PTL

-----------------------------------------------------------------------------
(* PeerPath.                                                               *)

(* A predicted latency is a number, and host is always measured.           *)
LEMMA PredictInt ==
  ASSUME NEW model \in Models, NEW p \in Points, NEW req, NEW peerState
  PROVE  PredictMs(model, p, req, peerState) \in Int
  BY SelectorAssumption, ProbeAssumption DEF PredictMs

LEMMA HostPredicted ==
  ASSUME NEW model \in Models, NEW req, NEW peerState
  PROVE  /\ PredictMs(model, "host", req, peerState) = model.ms["host"]
         /\ model.ms["host"] < Inf
  BY ProbeAssumption DEF PredictMs

LEMMA CandidatesAdmissible ==
  ASSUME NEW req, NEW peerState, NEW link
  PROVE  /\ Candidates(req, peerState, link) \subseteq Points
         /\ ~Fits(req) => /\ Candidates(req, peerState, link) \subseteq Admissible(req, peerState)
                          /\ "host" \in Candidates(req, peerState, link)
  BY DEF Candidates, Admissible, Points, OverPeer

Links == [nvlink : Nat, pcie : Nat]

(* A candidate can break one rule only: TP that nobody measured.           *)
LEMMA CandidateHarm ==
  ASSUME NEW req, NEW peerState, NEW link \in Links, NEW p \in Candidates(req, peerState, link),
         Harmful(p, req, peerState, link)
  PROVE  p = "tp" /\ ~req.measured /\ ~Fits(req)
  BY DEF Candidates, Harmful, OverPeer, Links

LEMMA LegalIsCandidate ==
  ASSUME NEW req, NEW peerState, NEW link \in Links, NEW p \in Admissible(req, peerState),
         ~Harmful(p, req, peerState, link)
  PROVE  p \in Candidates(req, peerState, link)
<1>1. CASE Fits(req)
  BY <1>1 DEF Candidates, Harmful
<1>2. CASE ~Fits(req)
  BY <1>2 DEF Candidates, Harmful, Admissible, OverPeer, Links
<1> QED
  BY <1>1, <1>2

-----------------------------------------------------------------------------
(* One call of online_select(): d is what it returned or raised.           *)
Selected(d) ==
  \E req \in Requests, model \in Models, strict \in BOOLEAN :
    /\ d.req = req /\ d.model = model /\ d.strict = strict
    /\ d.result \in OnlineSelect(strict, req, model, d.peer, d.link)
    /\ d.link \in Links

(* Where a result comes from.                                              *)
LEMMA ResultFrom ==
  ASSUME NEW req, NEW model, NEW strict, NEW peerState, NEW link \in Links,
         NEW r \in OnlineSelect(strict, req, model, peerState, link)
  PROVE  \E first \in Fastest(Admissible(req, peerState), model, req, peerState) :
         \E p \in Repick(first, req, model, peerState, link) :
           r \in Exit(first, p, strict, req, model, peerState, link)
  BY DEF OnlineSelect

LEMMA RepickedIsCandidate ==
  ASSUME NEW req, NEW model, NEW peerState, NEW link \in Links, NEW first,
         NEW p \in Repick(first, req, model, peerState, link)
  PROVE  p \in Candidates(req, peerState, link)
  BY DEF Repick, Fastest

(* _repair() replaces a harmful candidate by a point that breaks no rule.  *)
LEMMA RepairedLegal ==
  ASSUME NEW req, NEW model, NEW peerState, NEW link \in Links,
         NEW p \in Candidates(req, peerState, link), Harmful(p, req, peerState, link),
         NEW q \in Repaired(p, req, model, peerState, link)
  PROVE  ~Harmful(q, req, peerState, link)
<1>1. p = "tp" /\ ~Fits(req)
  BY CandidateHarm
<1>2. CASE Candidates(req, peerState, link) \ {p} = {}
  BY <1>1, <1>2 DEF Repaired, Harmful, OverPeer
<1>3. CASE Candidates(req, peerState, link) \ {p} # {}
  <2>1. q \in Candidates(req, peerState, link) /\ q # "tp"
    BY <1>1, <1>3 DEF Repaired, Fastest
  <2> QED
    BY <2>1, CandidateHarm
<1> QED
  BY <1>2, <1>3

(* In production the exit is legal and never raises.                       *)
LEMMA ExitIsLegal ==
  ASSUME NEW req, NEW model, NEW peerState, NEW link \in Links,
         NEW r \in OnlineSelect(FALSE, req, model, peerState, link)
  PROVE  r.how # "raised" /\ ~Harmful(r.point, req, peerState, link)
<1>1. PICK first \in Fastest(Admissible(req, peerState), model, req, peerState) :
        \E p \in Repick(first, req, model, peerState, link) :
          r \in Exit(first, p, FALSE, req, model, peerState, link)
  BY ResultFrom
<1>2. PICK p \in Repick(first, req, model, peerState, link) :
        r \in Exit(first, p, FALSE, req, model, peerState, link)
  BY <1>1
<1>3. CASE ~Harmful(p, req, peerState, link)
  BY <1>2, <1>3 DEF Exit, Decision
<1>4. CASE Harmful(p, req, peerState, link)
  <2>1. PICK q \in Repaired(p, req, model, peerState, link) :
          r = Decision(IF Harmful(q, req, peerState, link) THEN "raised" ELSE "repaired", q,
                       Meets(first, q, req, model, peerState))
    BY <1>2, <1>4 DEF Exit
  <2>2. ~Harmful(q, req, peerState, link)
    BY <1>4, RepickedIsCandidate, RepairedLegal
  <2> QED
    BY <2>1, <2>2 DEF Decision
<1> QED
  BY <1>3, <1>4

(* With an oracle model no candidate it prefers breaks a rule.             *)
LEMMA OracleSelects ==
  ASSUME NEW req, NEW model \in Models, model.oracle, NEW strict, NEW peerState, NEW link \in Links,
         NEW r \in OnlineSelect(strict, req, model, peerState, link)
  PROVE  r.how = "selected"
<1> DEFINE ms(x) == PredictMs(model, x, req, peerState)
<1>1. PICK first \in Fastest(Admissible(req, peerState), model, req, peerState) :
        \E p \in Repick(first, req, model, peerState, link) :
          r \in Exit(first, p, strict, req, model, peerState, link)
  BY ResultFrom
<1>2. PICK p \in Repick(first, req, model, peerState, link) :
        r \in Exit(first, p, strict, req, model, peerState, link)
  BY <1>1
<1>3. p \in Candidates(req, peerState, link)
  BY RepickedIsCandidate
<1>4. ~Harmful(p, req, peerState, link)
  <2> SUFFICES ASSUME Harmful(p, req, peerState, link) PROVE FALSE
    OBVIOUS
  <2>1. p = "tp" /\ ~req.measured /\ ~Fits(req)
    BY <1>3, CandidateHarm
  <2>2. ms(p) = Inf /\ ms("host") < Inf /\ ms("host") \in Int /\ Inf \in Int
    BY <2>1, HostPredicted, PredictInt, SelectorAssumption DEF PredictMs, Points
  <2>3. /\ "host" \in Candidates(req, peerState, link)
        /\ "host" \in Admissible(req, peerState)
    BY <2>1, CandidatesAdmissible
  <2>4. ms(p) <= ms("host")
    BY <1>1, <1>2, <2>3 DEF Repick, Fastest
  <2> HIDE DEF ms
  <2> QED
    BY <2>2, <2>4
<1> QED
  BY <1>2, <1>4 DEF Exit, Decision

(* What is returned is the fastest of the legal points.                    *)
LEMMA ReturnsFastest ==
  ASSUME NEW req, NEW model \in Models, NEW strict, NEW peerState, NEW link \in Links,
         NEW r \in OnlineSelect(strict, req, model, peerState, link), r.how # "raised"
  PROVE  /\ \A x \in Admissible(req, peerState) : ~Harmful(x, req, peerState, link) =>
              PredictMs(model, r.point, req, peerState) <= PredictMs(model, x, req, peerState)
         /\ r.meets = (PredictMs(model, r.point, req, peerState) <= req.deadline)
<1> DEFINE ms(x) == PredictMs(model, x, req, peerState)
           C == Candidates(req, peerState, link)
<1>1. PICK first \in Fastest(Admissible(req, peerState), model, req, peerState) :
        \E p \in Repick(first, req, model, peerState, link) :
          r \in Exit(first, p, strict, req, model, peerState, link)
  BY ResultFrom
<1>2. PICK p \in Repick(first, req, model, peerState, link) :
        r \in Exit(first, p, strict, req, model, peerState, link)
  BY <1>1
<1>3. p \in C
  BY RepickedIsCandidate
<1>4. ASSUME NEW x \in Admissible(req, peerState), ~Harmful(x, req, peerState, link)
      PROVE  x \in C /\ x \in Points /\ (Fits(req) => x = "single")
  BY <1>4, LegalIsCandidate DEF Admissible, Harmful
<1>5. CASE ~Harmful(p, req, peerState, link)
  <2>1. r.point = p /\ r.meets = (ms(p) <= req.deadline)
    BY <1>2, <1>5 DEF Exit, Decision, Meets
  <2>2. ASSUME NEW x \in Admissible(req, peerState), ~Harmful(x, req, peerState, link)
        PROVE  ms(p) <= ms(x)
    BY <1>1, <1>2, <1>4, <2>2 DEF Repick, Fastest
  <2> QED
    BY <2>1, <2>2
<1>6. CASE Harmful(p, req, peerState, link)
  <2>1. ~Fits(req) /\ p = "tp" /\ "host" \in C \ {p}
    BY <1>3, <1>6, CandidateHarm, CandidatesAdmissible
  <2>2. PICK q \in Repaired(p, req, model, peerState, link) :
          r = Decision(IF Harmful(q, req, peerState, link) THEN "raised" ELSE "repaired", q,
                       Meets(first, q, req, model, peerState))
    BY <1>2, <1>6 DEF Exit, Decision
  <2>3. q \in Fastest(C \ {p}, model, req, peerState)
    BY <2>1, <2>2 DEF Repaired
  <2>4. ASSUME NEW x \in Admissible(req, peerState), ~Harmful(x, req, peerState, link)
        PROVE  ms(q) <= ms(x)
    BY <1>4, <1>6, <2>3, <2>4 DEF Fastest
  <2> QED
    BY <2>2, <2>4 DEF Decision, Meets
<1> QED
  BY <1>5, <1>6

-----------------------------------------------------------------------------
(* A decision on the table is what some call of online_select() returned.  *)
DecisionOurs == decision = None \/ Selected(decision)

LEMMA DecisionAlways == Spec => []DecisionOurs
<1>1. Init => DecisionOurs
  BY DEF Init, DecisionOurs
<1>2. DecisionOurs /\ [Next]_vars => DecisionOurs'
  <2> SUFFICES ASSUME DecisionOurs, [Next]_vars PROVE DecisionOurs'
    OBVIOUS
  <2>1. CASE UNCHANGED decision
    BY <2>1 DEF DecisionOurs, Selected
  <2>2. CASE decision' = None
    BY <2>2 DEF DecisionOurs
  <2>3. ASSUME NEW req \in Requests, NEW model \in Models, NEW strict \in BOOLEAN,
               NEW pcie \in ProbePcies, Admit(req, model, strict, pcie)
        PROVE  DecisionOurs'
    <3> DEFINE link == [nvlink |-> Bandwidth, pcie |-> pcie]
    <3>1. PICK nvml \in NvmlReads :
            LET sample == [idle |-> nvml.idle, free |-> nvml.free, bw |-> Bandwidth] IN
            \E d \in OnlineSelect(strict, req, model, sample, link) :
              decision' = [result |-> d, strict |-> strict, req |-> req, model |-> model,
                           peer |-> sample, link |-> link]
      BY <2>3 DEF Admit
    <3> DEFINE sample == [idle |-> nvml.idle, free |-> nvml.free, bw |-> Bandwidth]
    <3>l. link \in Links
      BY StagingAssumption, ProbeAssumption DEF Bandwidth, Links
    <3> HIDE DEF sample, link
    <3>2. PICK d \in OnlineSelect(strict, req, model, sample, link) :
            decision' = [result |-> d, strict |-> strict, req |-> req, model |-> model,
                         peer |-> sample, link |-> link]
      BY <3>1 DEF sample, link
    <3>3. Selected(decision')
      BY <3>2, <3>l DEF Selected
    <3> QED
      BY <3>3 DEF DecisionOurs, Selected
  <2> QED
    BY <2>1, <2>2, <2>3
    DEF Next, LinkChanges, Tick, RefreshTopology, ProbeTopology, vars
<1> QED
  BY <1>1, <1>2, PTL DEF Spec

(* In production every decision leaves online_select() legal for the state *)
(* it sampled, whatever the cost model predicts.                           *)
THEOREM ProductionExitLegal == Spec => []ExitLegal
<1>1. DecisionOurs => ExitLegal
  BY ExitIsLegal DEF DecisionOurs, Selected, ExitLegal
<1> QED
  BY <1>1, DecisionAlways, PTL

(* With a model that predicts Inf for what nobody measured, do-no-harm     *)
(* never has to step in, strict or not.                                    *)
THEOREM OracleNeverTrips == Spec => []TripwireSilent
<1>1. DecisionOurs => TripwireSilent
  BY OracleSelects DEF DecisionOurs, Selected, TripwireSilent
<1> QED
  BY <1>1, DecisionAlways, PTL

(* The point returned is the fastest legal one, also after a repair, and   *)
(* the deadline flag is that point's.                                      *)
THEOREM HarmlessIsFree == Spec => []FastestLegal
<1>1. DecisionOurs => FastestLegal
  <2> SUFFICES ASSUME DecisionOurs, decision # None, decision.result.how # "raised"
               PROVE  FastestLegal
    BY DEF FastestLegal
  <2>1. PICK req \in Requests, model \in Models, strict \in BOOLEAN :
          /\ decision.req = req /\ decision.model = model /\ decision.strict = strict
          /\ decision.result \in OnlineSelect(strict, req, model, decision.peer, decision.link)
          /\ decision.link \in Links
    BY DEF DecisionOurs, Selected
  <2>2. /\ \A x \in Admissible(req, decision.peer) : ~Harmful(x, req, decision.peer, decision.link) =>
             PredictMs(model, decision.result.point, req, decision.peer)
               <= PredictMs(model, x, req, decision.peer)
        /\ decision.result.meets =
             (PredictMs(model, decision.result.point, req, decision.peer) <= req.deadline)
    <3> DEFINE r == decision.result
    <3>1. /\ r \in OnlineSelect(strict, req, model, decision.peer, decision.link)
          /\ r.how # "raised" /\ decision.link \in Links
      BY <2>1
    <3> QED
      BY <3>1, ReturnsFastest
  <2> QED
    BY <2>1, <2>2 DEF FastestLegal
<1> QED
  BY <1>1, DecisionAlways, PTL

-----------------------------------------------------------------------------
(* How old a verdict that calls a dead link healthy can be: no older than  *)
(* its stamp while it is cached, no older than its probe while the call    *)
(* that made it has not returned.                                          *)
ProbeTypes ==
  /\ trained \in BOOLEAN /\ nvlinkOk \in BOOLEAN /\ decided \in BOOLEAN
  /\ age \in 0..Ttl /\ dead \in Nat
  /\ reading = None \/ reading \in [seen : BOOLEAN, left : 0..MaxProbe]

Stale == nvlinkOk /\ decided /\ ~trained

VerdictAged ==
  /\ Stale /\ (reading = None \/ reading.seen) /\ age < Ttl => dead <= age
  /\ Stale /\ reading # None /\ reading.seen =>
       dead <= MaxProbe - reading.left \/ (reading.left = 0 /\ dead < Ttl)

LEMMA ProbeConstants ==
  /\ Ttl \in Nat \ {0} /\ MaxProbe \in Nat /\ Lag \in Nat
  /\ MaxProbe <= Lag /\ Ttl - 1 <= Lag
  BY ProbeAssumption DEF Lag

LEMMA ReadingIsNone ==
  ASSUME NEW r \in [seen : BOOLEAN, left : 0..MaxProbe]
  PROVE  r # None
<1>1. r \in [seen : BOOLEAN, left : Nat]
  BY ProbeConstants
<1> QED
  BY <1>1, ProbeAssumption

LEMMA ProbeInit == Init => ProbeTypes /\ VerdictAged
<1> SUFFICES ASSUME Init PROVE ProbeTypes /\ VerdictAged
  OBVIOUS
<1>1. /\ trained \in BOOLEAN /\ nvlinkOk = TRUE /\ decided = FALSE
      /\ age = Ttl /\ reading = None /\ dead = (IF trained THEN 0 ELSE Lag + 1)
  BY DEF Init
<1>2. ProbeTypes
  <2>1. nvlinkOk \in BOOLEAN /\ decided \in BOOLEAN
    BY <1>1, Zenon
  <2>2. age \in 0..Ttl /\ dead \in Nat
    BY <1>1, ProbeConstants
  <2> QED
    BY <1>1, <2>1, <2>2 DEF ProbeTypes
<1>3. VerdictAged
  BY <1>1 DEF VerdictAged, Stale
<1> QED
  BY <1>2, <1>3

LEMMA ProbeNext ==
  ASSUME ProbeTypes, VerdictAged, [Next]_vars
  PROVE  ProbeTypes' /\ VerdictAged'
<1> USE ProbeConstants
<1> DEFINE Readings == [seen : BOOLEAN, left : 0..MaxProbe]
<1>1. CASE UNCHANGED probe
  <2>1. UNCHANGED <<trained, dead, age, nvlinkOk, decided, reading>>
    BY <1>1 DEF probe
  <2>2. ProbeTypes'
    BY <2>1 DEF ProbeTypes
  <2>3. VerdictAged'
    BY <2>1 DEF VerdictAged, Stale
  <2> QED
    BY <2>2, <2>3
<1>2. CASE LinkChanges
  BY <1>2 DEF LinkChanges, ProbeTypes, VerdictAged, Stale
<1>3. CASE Tick
  <2>1. /\ UNCHANGED <<trained, nvlinkOk, decided>>
        /\ age' = UpTo(age + 1, Ttl) /\ dead' = IF trained THEN 0 ELSE UpTo(dead + 1, Lag + 1)
    BY <1>3 DEF Tick
  <2>2. age' \in 0..Ttl /\ dead' \in Nat /\ dead' <= dead + 1 /\ (age' < Ttl => age' = age + 1)
    BY <2>1 DEF UpTo, ProbeTypes
  <2>3. CASE reading = None
    <3>1. reading' = None
      BY <1>3, <2>3 DEF Tick
    <3> QED
      BY <2>1, <2>2, <2>3, <3>1 DEF ProbeTypes, VerdictAged, Stale
  <2>4. CASE reading # None
    <3>1. /\ reading \in Readings /\ reading.left > 0
          /\ reading' = [reading EXCEPT !.left = reading.left - 1]
      BY <1>3, <2>4 DEF Tick, ProbeTypes
    <3>2. /\ reading' \in Readings /\ reading'.seen = reading.seen
          /\ reading'.left = reading.left - 1 /\ reading' # None
      BY <3>1, ReadingIsNone
    <3> QED
      BY <2>1, <2>2, <2>4, <3>1, <3>2 DEF ProbeTypes, VerdictAged, Stale
  <2> QED
    BY <2>3, <2>4
<1>4. CASE RefreshTopology
  <2>1. reading = None /\ UNCHANGED <<trained, dead, nvlinkOk, decided>>
    BY <1>4 DEF RefreshTopology
  <2>2. CASE age < Ttl
    <3>1. age' = age /\ reading' = [seen |-> TRUE, left |-> 0]
      BY <1>4, <2>2 DEF RefreshTopology, Stamp
    <3>2. reading' \in Readings /\ reading'.seen /\ reading'.left = 0
      BY <3>1
    <3> QED
      BY <2>1, <2>2, <3>1, <3>2 DEF ProbeTypes, VerdictAged, Stale
  <2>3. CASE ~(age < Ttl)
    <3>1. age' = 0 /\ reading' = [seen |-> FALSE, left |-> MaxProbe]
      BY <1>4, <2>3 DEF RefreshTopology
    <3>2. reading' \in Readings /\ ~reading'.seen
      BY <3>1
    <3>3. reading' # None
      BY <3>2, ReadingIsNone
    <3> QED
      BY <2>1, <3>1, <3>2, <3>3 DEF ProbeTypes, VerdictAged, Stale
  <2> QED
    BY <2>2, <2>3
<1>5. CASE ProbeTopology
  <2>1. /\ reading \in Readings /\ ~reading.seen
        /\ UNCHANGED <<trained, dead, age>>
        /\ reading' = [reading EXCEPT !.seen = TRUE]
    BY <1>5 DEF ProbeTopology, ProbeTypes
  <2>2. reading' \in Readings
    BY <2>1
  <2>3. /\ ~Stale' /\ nvlinkOk' \in BOOLEAN /\ decided' \in BOOLEAN
        /\ trained' \in BOOLEAN
    <3>1. trained \in BOOLEAN /\ trained' = trained
      BY <2>1 DEF ProbeTypes
    <3>2. CASE nvlinkOk' = trained /\ decided' = TRUE
      BY <3>1, <3>2, Zenon DEF Stale
    <3>3. CASE nvlinkOk' = FALSE /\ decided' = TRUE
      BY <3>1, <3>3, Zenon DEF Stale
    <3>4. CASE nvlinkOk' = TRUE /\ decided' = FALSE
      BY <3>1, <3>4, Zenon DEF Stale
    <3> QED
      BY <1>5, <3>2, <3>3, <3>4 DEF ProbeTopology
  <2> QED
    BY <2>1, <2>2, <2>3 DEF ProbeTypes, VerdictAged
<1>6. ASSUME NEW req \in Requests, NEW model \in Models, NEW strict \in BOOLEAN,
             NEW pcie \in ProbePcies, Admit(req, model, strict, pcie)
      PROVE  ProbeTypes' /\ VerdictAged'
  <2>1. /\ reading # None /\ reading.seen /\ reading' = None
        /\ UNCHANGED <<trained, dead, age, nvlinkOk, decided>>
    BY <1>6 DEF Admit
  <2> QED
    BY <2>1 DEF ProbeTypes, VerdictAged, Stale
<1> QED
  BY <1>1, <1>2, <1>3, <1>4, <1>5, <1>6 DEF Next, vars, probe

(* A probe that decided the link is healthy is of a link that is up, or    *)
(* went down no more than the TTL or one probe ago: nothing renews the     *)
(* stamp of a verdict without probing.  What is left out is said: a probe  *)
(* that failed reads as healthy until the next one, whatever the link.     *)
THEOREM VerdictsLagLittle == Spec => []VerdictLag
<1>1. ProbeTypes /\ VerdictAged => VerdictLag
  <2> SUFFICES ASSUME ProbeTypes, VerdictAged, reading # None, reading.seen, Stale
               PROVE  dead <= Lag
    BY DEF VerdictLag, Stale, ProbeTypes
  <2> QED
    BY ProbeConstants DEF ProbeTypes, VerdictAged
<1> QED
  BY <1>1, ProbeInit, ProbeNext, PTL DEF Spec

-----------------------------------------------------------------------------
(* The admitting thread touches the engine through the published bandwidth *)
(* only: what is proved of the staging holds beside it.                    *)
THEOREM RunsStaging == Spec => StagingSpec
<1>1. Init => StagingInit
  BY DEF Init
<1>2. [Next]_vars => [StagingNext \/ \E bw \in {0, NvlinkBw} : PublishLink(bw)]_stagingVars
  <2>1. Bandwidth \in {0, NvlinkBw}
    BY DEF Bandwidth
  <2>2. ASSUME NEW req \in Requests, NEW model \in Models, NEW strict \in BOOLEAN,
               NEW pcie \in ProbePcies, Admit(req, model, strict, pcie)
        PROVE  \E bw \in {0, NvlinkBw} : PublishLink(bw)
    BY <2>1, <2>2 DEF Admit
  <2>3. LinkChanges \/ Tick \/ RefreshTopology \/ ProbeTopology \/ UNCHANGED vars
          => UNCHANGED stagingVars
    BY DEF LinkChanges, Tick, RefreshTopology, ProbeTopology, vars
  <2> QED
    BY <2>2, <2>3 DEF Next
<1> QED
  BY <1>1, <1>2, PTL DEF Spec, StagingSpec

(* In the running system every table entry leads to its block and no       *)
(* kernel reads another pass' scratch, whatever the probe publishes.       *)
THEOREM StagingSafe == Spec => [](TypeOK /\ TableResolved /\ SeesOwnStaging)
  BY RunsStaging, StagingTypeCorrect, TablesResolve, ScratchIsOwn, PTL
=============================================================================
