---------------------------- MODULE PeerStaging -----------------------------
(***************************************************************************)
(* The KV cache split over two GPUs: the relayout of vllm_integration/     *)
(* peer_kv_alloc.py, the attention hook of peerkv_attn.py and the staging  *)
(* of peerkv_staging.py.                                                   *)
(*                                                                         *)
(* Block ids run from 0 to CLocal + CPeer - 1.  A relaid layer keeps the   *)
(* ids below CLocal, and CScratch scratch slots behind them, in its local  *)
(* tensor, and the other ids in its peer tensor.  forward() runs on the    *)
(* host, layer after layer, and only enqueues: `queue` holds the GPU work  *)
(* of the current stream and of one staging stream per layer, each FIFO.   *)
(* A block table on the GPU makes forward() wait for the current stream    *)
(* besides; the model does not rely on it.                                 *)
(*                                                                         *)
(* vLLM is external: it picks the batches, and its forward writes the new  *)
(* tokens through the slot mapping, which knows nothing of the remapped    *)
(* table, and then reads through the table.                                *)
(***************************************************************************)
EXTENDS Selector, Sequences, SequencesExt

CONSTANTS
  Layers, CLocal, CPeer, CScratch,
  Batches,   (* records [reads, writes] of block ids                       *)
  MaxSteps,  (* bound: forward passes                                      *)
  NvlinkBw,  (* bandwidth of a trained link                                *)
  Strict,    (* PEERKV_STRICT=1                                            *)
  None

ASSUME StagingAssumption ==
  /\ Layers \in Nat \ {0} /\ MaxSteps \in Nat
  /\ CLocal \in Nat \ {0} /\ CPeer \in Nat \ {0} /\ CScratch \in Nat
  /\ NvlinkBw \in Nat /\ NvlinkBw >= Pcie /\ Strict \in BOOLEAN
  /\ \A b \in Batches :
       b.writes \subseteq b.reads /\ b.reads \subseteq 0..(CLocal + CPeer - 1)

VARIABLES
  relayout,  (* "pending" while initialize_kv_cache runs, "done", "failed" *)
  laid,      (* layers relaid                                              *)
  published, (* PEERKV_C_LOCAL ... are in the environment                  *)
  handed,    (* layer -> set_peer_kv() was called                          *)
  layout,    (* layer -> the impl has read a configured layout             *)
  nvlink,    (* PEERKV_NVLINK_GBPS                                         *)
  local,     (* layer -> index -> what the local tensor holds              *)
  peer,      (* layer -> peer id -> what the peer tensor holds             *)
  written,   (* <<layer, id>> whose tokens vLLM has written                *)
  step, at, batch,   (* the forward pass under way: its next layer, or 0   *)
  queue,     (* GPU work not yet done, in the order it was enqueued        *)
  engine     (* "up", or "dead" after forward() raised                     *)

alloc == <<relayout, laid, published, handed>>
gpu == <<local, peer, written>>
host == <<step, at, batch>>
stagingVars == <<alloc, layout, nvlink, gpu, host, queue, engine>>

(* The current stream; layer l stages on stream l.                          *)
Current == 0

Ids == 0..(CLocal + CPeer - 1)
PeerIds == { b \in Ids : b >= CLocal }

(* of: the block whose tokens are there, src: the block that was put there,*)
(* by: the forward pass that put it there.                                 *)
Zeros(b) == [of |-> None, src |-> b, by |-> 0]

NoBatch == [reads |-> {}, writes |-> {}]

StagingInit ==
  /\ relayout = "pending" /\ laid = 0 /\ published = FALSE
  /\ handed = [l \in 1..Layers |-> FALSE]
  /\ layout = [l \in 1..Layers |-> FALSE]
  /\ nvlink = NvlinkBw
  /\ local = [l \in 1..Layers |-> [b \in Ids |-> Zeros(b)]]
  /\ peer = [l \in 1..Layers |-> [b \in PeerIds |-> Zeros(b)]]
  /\ written = {}
  /\ step = 0 /\ at = 0 /\ batch = NoBatch
  /\ queue = << >>
  /\ engine = "up"

-----------------------------------------------------------------------------
(* Mutated form: the layout is published with the last layer.              *)
PublishedAtLast(l) == published \/ l = Layers

PublishedAt(l) == TRUE

(* One turn of _relayout_to_peer's loop, and its end.                      *)
RelayLayer ==
  /\ relayout = "pending"
  /\ LET l == laid + 1 IN
     /\ laid' = l
     /\ local' = [local EXCEPT ![l] =
          [i \in 0..(CLocal + CScratch - 1) |->
             IF i < CLocal THEN local[l][i] ELSE Zeros(None)]]
     /\ peer' = [peer EXCEPT ![l] = [b \in PeerIds |-> local[l][b]]]
     /\ published' = PublishedAt(l)
     /\ handed' = [handed EXCEPT ![l] = TRUE]
     /\ relayout' = IF l = Layers THEN "done" ELSE "pending"
  /\ UNCHANGED <<layout, nvlink, written, host, queue, engine>>

(* An allocation fails: the wrapper logs it and the layers stay as they    *)
(* are.                                                                    *)
RelayoutFails ==
  /\ relayout = "pending"
  /\ relayout' = "failed"
  /\ UNCHANGED <<laid, published, handed, layout, nvlink, gpu, host, queue, engine>>

-----------------------------------------------------------------------------
StartStep(b) ==
  /\ relayout # "pending" /\ engine = "up" /\ at = 0 /\ step < MaxSteps
  /\ step' = step + 1 /\ at' = 1 /\ batch' = b
  /\ UNCHANGED <<alloc, layout, nvlink, gpu, queue, engine>>

Pending(stream) ==
  { queue[i].id : i \in { j \in DOMAIN queue : queue[j].stream = stream } }

Id(kind) == <<step, at, kind>>

(* Work for a stream: table says where each block is read or written.      *)
Op(kind, stream, table, needs) ==
  [id |-> Id(kind), kind |-> kind, stream |-> stream, layer |-> at,
   step |-> step, table |-> table, writes |-> batch.writes, needs |-> needs]

InPlace(blocks) == [b \in blocks |-> b]

(* vLLM's forward: the tokens, then the paged kernel.                      *)
Super(table, needs) ==
  << Op("write", Current, InPlace(batch.writes), needs),
     Op("kernel", Current, table, {}) >>

Cold == { b \in batch.reads : b >= CLocal }

(* _ensure_layout()                                                        *)
EnsuredLayout == layout[at] \/ published

(* peer_kv and a layout are there and the table names a peer block.        *)
Stages == handed[at] /\ EnsuredLayout /\ Cold # {}

(* Mutated form: the slots start one too far.                              *)
SlotBehind(b) == CLocal + Cardinality({ c \in Cold : c <= b })

(* The peer blocks of the table, in order, take the slots from the first.  *)
Slot(b) == CLocal + Cardinality({ c \in Cold : c < b })

Remapped == [b \in batch.reads |-> IF b \in Cold THEN Slot(b) ELSE b]

LayerDone ==
  /\ layout' = [layout EXCEPT ![at] = IF handed[at] THEN EnsuredLayout ELSE @]
  /\ at' = IF at = Layers THEN 0 ELSE at + 1
  /\ UNCHANGED <<alloc, nvlink, gpu, step, batch, engine>>

(* forward() of a layer without a peer tier, or that reads no peer block.  *)
ForwardInPlace ==
  /\ engine = "up" /\ at # 0 /\ ~Stages
  /\ queue' = queue \o Super(InPlace(batch.reads), {})
  /\ LayerDone

(* _guard_route(): staging is the copy-back point of a request too large   *)
(* for one GPU; only strict mode raises.                                   *)
RouteRaises ==
  /\ Strict
  /\ Harmful("copyback", [ctx |-> SingleCap + 1], [idle |-> TRUE],
             [nvlink |-> nvlink, pcie |-> Pcie])

(* Mutated form: one of the two wait_stream() calls is missing.            *)
CopyAwaitsNothing == {}

CopyAwaits == Pending(Current)
KernelAwaits == Pending(at) \cup { Id("copy") }

(* forward() with staging: copy, remap, and vLLM's forward.                *)
ForwardStaged ==
  /\ engine = "up" /\ at # 0 /\ Stages
  /\ ~RouteRaises /\ Cardinality(Cold) <= CScratch
  /\ queue' = queue
       \o << Op("copy", at, [b \in Cold |-> Slot(b)], CopyAwaits) >>
       \o Super(Remapped, KernelAwaits)
  /\ LayerDone

(* _guard_route() raises in strict mode, stage() when the scratch is too   *)
(* small; the engine does not survive it.                                  *)
ForwardRaises ==
  /\ engine = "up" /\ at # 0 /\ Stages
  /\ RouteRaises \/ Cardinality(Cold) > CScratch
  /\ engine' = "dead"
  /\ layout' = [layout EXCEPT ![at] = TRUE]
  /\ UNCHANGED <<alloc, nvlink, gpu, host, queue>>

-----------------------------------------------------------------------------
Runnable(i) ==
  /\ \A j \in 1..(i - 1) : queue[j].stream # queue[i].stream
  /\ \A j \in DOMAIN queue : queue[j].id \notin queue[i].needs

(* The GPU does the next work of a stream.  A token whose index lies       *)
(* behind the tensor is lost to it.                                        *)
Execute(i) ==
  LET op == queue[i]
      l  == op.layer
      put(j) == { b \in DOMAIN op.table : op.table[b] = j }
  IN
  /\ Runnable(i)
  /\ queue' = RemoveAt(queue, i)
  /\ local' =
       IF op.kind = "kernel" THEN local
       ELSE [local EXCEPT ![l] = [j \in DOMAIN local[l] |->
               IF put(j) = {} THEN local[l][j]
               ELSE LET b == CHOOSE x \in put(j) : TRUE IN
                    [of  |-> IF op.kind = "write" THEN b ELSE peer[l][b].of,
                     src |-> b, by |-> op.step]]]
  /\ written' = IF op.kind = "write" THEN written \cup { <<l, b>> : b \in op.writes }
                                     ELSE written
  /\ UNCHANGED <<alloc, layout, nvlink, peer, host, engine>>

(* The probe publishes what it found of the link.                          *)
PublishLink(bw) ==
  /\ nvlink' = bw
  /\ UNCHANGED <<alloc, layout, gpu, host, queue, engine>>

StagingNext ==
  \/ RelayLayer \/ RelayoutFails
  \/ \E b \in Batches : StartStep(b)
  \/ ForwardInPlace \/ ForwardStaged \/ ForwardRaises
  \/ \E i \in DOMAIN queue : Execute(i)

StagingSpec ==
  StagingInit /\ [][StagingNext \/ \E bw \in {0, NvlinkBw} : PublishLink(bw)]_stagingVars

-----------------------------------------------------------------------------
TypeOK ==
  /\ relayout \in {"pending", "done", "failed"} /\ engine \in {"up", "dead"}
  /\ laid \in 0..Layers /\ (relayout = "done" => laid = Layers)
  /\ step \in 0..MaxSteps /\ at \in 0..Layers
  /\ batch \in Batches \cup { NoBatch }
  /\ \A l \in 1..Layers :
       /\ handed[l] = (l <= laid)
       /\ layout[l] => published /\ handed[l]
       /\ DOMAIN local[l] = IF l <= laid THEN 0..(CLocal + CScratch - 1) ELSE Ids
  /\ \A i \in DOMAIN queue :
       /\ queue[i].step \in 1..step /\ queue[i].layer \in 1..Layers
       /\ queue[i].kind = "copy" =>
            \A b \in DOMAIN queue[i].table :
              b \in PeerIds /\ queue[i].table[b] \in CLocal..(CLocal + CScratch - 1)

Kernels == { i \in DOMAIN queue : queue[i].kind = "kernel" }

(* Every index a kernel is given lies in its layer's tensor and stands for *)
(* the block the table named: in place, or in the slot this pass stages it *)
(* into.  Also when the relayout stopped half way and some layers are      *)
(* split and the others whole.                                             *)
TableResolved ==
  \A i \in Kernels :
    LET l == queue[i].layer IN
    \A b \in DOMAIN queue[i].table :
      /\ queue[i].table[b] \in DOMAIN local[l]
      /\ IF l <= laid /\ b >= CLocal
         THEN queue[i].table[b] >= CLocal
         ELSE queue[i].table[b] = b

(* When a kernel may run, each scratch slot it reads was filled in its own *)
(* pass, with the block it wants or with a token of this pass: no earlier  *)
(* copy it should have waited for, no later one that should have waited    *)
(* for it.  (peerkv_staging.py: "Ordering BOTH ways".)                     *)
SeesOwnStaging ==
  \A i \in Kernels : Runnable(i) =>
    \A b \in DOMAIN queue[i].table :
      b >= CLocal /\ queue[i].layer <= laid =>
        LET held == local[queue[i].layer][queue[i].table[b]] IN
        /\ held.by = queue[i].step
        /\ held.src \in {b} \cup queue[i].writes

(* A kernel reads, for every block vLLM has written, what vLLM wrote.      *)
WrittenIsRead ==
  \A i \in Kernels : Runnable(i) =>
    \A b \in DOMAIN queue[i].table :
      <<queue[i].layer, b>> \in written =>
        local[queue[i].layer][queue[i].table[b]].of = b
=============================================================================
