----------------------------- MODULE Connector ------------------------------
(***************************************************************************)
(* The Grace-Hopper connector of umallm/vllm_integration/gh200_connector:  *)
(* the scheduler half, which plans tier changes of the KV blocks as a      *)
(* delta against what it planned before, and the worker half, which holds  *)
(* the demoted copies under the slot they came from.  vLLM around them     *)
(* hands out slots, preempts, resumes and finishes requests; it is         *)
(* external and appears only through the calls it makes.                   *)
(*                                                                         *)
(* One layer is modelled: every layer gets the same plan.  The content of  *)
(* a slot is <<r, k>>, the complete KV of block k of request r, or None    *)
(* while it is incomplete.  A block is complete once the next one exists.  *)
(***************************************************************************)
EXTENDS UMAPolicy

CONSTANTS
  Requests, Slots, None,
  Prompts,      (* slots vLLM may give a request: sequences without repeats *)
  MaxBlocks,    (* bound on the blocks of a request                         *)
  NSink, NWindow,
  Sized,        (* Sized[n]: blocks the SLO asks in HBM, n if infeasible    *)
  Rankings,     (* hotness orders the engine may report                     *)
  Routes,       (* ways to hold a Grace block, one is chosen at start       *)
  ReuseModes,   (* values of enable_external_reuse, one is chosen at start  *)
  Preemptible   (* preempted at most once each, a bound                       *)

ASSUME ConnectorAssumption ==
  /\ None \notin Requests \X (1..MaxBlocks)
  /\ MaxBlocks \in Nat /\ NSink \in Nat /\ NWindow \in Nat \ {0}
  /\ Prompts \subseteq Seq(Slots)
  /\ \A p \in Prompts : Len(p) \in 1..MaxBlocks /\ IsInjective(p)
  /\ \A n \in 1..(2 * MaxBlocks) : Sized[n] \in 0..n
  /\ Rankings \subseteq Seq(1..MaxBlocks)
  /\ Preemptible \subseteq Requests
  /\ Routes \subseteq {"hint", "readThrough", "copyBack"}
  /\ ReuseModes \subseteq BOOLEAN

VARIABLES
  route,     (* residency hints, or copies with or without coherent_read   *)
  reuse,     (* enable_external_reuse                                      *)
  (* vLLM                                                                  *)
  status,    (* request -> where it is in its life                         *)
  table,     (* request -> its slots, in block order                       *)
  ready,     (* request -> blocks vLLM takes as computed                   *)
  kv,        (* slot -> what is in it                                      *)
  (* _Scheduler                                                            *)
  hotness, reqBlocks, prevTier, forceRestore, plan,
  (* _Worker, UMAResidencyController                                       *)
  grace, compressed, state,
  meta,      (* the plan bound to the worker for this step                 *)
  batch,     (* requests scheduled in this step                            *)
  phase,     (* where the engine is in its step                            *)
  heldBy,    (* slot -> requests that ever had it                          *)
  resumed    (* requests that ever came back into new slots                *)

vllmVars == <<status, table, ready, kv, heldBy, resumed>>
schedVars == <<hotness, reqBlocks, prevTier, forceRestore, plan>>
workerVars == <<grace, compressed, state>>
stepVars == <<meta, batch, phase>>
vars == <<route, reuse, vllmVars, schedVars, workerVars, stepVars>>

NoBlocks == [s \in {} |-> None]
EmptyPlan == [grace |-> {}, compress |-> {}, restore |-> {}, remap |-> NoBlocks]

Running == { r \in Requests : status[r] = "running" }
FreeSlots == Slots \ UNION { ToSet(table[r]) : r \in Running }

(* dict.update()                                                           *)
Updated(old, new) ==
  [x \in DOMAIN old \cup DOMAIN new |-> IF x \in DOMAIN new THEN new[x] ELSE old[x]]

Init ==
  /\ route \in Routes /\ reuse \in ReuseModes
  /\ status = [r \in Requests |-> "waiting"]
  /\ table = [r \in Requests |-> << >>]
  /\ ready = [r \in Requests |-> 0]
  /\ kv = [s \in Slots |-> None]
  /\ heldBy = [s \in Slots |-> {}]
  /\ hotness = [r \in Requests |-> << >>]
  /\ reqBlocks = [r \in Requests |-> << >>]
  /\ prevTier = [r \in Requests |-> NoBlocks]
  /\ forceRestore = [r \in Requests |-> {}]
  /\ plan = EmptyPlan /\ meta = EmptyPlan
  /\ grace = NoBlocks /\ compressed = NoBlocks /\ state = NoBlocks
  /\ phase = "plan" /\ batch = {} /\ resumed = {}

-----------------------------------------------------------------------------
(* Scheduler                                                               *)

(* observe_attention(): any order may come out of the moving average.      *)
ObserveAttention(r) ==
  /\ phase = "plan" /\ r \in Running
  /\ \E order \in Rankings : hotness' = [hotness EXCEPT ![r] = order]
  /\ UNCHANGED <<route, reuse, vllmVars, reqBlocks, prevTier, forceRestore, plan,
                 workerVars, stepVars>>

(* Recency stands in for scores that do not fit the table.                 *)
Ranking(r, n) ==
  IF Len(hotness[r]) = n THEN hotness[r] ELSE [i \in 1..n |-> n + 1 - i]

TierName == [T0 |-> "hbm", T1 |-> "grace", T2 |-> "compressed", T3 |-> "grace"]

NActive(n) ==
  LET floor == NSink + NWindow IN IF Sized[n] < floor THEN floor ELSE Sized[n]

PolicyFor(n) ==
  [nActive |-> NActive(n), nSink |-> NSink, nWindow |-> NWindow, gpu |-> 4,
   whole |-> 5, compressUnderWarn |-> TRUE, swapUnderCritical |-> FALSE]

LastAt(blocks, s) ==
  CHOOSE i \in 1..Len(blocks) :
    blocks[i] = s /\ \A j \in (i + 1)..Len(blocks) : blocks[j] # s

(* GraceHopperPlacement.assign() at NORMAL pressure, the only one passed.  *)
(* Of a slot listed twice the dictionary keeps the last tier.              *)
Assign(r, blocks) ==
  LET n == Len(blocks)
      place == Place(PolicyFor(n), Ranking(r, n), NORMAL)
  IN  [s \in ToSet(blocks) |->
         IF n <= NSink + NWindow THEN "hbm"
         ELSE TierName[place[LastAt(blocks, s)]]]

Before(r, s) == IF s \in DOMAIN prevTier[r] THEN prevTier[r][s] ELSE "hbm"

(* Mutated form: the cost model overrides the forced restores.             *)
WantedUnforced(r, blocks) == Assign(r, blocks)

Wanted(r, blocks) ==
  [s \in ToSet(blocks) |->
     IF s \in forceRestore[r] THEN "hbm" ELSE Assign(r, blocks)[s]]

(* Mutated form: every block that leaves its tier is restored first.       *)
MovedThroughHbm(r, blocks, t) ==
  { s \in ToSet(blocks) :
      /\ Wanted(r, blocks)[s] # Before(r, s) /\ Before(r, s) # t
      /\ t \in {"hbm", Wanted(r, blocks)[s]} }

(* The blocks plan_request() moves to tier t.                              *)
MovedTo(r, blocks, t) ==
  { s \in ToSet(blocks) : Wanted(r, blocks)[s] = t /\ Before(r, s) # t }

(* note_external_match(): the request is back with the slots new.          *)
PositionalRemap(old, new) ==
  LET n == IF Len(old) < Len(new) THEN Len(old) ELSE Len(new)
      ks == { k \in 1..n : old[k] # new[k] }
  IN  [s \in { old[k] : k \in ks } |-> new[CHOOSE k \in ks : old[k] = s]]

CarriedTiers(r, new) ==
  IF PositionalRemap(reqBlocks[r], new) = NoBlocks THEN prevTier[r]
  ELSE LET n == IF Len(reqBlocks[r]) < Len(new) THEN Len(reqBlocks[r]) ELSE Len(new)
       IN  [s \in { new[k] : k \in 1..n } |->
              Before(r, reqBlocks[r][CHOOSE k \in 1..n : new[k] = s])]

(* Mutated form: the new slots extend the table.                           *)
NoteAppended(r, new) ==
  LET prev == CarriedTiers(r, new) IN
  /\ plan' = [plan EXCEPT !.remap = Updated(@, PositionalRemap(reqBlocks[r], new))]
  /\ prevTier' = [prevTier EXCEPT ![r] = prev]
  /\ reqBlocks' = [reqBlocks EXCEPT ![r] = @ \o new]
  /\ forceRestore' = [forceRestore EXCEPT
       ![r] = @ \cup { s \in DOMAIN prev : prev[s] # "hbm" }]

NoteExternalMatch(r, new) ==
  LET prev == CarriedTiers(r, new) IN
  /\ plan' = [plan EXCEPT !.remap = Updated(@, PositionalRemap(reqBlocks[r], new))]
  /\ prevTier' = [prevTier EXCEPT ![r] = prev]
  /\ reqBlocks' = [reqBlocks EXCEPT ![r] = new]
  /\ forceRestore' = [forceRestore EXCEPT
       ![r] = @ \cup { s \in DOMAIN prev : prev[s] # "hbm" }]

(* num_new_matched_tokens(), in blocks.                                    *)
Matched(r, computed) ==
  IF reuse /\ Len(reqBlocks[r]) > computed THEN Len(reqBlocks[r]) - computed ELSE 0

-----------------------------------------------------------------------------
(* vLLM                                                                    *)

(* It takes a running request's slots back; the connector is not told.     *)
Preempt(r) ==
  /\ phase = "plan" /\ r \in (Running \cap Preemptible) \ resumed
  /\ status' = [status EXCEPT ![r] = "preempted"]
  /\ table' = [table EXCEPT ![r] = << >>]
  /\ ready' = [ready EXCEPT ![r] = 0]
  /\ UNCHANGED <<route, reuse, kv, heldBy, resumed, schedVars, workerVars, stepVars>>

(* A preempted request comes back: get_num_new_matched_tokens() counts the *)
(* blocks vLLM need not compute, update_state_after_alloc() reports their  *)
(* slots.                                                                  *)
Resume(r) ==
  /\ phase = "plan" /\ status[r] = "preempted"
  /\ \E new \in Prompts :
       /\ Len(new) = Len(reqBlocks[r]) /\ ToSet(new) \subseteq FreeSlots
       /\ Matched(r, 0) > 0
       /\ table' = [table EXCEPT ![r] = new]
       /\ ready' = [ready EXCEPT ![r] = Matched(r, 0) - 1]
       /\ heldBy' = [s \in Slots |->
                       IF s \in ToSet(new) THEN heldBy[s] \cup {r} ELSE heldBy[s]]
       /\ NoteExternalMatch(r, new)
  /\ status' = [status EXCEPT ![r] = "running"]
  /\ resumed' = resumed \cup {r}
  /\ UNCHANGED <<route, reuse, kv, hotness, workerVars, stepVars>>

(* request_finished()                                                      *)
RequestFinished(r) ==
  /\ phase = "plan" /\ r \in Running
  /\ status' = [status EXCEPT ![r] = "finished"]
  /\ table' = [table EXCEPT ![r] = << >>]
  /\ ready' = [ready EXCEPT ![r] = 0]
  /\ hotness' = [hotness EXCEPT ![r] = << >>]
  /\ reqBlocks' = [reqBlocks EXCEPT ![r] = << >>]
  /\ prevTier' = [prevTier EXCEPT ![r] = NoBlocks]
  /\ forceRestore' = [forceRestore EXCEPT ![r] = {}]
  /\ UNCHANGED <<route, reuse, kv, heldBy, resumed, plan, workerVars, stepVars>>

(* One scheduling step: build_connector_meta() with the block lists        *)
(* brought up to date (fresh replaces, appended extends) and every request *)
(* of active planned.                                                      *)
BuildConnectorMeta(blocks, active) ==
  /\ reqBlocks' = blocks
  /\ meta' = [grace    |-> UNION { MovedTo(r, blocks[r], "grace") : r \in active },
              compress |-> UNION { MovedTo(r, blocks[r], "compressed") : r \in active },
              restore  |-> UNION { MovedTo(r, blocks[r], "hbm") : r \in active },
              remap    |-> plan.remap]
  /\ plan' = EmptyPlan
  /\ prevTier' = [r \in Requests |->
                    IF r \in active THEN Wanted(r, blocks[r]) ELSE prevTier[r]]
  /\ forceRestore' = [r \in Requests |-> IF r \in active THEN {} ELSE forceRestore[r]]
  /\ batch' = active
  /\ phase' = "load"

(* A request is scheduled in the slots ids, and listed with those of       *)
(* blocks.                                                                 *)
ScheduleIn(r, ids, blocks) ==
  /\ ToSet(ids) \subseteq FreeSlots
  /\ table' = [table EXCEPT ![r] = ids]
  /\ heldBy' = [s \in Slots |->
                  IF s \in ToSet(ids) THEN heldBy[s] \cup {r} ELSE heldBy[s]]
  /\ \E active \in SUBSET Running :
       BuildConnectorMeta([reqBlocks EXCEPT ![r] = blocks], active \cup {r})
  /\ status' = [status EXCEPT ![r] = "running"]
  /\ UNCHANGED <<route, reuse, ready, kv, hotness, workerVars>>

(* A new request comes with its prompt's slots.                            *)
ScheduleNew(r) ==
  /\ phase = "plan" /\ status[r] = "waiting"
  /\ \E ids \in Prompts : ScheduleIn(r, ids, ids)
  /\ UNCHANGED resumed

(* With reuse disabled nothing of a preempted request is matched: vLLM     *)
(* computes it again, update_state_after_alloc() returns early, and the    *)
(* new slots come as those of a cached request, to be appended to the old. *)
ScheduleResumed(r) ==
  /\ phase = "plan" /\ status[r] = "preempted" /\ Matched(r, 0) = 0
  /\ \E ids \in Prompts :
       /\ Len(ids) = Len(reqBlocks[r])
       /\ ScheduleIn(r, ids, reqBlocks[r] \o ids)
  /\ resumed' = resumed \cup {r}

(* Running requests decode; one of them may need one more slot.            *)
ScheduleDecode(active) ==
  /\ phase = "plan" /\ active # {} /\ active \subseteq Running
  /\ \/ /\ BuildConnectorMeta(reqBlocks, active)
        /\ UNCHANGED <<table, heldBy>>
     \/ \E r \in active :
          /\ Len(table[r]) < MaxBlocks /\ FreeSlots # {}
          /\ LET s == CHOOSE x \in FreeSlots : TRUE IN
             /\ table' = [table EXCEPT ![r] = Append(@, s)]
             /\ heldBy' = [heldBy EXCEPT ![s] = @ \cup {r}]
             /\ BuildConnectorMeta([reqBlocks EXCEPT ![r] = Append(@, s)], active)
  /\ UNCHANGED <<route, reuse, status, ready, kv, resumed, hotness, workerVars>>

-----------------------------------------------------------------------------
(* Worker                                                                  *)

(* apply_remap(): every moved key at once.                                 *)
Rekey(d, remap) ==
  LET from == DOMAIN d \cap DOMAIN remap IN
  Updated([s \in DOMAIN d \ from |-> d[s]],
          [t \in { remap[s] : s \in from } |->
             d[CHOOSE s \in from : remap[s] = t]])

Without(d, gone) == [s \in DOMAIN d \ gone |-> d[s]]

(* start_load_kv(): remap, then restore.  A compressed copy comes first,   *)
(* then the residency hint, then the Grace copy, which a coherent read     *)
(* needs no more.  The controller has no remap().                          *)
StartLoadKV ==
  LET g == Rekey(grace, meta.remap)
      c == Rekey(compressed, meta.remap)
      fromCompressed == meta.restore \cap DOMAIN c
      byHint == { s \in meta.restore \ fromCompressed :
                    s \in DOMAIN state /\ state[s] = "grace" }
      fromGrace == (meta.restore \cap DOMAIN g) \ (fromCompressed \cup byHint)
  IN
  /\ phase = "load"
  /\ kv' = [s \in Slots |->
              IF s \in fromCompressed THEN c[s]
              ELSE IF s \in fromGrace /\ route = "copyBack" THEN g[s]
              ELSE kv[s]]
  /\ compressed' = Without(c, fromCompressed)
  /\ grace' = Without(g, fromGrace)
  /\ state' = Updated(state, [s \in byHint |-> "hbm"])
  /\ phase' = "save"
  /\ UNCHANGED <<route, reuse, status, table, ready, heldBy, resumed, schedVars, meta,
                 batch>>

(* What the forward pass leaves in the slots of the batch: the blocks vLLM *)
(* has not counted as computed become complete, but for the last.          *)
Computed(r) == { table[r][k] : k \in (ready[r] + 1)..Len(table[r]) }

AfterForward ==
  [s \in Slots |->
     IF \E r \in batch : s \in Computed(r)
     THEN LET r == CHOOSE q \in batch : s \in Computed(q)
              k == CHOOSE i \in 1..Len(table[r]) : table[r][i] = s
          IN  IF k = Len(table[r]) THEN None ELSE <<r, k>>
     ELSE kv[s]]

(* save_kv_layer() after the layer's attention: Grace first, then          *)
(* compress.  The copy to Grace is issued on a side stream nothing makes   *)
(* wait for the pass, so of a block just computed it may see either value; *)
(* the numbers to compress are read in order.                              *)
SaveKVLayer ==
  /\ phase = "save"
  /\ kv' = AfterForward
  /\ ready' = [r \in Requests |-> IF r \in batch THEN Len(table[r]) - 1 ELSE ready[r]]
  /\ IF route = "hint"
     THEN /\ state' = Updated(state, [s \in meta.grace |-> "grace"])
          /\ UNCHANGED grace
     ELSE /\ \E early \in SUBSET { s \in meta.grace : kv[s] # AfterForward[s] } :
               grace' = Updated(grace, [s \in meta.grace |->
                 IF s \in early THEN kv[s] ELSE AfterForward[s]])
          /\ UNCHANGED state
  /\ compressed' = Updated(compressed, [s \in meta.compress |-> AfterForward[s]])
  /\ meta' = EmptyPlan /\ batch' = {}
  /\ phase' = "plan"
  /\ UNCHANGED <<route, reuse, status, table, heldBy, resumed, schedVars>>

-----------------------------------------------------------------------------
Next ==
  \/ \E r \in Requests :
       \/ ObserveAttention(r) \/ Preempt(r) \/ Resume(r)
       \/ RequestFinished(r) \/ ScheduleNew(r) \/ ScheduleResumed(r)
  \/ \E active \in SUBSET Requests : ScheduleDecode(active)
  \/ StartLoadKV
  \/ SaveKVLayer

Spec == Init /\ [][Next]_vars

-----------------------------------------------------------------------------
Contents == (Requests \X (1..MaxBlocks)) \cup {None}
TierNames == {"hbm", "grace", "compressed"}

(* The scheduler still lists the slots the request lost.                   *)
Stale(r) == ~reuse /\ r \in resumed

(* Every variable holds a value of its kind, and a plan never asks two     *)
(* moves of one slot, unless it lists slots that were lost.                *)
TypeOK ==
  /\ route \in Routes /\ reuse \in ReuseModes /\ phase \in {"plan", "load", "save"}
  /\ \A r \in Requests :
       /\ status[r] \in {"waiting", "running", "preempted", "finished"}
       /\ table[r] \in Seq(Slots) /\ reqBlocks[r] \in Seq(Slots)
       /\ ready[r] \in 0..MaxBlocks
       /\ prevTier[r] \in [DOMAIN prevTier[r] -> TierNames]
       /\ DOMAIN prevTier[r] \cup forceRestore[r] \subseteq Slots
  /\ kv \in [Slots -> Contents]
  /\ DOMAIN grace \cup DOMAIN compressed \cup DOMAIN state \subseteq Slots
  /\ \A s \in DOMAIN grace : grace[s] \in Contents
  /\ \A s \in DOMAIN compressed : compressed[s] \in Contents
  /\ (\A r \in Requests : ~Stale(r)) =>
       /\ meta.grace \cap meta.compress = {}
       /\ meta.restore \cap (meta.grace \cup meta.compress) = {}

(* The worker is only told to move slots that a request of this step has   *)
(* in vLLM's table now: nothing of a finished or preempted request, whose  *)
(* slots may be another's, is demoted or overwritten.  (With reuse         *)
(* disabled this fails for a request that was resumed: the slots it lost   *)
(* stay in its table and are moved with it.)                               *)
MovesOwnSlots ==
  \A s \in meta.grace \cup meta.compress \cup meta.restore :
    \E r \in batch : s \in ToSet(table[r]) \/ (Stale(r) /\ r \in heldBy[s])

(* The slot was never another request's.                                   *)
Own(r, s) == heldBy[s] = {r}

(* Between steps the worker holds what the scheduler's delta counts on: a  *)
(* copy or a hint for every block planned out of HBM and not queued for a  *)
(* forced restore.  Only for slots with no history: see RestoreHarmless.   *)
BelievedHeld ==
  phase = "plan" =>
    \A r \in Running : \A s \in ToSet(table[r]) \ forceRestore[r] :
      Own(r, s) =>
        /\ Before(r, s) = "compressed" => s \in DOMAIN compressed
        /\ Before(r, s) = "grace" =>
             IF route = "hint" THEN s \in DOMAIN state /\ state[s] = "grace"
                               ELSE s \in DOMAIN grace

(* The forward pass finds the request's own KV in every slot that was      *)
(* never another's, if it was never preempted: what demotions and restores *)
(* do cancels out.  (With copies written back this needs the prefill's     *)
(* copies to be in time, which nothing ensures.)                           *)
OwnKVKept ==
  phase = "save" /\ route # "copyBack" =>
    \A r \in Running \ resumed : \A k \in 1..ready[r] :
      Own(r, table[r][k]) => kv[table[r][k]] = <<r, k>>

(* A restore leaves in place the KV it finds there, if it is the owner's:  *)
(* "``compressed`` demotion KIVI-quantizes the block; restores reverse     *)
(* these" (gh200_connector's header).                                      *)
RestoreHarmless ==
  [][phase = "load" /\ phase' = "save" =>
       \A r \in Running : \A k \in 1..ready[r] :
         kv[table[r][k]] = <<r, k>> => kv'[table[r][k]] = <<r, k>>]_vars
=============================================================================
