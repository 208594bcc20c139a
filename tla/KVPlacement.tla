----------------------------- MODULE KVPlacement ----------------------------
(***************************************************************************)
(* KVPlacementStateMachine of umallm/runtime/kv_manager.py: the tier of    *)
(* every KV block, the bounded log of its migrations, and the callers that *)
(* sample the peer, plan a migration and commit it, three calls between    *)
(* which any other caller may move the same block or fill the same peer.   *)
(***************************************************************************)
EXTENDS Integers, FiniteSets, SequencesExt

CONSTANTS
  Blocks, Owners, Callers,
  Size,          (* Size[b]: nbytes                                        *)
  OwnerOf,       (* OwnerOf[b]: the request b belongs to                   *)
  FirstTiers,    (* tiers a block may be registered in                     *)
  PeerCapacity,  (* peer HBM                                               *)
  MaxEvents      (* max_events                                             *)

ASSUME KVAssumption ==
  /\ IsFiniteSet(Blocks) /\ Blocks # {}
  /\ IsFiniteSet(Callers) /\ Callers # {}
  /\ Size \in [Blocks -> Nat \ {0}]
  /\ OwnerOf \in [Blocks -> Owners]
  /\ FirstTiers \subseteq {"local", "peer", "host", "compressed", "evicted"}
  /\ PeerCapacity \in Nat
  /\ MaxEvents \in Nat \ {0}

VARIABLES
  tier,      (* block -> its state, for the registered blocks              *)
  order,     (* registered blocks in dictionary order                      *)
  pinned,    (* those registered with migratable=False                     *)
  log,       (* _events                                                    *)
  call,      (* caller -> the migration it is preparing                    *)
  freed      (* sum of what release() returned                             *)

vars == <<tier, order, pinned, log, call, freed>>

Tiers == {"local", "peer", "host", "compressed", "evicted"}

Transitions ==
  [local      |-> {"peer", "host", "compressed", "evicted"},
   peer       |-> {"local", "host", "evicted"},
   host       |-> {"local", "evicted"},
   compressed |-> {"local", "evicted"},
   evicted    |-> {}]

Idle == [step |-> "idle"]

Known == DOMAIN tier

BlocksIn(s) == { b \in Known : tier[b] = s }

BytesIn(s) == SumFunctionOnSet(Size, BlocksIn(s))

(* What a peer sample finds free: its HBM less the blocks already there.   *)
PeerFree == PeerCapacity - BytesIn("peer")

Event(b, from, to) == [block |-> b, from |-> from, to |-> to]

Init ==
  /\ tier = [b \in {} |-> "local"]
  /\ order = << >>
  /\ pinned = {}
  /\ log = << >>
  /\ call = [c \in Callers |-> Idle]
  /\ freed = 0

-----------------------------------------------------------------------------
(* A second registration of an id raises ValueError and changes nothing.   *)
Register(b, s, migratable) ==
  /\ b \notin Known
  /\ tier' = [x \in Known \cup {b} |-> IF x = b THEN s ELSE tier[x]]
  /\ order' = Append(order, b)
  /\ pinned' = IF migratable THEN pinned ELSE pinned \cup {b}
  /\ UNCHANGED <<log, call, freed>>

(* The caller probes the peer.                                             *)
Sample(c, b, want, linkOk) ==
  /\ call[c] = Idle /\ b \in Known
  /\ call' = [call EXCEPT ![c] =
       [step |-> "sampled", block |-> b, want |-> want, linkOk |-> linkOk,
        free |-> PeerFree]]
  /\ UNCHANGED <<tier, order, pinned, log, freed>>

(* Mutated forms: no tier when the peer is full; the block's size is not   *)
(* asked for; host for every wish while the link is down.                  *)
FallbackNowhere(b, want, linkOk, free) ==
  IF want = "peer" /\ (~linkOk \/ free < Size[b]) THEN "none" ELSE want

FallbackUnlessFull(b, want, linkOk, free) ==
  IF \/ want = "peer" /\ (~linkOk \/ free < 0)
     \/ want = "local" /\ tier[b] = "peer" /\ ~linkOk
  THEN "host" ELSE want

FallbackAlwaysHost(b, want, linkOk, free) ==
  IF ~linkOk \/ (want = "peer" /\ free < Size[b]) THEN "host" ELSE want

Fallback(b, want, linkOk, free) ==
  IF \/ want = "peer" /\ (~linkOk \/ free < Size[b])
     \/ want = "local" /\ tier[b] = "peer" /\ ~linkOk
  THEN "host" ELSE want

(* plan_migration()                                                        *)
PlanMigration(c) ==
  /\ call[c].step = "sampled"
  /\ LET q == call[c] IN
     call' = [call EXCEPT ![c] =
       [step |-> "planned", block |-> q.block,
        target |-> Fallback(q.block, q.want, q.linkOk, q.free)]]
  /\ UNCHANGED <<tier, order, pinned, log, freed>>

(* Mutated form: the transition table is not consulted.                    *)
LegalUnlessPinned(b, target) == b \in pinned => target = "evicted"

Legal(b, target) ==
  /\ b \in pinned => target = "evicted"
  /\ target \in Transitions[tier[b]]

(* The last MaxEvents entries.                                             *)
Trimmed(s) ==
  IF Len(s) > MaxEvents THEN SubSeq(s, Len(s) - MaxEvents + 1, Len(s)) ELSE s

(* migrate(): commit, or raise IllegalTransition.                          *)
Migrate(c) ==
  /\ call[c].step = "planned"
  /\ LET b == call[c].block
         target == call[c].target
     IN  \/ /\ Legal(b, target)
            /\ log' = Trimmed(Append(log, Event(b, tier[b], target)))
            /\ tier' = [tier EXCEPT ![b] = target]
         \/ /\ ~Legal(b, target)
            /\ UNCHANGED <<log, tier>>
  /\ call' = [call EXCEPT ![c] = Idle]
  /\ UNCHANGED <<order, pinned, freed>>

(* What a loop over the dictionary collects of a set of blocks.            *)
InOrder(S) ==
  FoldLeft(LAMBDA ids, b : IF b \in S THEN Append(ids, b) ELSE ids, << >>, order)

(* Mutated form: the blocks already evicted are released again.            *)
ReleasableAll(owner) == InOrder({ b \in Known : OwnerOf[b] = owner })

Releasable(owner) ==
  InOrder({ b \in Known : OwnerOf[b] = owner /\ tier[b] # "evicted" })

(* release(): evict what the request still has, in one lock hold.          *)
ReleaseOwner(owner) ==
  LET gone == Releasable(owner)
      ids  == { gone[i] : i \in DOMAIN gone }
  IN
  /\ log' = log \o [i \in DOMAIN gone |-> Event(gone[i], tier[gone[i]], "evicted")]
  /\ tier' = [b \in Known |-> IF b \in ids THEN "evicted" ELSE tier[b]]
  /\ freed' = freed + SumFunctionOnSet(Size, ids)
  /\ UNCHANGED <<order, pinned, call>>

Next ==
  \/ \E b \in Blocks, s \in FirstTiers, migratable \in BOOLEAN :
       Register(b, s, migratable)
  \/ \E c \in Callers, b \in Blocks, want \in Tiers, linkOk \in BOOLEAN :
       Sample(c, b, want, linkOk)
  \/ \E c \in Callers : PlanMigration(c) \/ Migrate(c)
  \/ \E owner \in Owners : ReleaseOwner(owner)

Spec == Init /\ [][Next]_vars

-----------------------------------------------------------------------------
TypeOK ==
  /\ Known \subseteq Blocks
  /\ tier \in [Known -> Tiers]
  /\ order \in Seq(Blocks)
  /\ pinned \subseteq Known
  /\ log \in Seq([block : Blocks, from : Tiers, to : Tiers])
  /\ freed \in Nat
  /\ \A c \in Callers :
       /\ call[c] # Idle => call[c].block \in Known
       /\ call[c].step = "planned" => call[c].target \in Tiers

(* The log tells each block's history without a hole: every step of it is  *)
(* in the transition table, starts where the previous one ended, and the   *)
(* last one ends in the block's tier.  (release() must not record an       *)
(* EVICTED -> EVICTED transition.)                                         *)
LogTellsTier ==
  \A i \in DOMAIN log :
    LET later == { j \in DOMAIN log : j > i /\ log[j].block = log[i].block } IN
    /\ log[i].to \in Transitions[log[i].from]
    /\ IF later = {} THEN tier[log[i].block] = log[i].to
                     ELSE log[Min(later)].from = log[i].to

(* No byte is freed twice: release() has returned at most what is evicted. *)
FreedOnce == freed <= BytesIn("evicted")

(* A plan is one migrate() can commit, if its wish was, while nobody else  *)
(* moves the block: the fallback chain never plans the impossible.  It     *)
(* plans the peer only if its sample found the link up and room for the    *)
(* block, and plans what was not wished for only to fall back on the host. *)
FallbackLegal ==
  [][\A c \in Callers :
       call[c].step = "sampled" /\ call'[c].step = "planned" =>
         LET q == call[c]
             target == call'[c].target
             open == Transitions[tier[q.block]]
         IN  /\ q.want \in open => target \in open
             /\ target = "peer" => q.linkOk /\ q.free >= Size[q.block]
             /\ target \in {q.want, "host"}]_vars

(* The callers whose sample found room on the peer for their block.        *)
Claims ==
  { c \in Callers :
      \/ /\ call[c].step = "sampled" /\ call[c].want = "peer"
         /\ call[c].linkOk /\ call[c].free >= Size[call[c].block]
      \/ call[c].step = "planned" /\ call[c].target = "peer" }

ClaimedBytes == SumFunctionOnSet([c \in Claims |-> Size[call[c].block]], Claims)

(* Nothing reserves what a sample found free, so callers that sampled the  *)
(* same room all commit.  What they claim together with what is there      *)
(* exceeds the peer by one block for each other caller, and no more: no    *)
(* sample finds room while the peer is overfull.                           *)
OvercommitBounded ==
  BytesIn("peer") + ClaimedBytes
    <= PeerCapacity + (Cardinality(Callers) - 1) * Max({ Size[b] : b \in Blocks })

(* An evicted block stays evicted whatever plans are still under way, and  *)
(* a pinned one leaves its tier only to be evicted.                        *)
NeverRevived ==
  [][\A b \in Known :
       tier'[b] # tier[b] =>
         /\ tier[b] # "evicted"
         /\ b \in pinned => tier'[b] = "evicted"]_vars
=============================================================================
