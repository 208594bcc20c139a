-------------------------- MODULE ConnectorProofs --------------------------
(***************************************************************************)
(* Theorems about Connector, for any requests, slots, block counts,        *)
(* sizings and rankings.                                                   *)
(***************************************************************************)
EXTENDS Connector, FoldTheorems, TLAPS

(* A partial function on the slots, as the dictionaries of the code are.   *)
Partial(S) == UNION { [D -> S] : D \in SUBSET Slots }

VllmTypes ==
  /\ status \in [Requests -> {"waiting", "running", "preempted", "finished"}]
  /\ table \in [Requests -> Seq(Slots)] /\ ready \in [Requests -> 0..MaxBlocks]
  /\ \A r \in Requests : Len(table[r]) <= MaxBlocks
  /\ \A r \in Running : Len(table[r]) >= 1
  /\ \A r \in Requests \ Running : table[r] = << >>
  /\ kv \in [Slots -> Contents]

(* No slot is given to two running requests.                               *)
SlotsDisjoint ==
  \A r, q \in Running : r # q => ToSet(table[r]) \cap ToSet(table[q]) = {}

(* Between two scheduling steps a plan collects a remap only.              *)
Plans == [grace : {{}}, compress : {{}}, restore : {{}}, remap : Partial(Slots)]

SchedTypes ==
  /\ reqBlocks \in [Requests -> Seq(Slots)]
  /\ prevTier \in [Requests -> Partial(TierNames)]
  /\ forceRestore \in [Requests -> SUBSET Slots]
  /\ plan \in Plans

WorkerTypes == grace \in Partial(Contents) /\ compressed \in Partial(Contents)
               /\ DOMAIN state \subseteq Slots

Moves(m) ==
  m.grace \cup m.compress \cup m.restore \subseteq Slots /\ m.remap \in Partial(Slots)

(* No slot is asked to move in two ways.                                   *)
Apart(m) == m.grace \cap m.compress = {} /\ m.restore \cap (m.grace \cup m.compress) = {}

(* The block table the scheduler adds up from vLLM's deltas is the one     *)
(* vLLM has, but for preempted requests and those with slots they lost.    *)
TableTracked ==
  \A r \in Requests : status[r] # "preempted" /\ ~Stale(r) => reqBlocks[r] = table[r]

NoneStale == \A r \in Requests : ~Stale(r)

StepTypes ==
  /\ route \in Routes /\ reuse \in ReuseModes /\ phase \in {"plan", "load", "save"}
  /\ batch \subseteq Running /\ (phase = "plan" => batch = {})
  /\ Moves(meta) /\ (NoneStale => Apart(meta))

ConnectorInv ==
  VllmTypes /\ SlotsDisjoint /\ SchedTypes /\ TableTracked /\ WorkerTypes /\ StepTypes

-----------------------------------------------------------------------------
LEMMA PartialIs ==
  ASSUME NEW S, NEW f
  PROVE  f \in Partial(S) <=> /\ f = [s \in DOMAIN f |-> f[s]] /\ DOMAIN f \subseteq Slots
                              /\ \A s \in DOMAIN f : f[s] \in S
<1>1. ASSUME f \in Partial(S)
      PROVE  /\ f = [s \in DOMAIN f |-> f[s]] /\ DOMAIN f \subseteq Slots
             /\ \A s \in DOMAIN f : f[s] \in S
  <2>1. PICK D \in SUBSET Slots : f \in [D -> S]
    BY <1>1 DEF Partial
  <2> QED
    BY <2>1
<1>2. ASSUME f = [s \in DOMAIN f |-> f[s]], DOMAIN f \subseteq Slots, \A s \in DOMAIN f : f[s] \in S
      PROVE  f \in Partial(S)
  <2>1. f \in [DOMAIN f -> S]
    BY <1>2
  <2> QED
    BY <1>2, <2>1 DEF Partial
<1> QED
  BY <1>1, <1>2

LEMMA NoBlocksPartial == ASSUME NEW S PROVE NoBlocks \in Partial(S)
<1>1. NoBlocks \in [{} -> S] /\ {} \in SUBSET Slots
  BY DEF NoBlocks
<1> QED
  BY <1>1 DEF Partial

LEMMA SlotSet ==
  ASSUME NEW b \in Seq(Slots)
  PROVE  /\ ToSet(b) \subseteq Slots /\ \A s \in ToSet(b) : \E i \in 1..Len(b) : b[i] = s
         /\ \A i \in 1..Len(b) : b[i] \in ToSet(b)
  BY DEF ToSet

(* A slot of a table has a last place in it.                               *)
LEMMA LastPlace ==
  ASSUME NEW b \in Seq(Slots), NEW s \in ToSet(b)
  PROVE  LastAt(b, s) \in 1..Len(b) /\ b[LastAt(b, s)] = s
<1> DEFINE n == Len(b)
           T == { n - i : i \in { k \in 1..n : b[k] = s } }
<1>1. n \in Nat
  OBVIOUS
<1>2. T \subseteq Nat /\ T # {}
  <2>1. PICK k \in 1..n : b[k] = s
    BY SlotSet
  <2> QED
    BY <1>1, <2>1
<1>3. PICK least \in T : \A m \in T : least <= m
  BY <1>2, LeastNat
<1>4. PICK i \in 1..n : b[i] = s /\ least = n - i
  BY <1>3
<1>5. \A j \in (i + 1)..n : b[j] # s
  <2> SUFFICES ASSUME NEW j \in (i + 1)..n, b[j] = s PROVE FALSE
    OBVIOUS
  <2>1. j \in 1..n /\ n - j < n - i
    BY <1>1, <1>4
  <2>2. n - j \in T
    BY <2>1
  <2>3. least <= n - j
    BY <1>3, <2>2
  <2> HIDE DEF n, T
  <2> QED
    BY <1>1, <1>4, <2>1, <2>3
<1>6. \E i1 \in 1..n : b[i1] = s /\ \A j \in (i1 + 1)..n : b[j] # s
  BY <1>4, <1>5
<1> QED
  BY <1>6 DEF LastAt

(* What the policy says of a block is a tier the worker has.               *)
LEMMA AssignTiers ==
  ASSUME NEW r \in Requests, NEW blocks \in Seq(Slots)
  PROVE  Assign(r, blocks) \in [ToSet(blocks) -> TierNames]
<1> DEFINE n == Len(blocks)
           place == Place(PolicyFor(n), Ranking(r, n), NORMAL)
<1>1. n \in Nat
  OBVIOUS
<1>2. Len(Ranking(r, n)) = n
  BY <1>1 DEF Ranking
<1>3. \A i \in 1..n : place[i] \in {"T0", "T1", "T2", "T3"}
  BY <1>2 DEF Place
<1>4. \A t \in {"T0", "T1", "T2", "T3"} : TierName[t] \in TierNames
  BY DEF TierName, TierNames
<1>5. ASSUME NEW s \in ToSet(blocks)
      PROVE  (IF n <= NSink + NWindow THEN "hbm"
              ELSE TierName[place[LastAt(blocks, s)]]) \in TierNames
  <2>1. LastAt(blocks, s) \in 1..n
    BY LastPlace
  <2> HIDE DEF place
  <2>2. place[LastAt(blocks, s)] \in {"T0", "T1", "T2", "T3"}
    BY <1>3, <2>1
  <2> QED
    BY <1>4, <2>2 DEF TierNames
<1> HIDE DEF place
<1> QED
  BY <1>5 DEF Assign, place

LEMMA WantedTiers ==
  ASSUME NEW r \in Requests, NEW blocks \in Seq(Slots)
  PROVE  Wanted(r, blocks) \in [ToSet(blocks) -> TierNames]
  BY AssignTiers DEF Wanted, TierNames

LEMMA UpdatedPartial ==
  ASSUME NEW S, NEW f \in Partial(S), NEW g \in Partial(S)
  PROVE  Updated(f, g) \in Partial(S)
<1>1. /\ DOMAIN f \subseteq Slots /\ DOMAIN g \subseteq Slots
      /\ \A s \in DOMAIN f : f[s] \in S
      /\ \A s \in DOMAIN g : g[s] \in S
  BY PartialIs
<1>2. Updated(f, g) \in [DOMAIN f \cup DOMAIN g -> S]
  BY <1>1 DEF Updated
<1>3. DOMAIN f \cup DOMAIN g \in SUBSET Slots
  BY <1>1
<1> QED
  BY <1>2, <1>3 DEF Partial

LEMMA WithoutPartial ==
  ASSUME NEW S, NEW f \in Partial(S), NEW gone
  PROVE  Without(f, gone) \in Partial(S)
<1>1. DOMAIN f \subseteq Slots /\ \A s \in DOMAIN f : f[s] \in S
  BY PartialIs
<1>2. Without(f, gone) \in [DOMAIN f \ gone -> S] /\ DOMAIN f \ gone \in SUBSET Slots
  BY <1>1 DEF Without
<1> QED
  BY <1>2 DEF Partial

LEMMA RekeyPartial ==
  ASSUME NEW S, NEW f \in Partial(S), NEW remap \in Partial(Slots)
  PROVE  Rekey(f, remap) \in Partial(S)
<1> DEFINE from == DOMAIN f \cap DOMAIN remap
           stay == [s \in DOMAIN f \ from |-> f[s]]
           moved == [t \in { remap[s] : s \in from } |-> f[CHOOSE s \in from : remap[s] = t]]
<1>1. /\ DOMAIN f \subseteq Slots /\ \A s \in DOMAIN f : f[s] \in S
      /\ \A s \in DOMAIN remap : remap[s] \in Slots
  BY PartialIs
<1>2. stay \in Partial(S)
  <2>1. stay \in [DOMAIN f \ from -> S] /\ DOMAIN f \ from \in SUBSET Slots
    BY <1>1
  <2> QED
    BY <2>1 DEF Partial
<1>3. moved \in Partial(S)
  <2>1. { remap[s] : s \in from } \in SUBSET Slots
    BY <1>1
  <2>2. \A t \in { remap[s] : s \in from } : (CHOOSE s \in from : remap[s] = t) \in from
    OBVIOUS
  <2>3. moved \in [{ remap[s] : s \in from } -> S]
    BY <1>1, <2>2
  <2> QED
    BY <2>1, <2>3 DEF Partial
<1>4. Rekey(f, remap) = Updated(stay, moved)
  BY DEF Rekey
<1> HIDE DEF stay, moved
<1> QED
  BY <1>2, <1>3, <1>4, UpdatedPartial

LEMMA PositionalPartial ==
  ASSUME NEW old \in Seq(Slots), NEW new \in Seq(Slots)
  PROVE  PositionalRemap(old, new) \in Partial(Slots)
<1> DEFINE n == IF Len(old) < Len(new) THEN Len(old) ELSE Len(new)
           ks == { k \in 1..n : old[k] # new[k] }
<1>1. \A k \in ks : old[k] \in Slots /\ new[k] \in Slots
  <2>1. \A k \in 1..n : k \in 1..Len(old) /\ k \in 1..Len(new)
    OBVIOUS
  <2> QED
    BY <2>1
<1>2. \A s \in { old[k] : k \in ks } : (CHOOSE k \in ks : old[k] = s) \in ks
  OBVIOUS
<1> HIDE DEF ks
<1>3. PositionalRemap(old, new) = [s \in { old[k] : k \in ks } |-> new[CHOOSE k \in ks : old[k] = s]]
  BY DEF PositionalRemap, ks
<1>4. PositionalRemap(old, new) \in [{ old[k] : k \in ks } -> Slots]
  BY <1>1, <1>2, <1>3
<1>5. { old[k] : k \in ks } \in SUBSET Slots
  BY <1>1
<1> QED
  BY <1>4, <1>5 DEF Partial

LEMMA BeforeTier ==
  ASSUME SchedTypes, NEW r \in Requests, NEW s
  PROVE  Before(r, s) \in TierNames
<1>1. prevTier[r] \in Partial(TierNames)
  BY DEF SchedTypes
<1>2. \A x \in DOMAIN prevTier[r] : prevTier[r][x] \in TierNames
  BY <1>1, PartialIs
<1> QED
  BY <1>2 DEF Before, TierNames

LEMMA CarriedPartial ==
  ASSUME SchedTypes, NEW r \in Requests, NEW new \in Seq(Slots)
  PROVE  CarriedTiers(r, new) \in Partial(TierNames)
<1>1. CASE PositionalRemap(reqBlocks[r], new) = NoBlocks
  BY <1>1 DEF CarriedTiers, SchedTypes
<1>2. CASE PositionalRemap(reqBlocks[r], new) # NoBlocks
  <2> DEFINE n == IF Len(reqBlocks[r]) < Len(new) THEN Len(reqBlocks[r]) ELSE Len(new)
             D == { new[k] : k \in 1..n }
             f == [s \in D |-> Before(r, reqBlocks[r][CHOOSE k \in 1..n : new[k] = s])]
  <2>1. CarriedTiers(r, new) = f
    BY <1>2 DEF CarriedTiers
  <2>2. f \in [D -> TierNames]
    BY BeforeTier
  <2>3. D \in SUBSET Slots
    <3>1. reqBlocks[r] \in Seq(Slots)
      BY DEF SchedTypes
    <3>2. \A k \in 1..n : k \in 1..Len(new)
      BY <3>1
    <3> QED
      BY <3>2
  <2> HIDE DEF D, f
  <2> QED
    BY <2>1, <2>2, <2>3 DEF Partial
<1> QED
  BY <1>1, <1>2

-----------------------------------------------------------------------------
(* What a scheduling step moves to tier t.                                 *)
AllMovedTo(blocks, active, t) == UNION { MovedTo(r, blocks[r], t) : r \in active }

LEMMA MovesInSlots ==
  ASSUME NEW blocks \in [Requests -> Seq(Slots)], NEW active \in SUBSET Requests, NEW t \in TierNames
  PROVE  AllMovedTo(blocks, active, t) \subseteq Slots
<1> SUFFICES ASSUME NEW s \in AllMovedTo(blocks, active, t) PROVE s \in Slots
  OBVIOUS
<1>1. PICK r \in active : s \in MovedTo(r, blocks[r], t)
  BY DEF AllMovedTo
<1>2. s \in ToSet(blocks[r]) /\ blocks[r] \in Seq(Slots)
  BY <1>1 DEF MovedTo
<1> QED
  BY <1>2, SlotSet

(* A scheduling step over requests whose slots are disjoint asks at most   *)
(* one move of a slot.                                                     *)
LEMMA MovesApart ==
  ASSUME NEW blocks \in [Requests -> Seq(Slots)], NEW active \in SUBSET Requests,
         \A r, q \in active : r # q => ToSet(blocks[r]) \cap ToSet(blocks[q]) = {},
         NEW t \in TierNames, NEW u \in TierNames, t # u
  PROVE  AllMovedTo(blocks, active, t) \cap AllMovedTo(blocks, active, u) = {}
<1> DEFINE T == AllMovedTo(blocks, active, t)
           U == AllMovedTo(blocks, active, u)
<1>1. \A r \in active : MovedTo(r, blocks[r], t) \subseteq ToSet(blocks[r])
                      /\ MovedTo(r, blocks[r], u) \subseteq ToSet(blocks[r])
  BY DEF MovedTo
<1>2. ASSUME NEW s \in T, s \in U
      PROVE  FALSE
  <2>1. PICK r \in active : s \in MovedTo(r, blocks[r], t)
    BY DEF AllMovedTo
  <2>2. PICK q \in active : s \in MovedTo(q, blocks[q], u)
    BY <1>2 DEF AllMovedTo
  <2>3. r = q
    BY <1>1, <2>1, <2>2
  <2> QED
    BY <2>1, <2>2, <2>3 DEF MovedTo
<1> QED
  BY <1>2

(* build_connector_meta() keeps the scheduler's tables well formed, and    *)
(* what it hands to the worker as well.                                    *)
LEMMA MetaBuilt ==
  ASSUME ConnectorInv,
         NEW blocks \in [Requests -> Seq(Slots)], NEW active \in SUBSET Requests,
         NoneStale' => \A r, q \in active : r # q => ToSet(blocks[r]) \cap ToSet(blocks[q]) = {},
         BuildConnectorMeta(blocks, active)
  PROVE  /\ SchedTypes' /\ Moves(meta') /\ (NoneStale' => Apart(meta'))
         /\ reqBlocks' = blocks /\ batch' = active /\ phase' = "load"
<1>1. /\ reqBlocks' = blocks /\ batch' = active /\ phase' = "load" /\ plan' = EmptyPlan
      /\ prevTier' = [r \in Requests |->
                        IF r \in active THEN Wanted(r, blocks[r]) ELSE prevTier[r]]
      /\ forceRestore' = [r \in Requests |-> IF r \in active THEN {} ELSE forceRestore[r]]
  BY DEF BuildConnectorMeta
<1>2. \A r \in Requests : Wanted(r, blocks[r]) \in Partial(TierNames)
  <2> SUFFICES ASSUME NEW r \in Requests PROVE Wanted(r, blocks[r]) \in Partial(TierNames)
    OBVIOUS
  <2>1. Wanted(r, blocks[r]) \in [ToSet(blocks[r]) -> TierNames]
    BY WantedTiers
  <2>2. ToSet(blocks[r]) \in SUBSET Slots
    BY SlotSet
  <2> QED
    BY <2>1, <2>2 DEF Partial
<1>3. plan' \in Plans
  BY <1>1, NoBlocksPartial DEF EmptyPlan, Plans
<1>4. SchedTypes'
  BY <1>1, <1>2, <1>3 DEF SchedTypes, ConnectorInv
<1> DEFINE G == AllMovedTo(blocks, active, "grace")
           C == AllMovedTo(blocks, active, "compressed")
           R == AllMovedTo(blocks, active, "hbm")
<1>5. "grace" \in TierNames /\ "compressed" \in TierNames /\ "hbm" \in TierNames
  BY DEF TierNames
<1>6. G \subseteq Slots /\ C \subseteq Slots /\ R \subseteq Slots
  BY <1>5, MovesInSlots
<1>7. NoneStale' => G \cap C = {} /\ C \cap R = {} /\ R \cap G = {}
  <2> SUFFICES ASSUME NoneStale' PROVE G \cap C = {} /\ C \cap R = {} /\ R \cap G = {}
    OBVIOUS
  <2>1. \A r, q \in active : r # q => ToSet(blocks[r]) \cap ToSet(blocks[q]) = {}
    OBVIOUS
  <2>2. G \cap C = {}
    BY <1>5, <2>1, MovesApart
  <2>3. C \cap R = {}
    BY <1>5, <2>1, MovesApart
  <2>4. R \cap G = {}
    BY <1>5, <2>1, MovesApart
  <2> QED
    BY <2>2, <2>3, <2>4
<1>8. meta'.grace = G /\ meta'.compress = C /\ meta'.restore = R /\ meta'.remap = plan.remap
  BY DEF BuildConnectorMeta, AllMovedTo
<1>9. plan.remap \in Partial(Slots)
  BY DEF ConnectorInv, SchedTypes, Plans
<1> HIDE DEF G, C, R
<1>10. Moves(meta')
  BY <1>6, <1>8, <1>9 DEF Moves
<1>11. NoneStale' => Apart(meta')
  BY <1>7, <1>8 DEF Apart
<1> QED
  BY <1>1, <1>4, <1>10, <1>11

-----------------------------------------------------------------------------
LEMMA ConnectorStart == Init => ConnectorInv
<1> SUFFICES ASSUME Init PROVE ConnectorInv
  OBVIOUS
<1>1. VllmTypes
  BY ConnectorAssumption DEF Init, VllmTypes, Running, Contents
<1>2. SlotsDisjoint /\ TableTracked
  BY DEF Init, SlotsDisjoint, TableTracked, Running, Stale
<1>3. SchedTypes
  <2>1. NoBlocks \in Partial(TierNames) /\ NoBlocks \in Partial(Slots)
    BY NoBlocksPartial
  <2> QED
    BY <2>1, ConnectorAssumption DEF Init, SchedTypes, EmptyPlan, Plans
<1>4. WorkerTypes
  BY NoBlocksPartial DEF Init, WorkerTypes, NoBlocks
<1>5. StepTypes
  BY NoBlocksPartial DEF Init, StepTypes, Moves, Apart, EmptyPlan
<1> QED
  BY <1>1, <1>2, <1>3, <1>4, <1>5 DEF ConnectorInv

LEMMA PromptSlots ==
  ASSUME NEW ids \in Prompts
  PROVE  ids \in Seq(Slots) /\ Len(ids) \in 1..MaxBlocks /\ Len(ids) <= MaxBlocks /\ Len(ids) >= 1
  BY ConnectorAssumption

(* A free slot is no running request's.                                    *)
LEMMA FreeIsFree ==
  ASSUME NEW s \in FreeSlots
  PROVE  s \in Slots /\ \A r \in Running : s \notin ToSet(table[r])
  BY DEF FreeSlots

(* A request that is given slots nobody has keeps the tables disjoint.     *)
LEMMA GrownDisjoint ==
  ASSUME ConnectorInv, NEW r \in Requests, NEW new \in Seq(Slots),
         table' = [table EXCEPT ![r] = new],
         Running' = Running \cup {r},
         \A q \in Running \ {r} : ToSet(new) \cap ToSet(table[q]) = {}
  PROVE  SlotsDisjoint'
<1> SUFFICES ASSUME NEW p \in Running', NEW q \in Running', p # q
             PROVE  ToSet(table'[p]) \cap ToSet(table'[q]) = {}
  BY DEF SlotsDisjoint
<1>1. table'[r] = new /\ \A x \in Requests \ {r} : table'[x] = table[x]
  BY DEF ConnectorInv, VllmTypes
<1>2. Running \subseteq Requests
  BY DEF Running
<1>3. CASE p = r
  BY <1>1, <1>2, <1>3
<1>4. CASE q = r
  <2>1. ToSet(new) \cap ToSet(table[p]) = {}
    BY <1>4
  <2> QED
    BY <1>1, <1>2, <1>4, <2>1
<1>5. CASE p # r /\ q # r
  BY <1>1, <1>2, <1>5 DEF ConnectorInv, SlotsDisjoint
<1> QED
  BY <1>3, <1>4, <1>5

(* Slots lost stay listed.                                                 *)
LEMMA StaleStays ==
  ASSUME UNCHANGED reuse, resumed \subseteq resumed'
  PROVE  /\ \A q : Stale(q) => Stale(q)'
         /\ NoneStale' => NoneStale
  BY DEF Stale, NoneStale

(* A request starts or goes on in slots of its own.  It is listed with     *)
(* them alone unless it has slots that it lost.                            *)
LEMMA InScheduled ==
  ASSUME ConnectorInv, NEW r \in Requests \ Running, NEW ids \in Prompts, NEW mine \in Seq(Slots),
         ScheduleIn(r, ids, mine), resumed \subseteq resumed', resumed' \subseteq resumed \cup {r},
         mine = ids \/ Stale(r)'
  PROVE  ConnectorInv'
<1>1. PICK active \in SUBSET Running :
        BuildConnectorMeta([reqBlocks EXCEPT ![r] = mine], active \cup {r})
  BY DEF ScheduleIn
<1>2. /\ ToSet(ids) \subseteq FreeSlots /\ table' = [table EXCEPT ![r] = ids]
      /\ status' = [status EXCEPT ![r] = "running"]
      /\ UNCHANGED <<route, reuse, ready, kv, grace, compressed, state>>
  BY DEF ScheduleIn, workerVars
<1> DEFINE blocks == [reqBlocks EXCEPT ![r] = mine]
           planned == active \cup {r}
<1>3. ids \in Seq(Slots) /\ Len(ids) <= MaxBlocks /\ Len(ids) >= 1
  BY PromptSlots
<1>4. Running' = Running \cup {r} /\ r \notin Running /\ Running \subseteq Requests
  BY <1>2 DEF Running, ConnectorInv, VllmTypes
<1>5. \A q \in Running : ToSet(ids) \cap ToSet(table[q]) = {}
  BY <1>2, FreeIsFree
<1>6. blocks \in [Requests -> Seq(Slots)] /\ planned \in SUBSET Requests
  BY <1>4 DEF ConnectorInv, SchedTypes
<1>7. NoneStale' => blocks[r] = ids /\ \A q \in Running : blocks[q] = table[q]
  <2> SUFFICES ASSUME NoneStale' PROVE blocks[r] = ids /\ \A q \in Running : blocks[q] = table[q]
    OBVIOUS
  <2>1. mine = ids
    BY DEF NoneStale
  <2>2. \A q \in Running : status[q] # "preempted" /\ q # r /\ ~Stale(q)
    BY <1>2, <1>4, StaleStays DEF Running, NoneStale
  <2> QED
    BY <1>4, <2>1, <2>2 DEF ConnectorInv, SchedTypes, TableTracked
<1>8. NoneStale' => \A p, q \in planned : p # q => ToSet(blocks[p]) \cap ToSet(blocks[q]) = {}
  <2> SUFFICES ASSUME NoneStale', NEW p \in planned, NEW q \in planned, p # q
               PROVE  ToSet(blocks[p]) \cap ToSet(blocks[q]) = {}
    OBVIOUS
  <2>1. CASE p = r
    BY <1>5, <1>7, <2>1
  <2>2. CASE q = r
    <3>1. ToSet(ids) \cap ToSet(table[p]) = {}
      BY <1>5, <2>2
    <3> QED
      BY <1>7, <2>2, <3>1
  <2>3. CASE p # r /\ q # r
    BY <1>7, <2>3 DEF ConnectorInv, SlotsDisjoint
  <2> QED
    BY <2>1, <2>2, <2>3
<1> HIDE DEF blocks, planned
<1>9. /\ SchedTypes' /\ Moves(meta') /\ (NoneStale' => Apart(meta'))
      /\ reqBlocks' = blocks /\ batch' = planned /\ phase' = "load"
  <2>1. BuildConnectorMeta(blocks, planned)
    BY <1>1 DEF blocks, planned
  <2> QED
    BY <1>6, <1>8, <2>1, MetaBuilt
<1>10. VllmTypes'
  <2>1. /\ table' \in [Requests -> Seq(Slots)]
        /\ \A q \in Requests : Len(table'[q]) <= MaxBlocks
        /\ \A q \in Running' : Len(table'[q]) >= 1
        /\ \A q \in Requests \ Running' : table'[q] = << >>
    BY <1>2, <1>3, <1>4 DEF ConnectorInv, VllmTypes
  <2> QED
    BY <1>2, <2>1 DEF ConnectorInv, VllmTypes
<1>11. SlotsDisjoint'
  BY <1>2, <1>3, <1>4, <1>5, GrownDisjoint
<1>12. TableTracked'
  <2> SUFFICES ASSUME NEW q \in Requests, status'[q] # "preempted", ~Stale(q)'
               PROVE  reqBlocks'[q] = table'[q]
    BY DEF TableTracked
  <2>1. CASE q = r
    BY <1>2, <1>9, <2>1 DEF ConnectorInv, VllmTypes, SchedTypes, blocks
  <2>2. CASE q # r
    <3>1. /\ status[q] # "preempted" /\ reqBlocks'[q] = reqBlocks[q] /\ table'[q] = table[q]
          /\ ~Stale(q)
      BY <1>2, <1>9, <2>2, StaleStays DEF ConnectorInv, VllmTypes, SchedTypes, blocks
    <3> QED
      BY <3>1 DEF ConnectorInv, TableTracked
  <2> QED
    BY <2>1, <2>2
<1>13. WorkerTypes' /\ StepTypes'
  BY <1>2, <1>4, <1>9 DEF ConnectorInv, WorkerTypes, StepTypes, planned
<1> QED
  BY <1>9, <1>10, <1>11, <1>12, <1>13 DEF ConnectorInv

LEMMA ConcatSlots ==
  ASSUME NEW b \in Seq(Slots), NEW c \in Seq(Slots)
  PROVE  /\ b \o c \in Seq(Slots)
         /\ \A s \in ToSet(b \o c) : s \in ToSet(b) \/ s \in ToSet(c)
<1> DEFINE d == b \o c
<1>1. /\ d \in Seq(Slots) /\ Len(d) = Len(b) + Len(c) /\ Len(b) \in Nat /\ Len(c) \in Nat
      /\ \A k \in 1..Len(d) : d[k] = IF k <= Len(b) THEN b[k] ELSE c[k - Len(b)]
  OBVIOUS
<1> HIDE DEF d
<1>2. ASSUME NEW s \in ToSet(d) PROVE s \in ToSet(b) \/ s \in ToSet(c)
  <2>1. PICK k \in 1..Len(d) : d[k] = s
    BY <1>1, SlotSet
  <2>2. CASE k <= Len(b)
    <3>1. k \in 1..Len(b) /\ s = b[k]
      BY <1>1, <2>1, <2>2
    <3> QED
      BY <3>1, SlotSet
  <2>3. CASE ~(k <= Len(b))
    <3>1. k - Len(b) \in 1..Len(c) /\ s = c[k - Len(b)]
      BY <1>1, <2>1, <2>3
    <3> QED
      BY <3>1, SlotSet
  <2> QED
    BY <2>2, <2>3
<1> QED
  BY <1>1, <1>2 DEF d

(* The two ways into it: a new request, and a preempted one of which       *)
(* nothing was matched.                                                    *)
LEMMA StartIsIn ==
  ASSUME ConnectorInv, NEW r \in Requests, ScheduleNew(r) \/ ScheduleResumed(r)
  PROVE  /\ phase = "plan" /\ r \notin Running
         /\ resumed \subseteq resumed' /\ resumed' \subseteq resumed \cup {r}
         /\ \E ids \in Prompts, mine \in Seq(Slots) :
              /\ ScheduleIn(r, ids, mine)
              /\ \/ mine = ids /\ status[r] = "waiting"
                 \/ mine = reqBlocks[r] \o ids /\ Stale(r)'
<1>1. CASE ScheduleNew(r)
  BY <1>1, PromptSlots DEF ScheduleNew, Running
<1>2. CASE ScheduleResumed(r)
  <2>1. PICK ids \in Prompts : /\ Len(ids) = Len(reqBlocks[r])
                               /\ ScheduleIn(r, ids, reqBlocks[r] \o ids)
    BY <1>2 DEF ScheduleResumed
  <2>2. /\ phase = "plan" /\ status[r] = "preempted" /\ Matched(r, 0) = 0
        /\ resumed' = resumed \cup {r}
    BY <1>2 DEF ScheduleResumed
  <2>3. ids \in Seq(Slots) /\ Len(ids) >= 1 /\ reqBlocks[r] \in Seq(Slots)
    BY PromptSlots DEF ConnectorInv, SchedTypes
  <2>4. ~reuse
    BY <2>1, <2>2, <2>3 DEF Matched
  <2>5. Stale(r)'
    BY <2>1, <2>2, <2>4 DEF Stale, ScheduleIn
  <2>6. reqBlocks[r] \o ids \in Seq(Slots)
    BY <2>3, ConcatSlots
  <2> QED
    BY <2>1, <2>2, <2>5, <2>6 DEF Running
<1> QED
  BY <1>1, <1>2

LEMMA NewScheduled ==
  ASSUME ConnectorInv, NEW r \in Requests, ScheduleNew(r) \/ ScheduleResumed(r)
  PROVE  ConnectorInv'
  BY StartIsIn, InScheduled

LEMMA Appended ==
  ASSUME NEW b \in Seq(Slots), NEW s \in Slots
  PROVE  /\ Append(b, s) \in Seq(Slots) /\ Len(Append(b, s)) = Len(b) + 1
         /\ ToSet(Append(b, s)) \subseteq ToSet(b) \cup {s}
  BY DEF ToSet

LEMMA DecodeScheduled ==
  ASSUME ConnectorInv, NEW active \in SUBSET Requests, ScheduleDecode(active)
  PROVE  ConnectorInv'
<1>1. /\ active \in SUBSET Running /\ Running \subseteq Requests
      /\ UNCHANGED <<route, reuse, resumed, status, ready, kv, grace, compressed, state>>
  BY DEF ScheduleDecode, workerVars, Running
<1>2. \A q \in Running : ~Stale(q) => reqBlocks[q] = table[q]
  BY <1>1 DEF ConnectorInv, TableTracked, Running
<1>3. Running' = Running /\ (NoneStale' <=> NoneStale) /\ \A q : Stale(q)' <=> Stale(q)
  BY <1>1 DEF Running, Stale, NoneStale
<1>4. CASE BuildConnectorMeta(reqBlocks, active) /\ UNCHANGED <<table, heldBy>>
  <2>1. NoneStale' => \A p, q \in active : p # q => ToSet(reqBlocks[p]) \cap ToSet(reqBlocks[q]) = {}
    BY <1>1, <1>2, <1>3 DEF ConnectorInv, SlotsDisjoint, NoneStale
  <2>2. /\ SchedTypes' /\ Moves(meta') /\ (NoneStale' => Apart(meta'))
        /\ reqBlocks' = reqBlocks /\ batch' = active /\ phase' = "load"
    BY <1>1, <1>4, <2>1, MetaBuilt DEF ConnectorInv, SchedTypes
  <2>3. VllmTypes' /\ SlotsDisjoint' /\ TableTracked' /\ WorkerTypes' /\ StepTypes'
    BY <1>1, <1>3, <1>4, <2>2
       DEF ConnectorInv, VllmTypes, SlotsDisjoint, TableTracked, WorkerTypes, StepTypes
  <2> QED
    BY <2>2, <2>3 DEF ConnectorInv
<1>5. ASSUME NEW r \in active, Len(table[r]) < MaxBlocks, NEW s \in FreeSlots,
             table' = [table EXCEPT ![r] = Append(@, s)],
             BuildConnectorMeta([reqBlocks EXCEPT ![r] = Append(@, s)], active)
      PROVE  ConnectorInv'
  <2> DEFINE blocks == [reqBlocks EXCEPT ![r] = Append(@, s)]
             new == Append(table[r], s)
             mine == Append(reqBlocks[r], s)
  <2>1. s \in Slots /\ \A q \in Running : s \notin ToSet(table[q])
    BY FreeIsFree
  <2>2. /\ table[r] \in Seq(Slots) /\ reqBlocks[r] \in Seq(Slots)
        /\ Len(table[r]) \in Nat /\ r \in Running /\ r \in Requests
    BY <1>1 DEF ConnectorInv, VllmTypes, SchedTypes
  <2>3. /\ new \in Seq(Slots) /\ Len(new) = Len(table[r]) + 1
        /\ ToSet(new) \subseteq ToSet(table[r]) \cup {s}
        /\ mine \in Seq(Slots)
    BY <2>1, <2>2, Appended
  <2>4. reqBlocks[r] = table[r] => mine = new
    OBVIOUS
  <2> HIDE DEF new, mine
  <2>5. table' = [table EXCEPT ![r] = new] /\ blocks = [reqBlocks EXCEPT ![r] = mine]
    BY <1>5, <2>2 DEF new, mine
  <2> HIDE DEF blocks
  <2>6. SlotsDisjoint'
    <3>1. Running' = Running \cup {r}
      BY <1>3, <2>2
    <3>2. \A q \in Running \ {r} : ToSet(new) \cap ToSet(table[q]) = {}
      BY <2>1, <2>2, <2>3 DEF ConnectorInv, SlotsDisjoint
    <3> QED
      BY <2>2, <2>3, <2>5, <3>1, <3>2, GrownDisjoint
  <2>7. /\ table' \in [Requests -> Seq(Slots)]
        /\ \A q \in Requests : Len(table'[q]) <= MaxBlocks
        /\ \A q \in Running' : Len(table'[q]) >= 1
        /\ \A q \in Requests \ Running' : table'[q] = << >>
    BY <1>1, <1>3, <1>5, <2>2, <2>3, <2>5, ConnectorAssumption DEF ConnectorInv, VllmTypes
  <2>8. /\ blocks \in [Requests -> Seq(Slots)]
        /\ \A q \in Requests : reqBlocks[q] = table[q] => blocks[q] = table'[q]
    <3>1. table \in [Requests -> Seq(Slots)] /\ reqBlocks \in [Requests -> Seq(Slots)]
      BY DEF ConnectorInv, VllmTypes, SchedTypes
    <3> QED
      BY <2>2, <2>3, <2>4, <2>5, <3>1
  <2>9. NoneStale' => \A p, q \in active : p # q => ToSet(blocks[p]) \cap ToSet(blocks[q]) = {}
    <3> SUFFICES ASSUME NoneStale', NEW p \in active, NEW q \in active, p # q
                 PROVE  ToSet(blocks[p]) \cap ToSet(blocks[q]) = {}
      OBVIOUS
    <3>1. \A x \in active : x \in Running' /\ blocks[x] = table'[x]
      BY <1>1, <1>2, <1>3, <2>8 DEF NoneStale
    <3> QED
      BY <2>6, <3>1 DEF SlotsDisjoint
  <2>10. /\ SchedTypes' /\ Moves(meta') /\ (NoneStale' => Apart(meta'))
         /\ reqBlocks' = blocks /\ batch' = active /\ phase' = "load"
    BY <1>5, <2>8, <2>9, MetaBuilt DEF blocks
  <2>11. TableTracked'
    BY <1>1, <1>3, <2>8, <2>10 DEF ConnectorInv, TableTracked
  <2>12. VllmTypes' /\ WorkerTypes' /\ StepTypes'
    BY <1>1, <1>3, <2>7, <2>10 DEF ConnectorInv, VllmTypes, WorkerTypes, StepTypes
  <2> QED
    BY <2>6, <2>10, <2>11, <2>12 DEF ConnectorInv
<1> QED
  BY <1>4, <1>5 DEF ScheduleDecode

LEMMA Resumed ==
  ASSUME ConnectorInv, NEW r \in Requests, Resume(r)
  PROVE  ConnectorInv'
<1>1. PICK new \in Prompts :
        /\ Len(new) = Len(reqBlocks[r]) /\ ToSet(new) \subseteq FreeSlots
        /\ Matched(r, 0) > 0
        /\ table' = [table EXCEPT ![r] = new]
        /\ ready' = [ready EXCEPT ![r] = Matched(r, 0) - 1]
        /\ NoteExternalMatch(r, new)
  BY DEF Resume
<1>2. /\ phase = "plan" /\ status[r] = "preempted" /\ status' = [status EXCEPT ![r] = "running"]
      /\ UNCHANGED <<route, reuse, kv, grace, compressed, state, meta, batch, phase>>
      /\ resumed \subseteq resumed'
  BY DEF Resume, workerVars, stepVars
<1>3. new \in Seq(Slots) /\ Len(new) <= MaxBlocks /\ Len(new) >= 1
  BY PromptSlots
<1>4. /\ Running' = Running \cup {r} /\ r \notin Running /\ Running \subseteq Requests
  BY <1>2 DEF Running, ConnectorInv, VllmTypes
<1>5. \A q \in Running : ToSet(new) \cap ToSet(table[q]) = {}
  BY <1>1, FreeIsFree
<1>6. SlotsDisjoint'
  BY <1>1, <1>3, <1>4, <1>5, GrownDisjoint
<1>7. Matched(r, 0) - 1 \in 0..MaxBlocks
  <2>1. Len(reqBlocks[r]) \in Nat /\ Len(reqBlocks[r]) <= MaxBlocks
    BY <1>1, <1>3 DEF ConnectorInv, SchedTypes
  <2> QED
    BY <1>1, <2>1, ConnectorAssumption DEF Matched
<1>8. VllmTypes'
  <2>1. /\ table' \in [Requests -> Seq(Slots)]
        /\ \A q \in Requests : Len(table'[q]) <= MaxBlocks
        /\ \A q \in Running' : Len(table'[q]) >= 1
        /\ \A q \in Requests \ Running' : table'[q] = << >>
    BY <1>1, <1>3, <1>4 DEF ConnectorInv, VllmTypes
  <2> QED
    BY <1>1, <1>2, <1>7, <2>1 DEF ConnectorInv, VllmTypes
<1> DEFINE carried == CarriedTiers(r, new)
           moved == PositionalRemap(reqBlocks[r], new)
           toRestore == { s \in DOMAIN carried : carried[s] # "hbm" }
<1>9. /\ carried \in Partial(TierNames) /\ moved \in Partial(Slots)
      /\ plan \in Plans /\ plan.remap \in Partial(Slots) /\ SchedTypes
  BY <1>3, CarriedPartial, PositionalPartial DEF ConnectorInv, SchedTypes, Plans
<1>10. /\ plan' = [plan EXCEPT !.remap = Updated(plan.remap, moved)]
       /\ prevTier' = [prevTier EXCEPT ![r] = carried]
       /\ reqBlocks' = [reqBlocks EXCEPT ![r] = new]
       /\ forceRestore' = [forceRestore EXCEPT ![r] = @ \cup toRestore]
  BY <1>1 DEF NoteExternalMatch
<1>11. toRestore \subseteq Slots
  <2>1. DOMAIN carried \subseteq Slots
    BY <1>9, PartialIs
  <2> QED
    BY <2>1
<1> HIDE DEF carried, moved, toRestore
<1>12. Updated(plan.remap, moved) \in Partial(Slots)
  BY <1>9, UpdatedPartial
<1>13. plan' \in Plans
  BY <1>9, <1>10, <1>12 DEF Plans
<1>14. SchedTypes'
  BY <1>3, <1>9, <1>10, <1>11, <1>13 DEF SchedTypes
<1>15. NoneStale' => NoneStale
  BY <1>2, StaleStays
<1>16. TableTracked'
  <2> SUFFICES ASSUME NEW q \in Requests, status'[q] # "preempted", ~Stale(q)'
               PROVE  reqBlocks'[q] = table'[q]
    BY DEF TableTracked
  <2>1. CASE q = r
    BY <1>1, <1>9, <1>10, <2>1 DEF ConnectorInv, VllmTypes, SchedTypes
  <2>2. CASE q # r
    <3>1. status[q] # "preempted" /\ ~Stale(q) /\ reqBlocks'[q] = reqBlocks[q] /\ table'[q] = table[q]
      BY <1>1, <1>2, <1>9, <1>10, <2>2, StaleStays DEF ConnectorInv, VllmTypes, SchedTypes
    <3> QED
      BY <3>1 DEF ConnectorInv, TableTracked
  <2> QED
    BY <2>1, <2>2
<1>17. WorkerTypes' /\ StepTypes'
  BY <1>2, <1>4, <1>15 DEF ConnectorInv, WorkerTypes, StepTypes
<1> QED
  BY <1>6, <1>8, <1>14, <1>16, <1>17 DEF ConnectorInv

(* A request that leaves its slots, with the tables it leaves behind.      *)
LEMMA SlotsLeft ==
  ASSUME ConnectorInv, NEW r \in Requests, Preempt(r) \/ RequestFinished(r)
  PROVE  ConnectorInv'
<1>1. /\ phase = "plan" /\ r \in Running /\ status' \in [Requests -> {"waiting", "running", "preempted", "finished"}]
      /\ status'[r] \in {"preempted", "finished"}
      /\ \A q \in Requests \ {r} : status'[q] = status[q]
      /\ table' = [table EXCEPT ![r] = << >>] /\ ready' = [ready EXCEPT ![r] = 0]
      /\ UNCHANGED <<route, reuse, resumed, kv, plan, grace, compressed, state, meta, batch, phase>>
  BY DEF Preempt, RequestFinished, ConnectorInv, VllmTypes, workerVars, stepVars, schedVars
<1>2. Running' = Running \ {r} /\ (NoneStale' <=> NoneStale) /\ \A q : Stale(q)' <=> Stale(q)
  BY <1>1 DEF Running, Stale, NoneStale
<1>3. VllmTypes'
  <2>1. << >> \in Seq(Slots) /\ Len(<< >>) = 0 /\ 0 \in 0..MaxBlocks /\ 0 <= MaxBlocks
    BY ConnectorAssumption
  <2> QED
    BY <1>1, <1>2, <2>1 DEF ConnectorInv, VllmTypes, Running
<1>4. SlotsDisjoint'
  <2>1. \A q \in Running' : table'[q] = table[q] /\ q \in Running
    BY <1>1, <1>2 DEF ConnectorInv, VllmTypes, Running
  <2> QED
    BY <2>1 DEF ConnectorInv, SlotsDisjoint
<1>5. SchedTypes' /\ TableTracked'
  <2>1. CASE Preempt(r)
    <3>1. /\ UNCHANGED <<reqBlocks, prevTier, forceRestore>> /\ status'[r] = "preempted"
      BY <2>1 DEF Preempt, schedVars, ConnectorInv, VllmTypes
    <3> QED
      BY <1>1, <1>2, <3>1 DEF ConnectorInv, SchedTypes, TableTracked, VllmTypes
  <2>2. CASE RequestFinished(r)
    <3>1. /\ reqBlocks' = [reqBlocks EXCEPT ![r] = << >>]
          /\ prevTier' = [prevTier EXCEPT ![r] = NoBlocks]
          /\ forceRestore' = [forceRestore EXCEPT ![r] = {}]
      BY <2>2 DEF RequestFinished
    <3>2. << >> \in Seq(Slots) /\ NoBlocks \in Partial(TierNames)
      BY NoBlocksPartial
    <3> QED
      BY <1>1, <1>2, <3>1, <3>2 DEF ConnectorInv, SchedTypes, TableTracked, VllmTypes
  <2> QED
    BY <2>1, <2>2
<1>6. WorkerTypes' /\ StepTypes'
  BY <1>1, <1>2 DEF ConnectorInv, WorkerTypes, StepTypes
<1> QED
  BY <1>3, <1>4, <1>5, <1>6 DEF ConnectorInv

(* A copy is moved or put back only between slots.                         *)
LEMMA Loaded ==
  ASSUME ConnectorInv, StartLoadKV
  PROVE  ConnectorInv'
<1> DEFINE g == Rekey(grace, meta.remap)
           c == Rekey(compressed, meta.remap)
           fromCompressed == meta.restore \cap DOMAIN c
           byHint == { s \in meta.restore \ fromCompressed :
                         s \in DOMAIN state /\ state[s] = "grace" }
           fromGrace == (meta.restore \cap DOMAIN g) \ (fromCompressed \cup byHint)
           hints == [s \in byHint |-> "hbm"]
<1>1. /\ kv' = [s \in Slots |->
                  IF s \in fromCompressed THEN c[s]
                  ELSE IF s \in fromGrace /\ route = "copyBack" THEN g[s]
                  ELSE kv[s]]
      /\ compressed' = Without(c, fromCompressed) /\ grace' = Without(g, fromGrace)
      /\ state' = Updated(state, hints)
  BY DEF StartLoadKV
<1>2. /\ phase' = "save"
      /\ UNCHANGED <<route, reuse, resumed, status, table, ready, reqBlocks, prevTier,
                     forceRestore, plan, meta, batch>>
  BY DEF StartLoadKV, schedVars
<1>3. /\ grace \in Partial(Contents) /\ compressed \in Partial(Contents)
      /\ meta.remap \in Partial(Slots) /\ meta.restore \subseteq Slots /\ DOMAIN state \subseteq Slots
  BY DEF ConnectorInv, WorkerTypes, StepTypes, Moves
<1>4. g \in Partial(Contents) /\ c \in Partial(Contents)
  BY <1>3, RekeyPartial
<1> HIDE DEF g, c
<1>5. /\ \A s \in fromCompressed : c[s] \in Contents
      /\ \A s \in fromGrace : g[s] \in Contents
  BY <1>4, PartialIs
<1>6. DOMAIN hints \subseteq Slots
  BY <1>3
<1> HIDE DEF fromCompressed, byHint, fromGrace, hints
<1>7. kv' \in [Slots -> Contents]
  BY <1>1, <1>5 DEF ConnectorInv, VllmTypes
<1>8. compressed' \in Partial(Contents) /\ grace' \in Partial(Contents)
  BY <1>1, <1>4, WithoutPartial
<1>9. DOMAIN state' \subseteq Slots
  BY <1>1, <1>3, <1>6 DEF Updated
<1>10. Running' = Running /\ (NoneStale' <=> NoneStale) /\ \A q : Stale(q)' <=> Stale(q)
  BY <1>2 DEF Running, Stale, NoneStale
<1>11. VllmTypes' /\ SlotsDisjoint' /\ SchedTypes' /\ TableTracked'
  BY <1>2, <1>7, <1>10 DEF ConnectorInv, VllmTypes, SlotsDisjoint, SchedTypes, TableTracked
<1>12. WorkerTypes' /\ StepTypes'
  BY <1>2, <1>8, <1>9, <1>10 DEF ConnectorInv, WorkerTypes, StepTypes
<1> QED
  BY <1>11, <1>12 DEF ConnectorInv

(* What the forward pass leaves in a slot is KV or nothing whole.          *)
LEMMA ForwardContents ==
  ASSUME ConnectorInv
  PROVE  AfterForward \in [Slots -> Contents]
<1> SUFFICES ASSUME NEW s \in Slots PROVE AfterForward[s] \in Contents
  BY DEF AfterForward
<1>1. CASE \E r \in batch : s \in Computed(r)
  <2> DEFINE r == CHOOSE q \in batch : s \in Computed(q)
             k == CHOOSE i \in 1..Len(table[r]) : table[r][i] = s
  <2>1. r \in batch /\ s \in Computed(r)
    BY <1>1
  <2>2. r \in Requests
    BY <2>1 DEF ConnectorInv, StepTypes, Running
  <2> HIDE DEF r
  <2>3. ready[r] \in Nat /\ Len(table[r]) \in Nat /\ Len(table[r]) <= MaxBlocks
    BY <2>2 DEF ConnectorInv, VllmTypes
  <2>4. \E i \in 1..Len(table[r]) : table[r][i] = s
    BY <2>1, <2>3 DEF Computed
  <2>5. k \in 1..Len(table[r])
    BY <2>4
  <2> HIDE DEF k
  <2>6. k \in 1..MaxBlocks
    BY <2>3, <2>5, ConnectorAssumption
  <2>7. AfterForward[s] = IF k = Len(table[r]) THEN None ELSE <<r, k>>
    BY <1>1 DEF AfterForward, r, k
  <2> QED
    BY <2>2, <2>6, <2>7 DEF Contents
<1>2. CASE ~ \E r \in batch : s \in Computed(r)
  BY <1>2 DEF AfterForward, ConnectorInv, VllmTypes
<1> QED
  BY <1>1, <1>2

LEMMA Saved ==
  ASSUME ConnectorInv, SaveKVLayer
  PROVE  ConnectorInv'
<1>1. /\ kv' = AfterForward
      /\ ready' = [r \in Requests |-> IF r \in batch THEN Len(table[r]) - 1 ELSE ready[r]]
      /\ meta' = EmptyPlan /\ batch' = {} /\ phase' = "plan"
      /\ UNCHANGED <<route, reuse, resumed, status, table, reqBlocks, prevTier, forceRestore, plan>>
  BY DEF SaveKVLayer, schedVars
<1>2. /\ Running' = Running /\ Running \subseteq Requests
      /\ (NoneStale' <=> NoneStale) /\ \A q : Stale(q)' <=> Stale(q)
  BY <1>1 DEF Running, Stale, NoneStale
<1>3. AfterForward \in [Slots -> Contents]
  BY ForwardContents
<1>4. ready' \in [Requests -> 0..MaxBlocks]
  <2>1. \A r \in batch : Len(table[r]) \in Nat /\ Len(table[r]) <= MaxBlocks /\ Len(table[r]) >= 1
    BY <1>2 DEF ConnectorInv, VllmTypes, StepTypes
  <2>2. \A r \in batch : Len(table[r]) - 1 \in 0..MaxBlocks
    BY <2>1, ConnectorAssumption
  <2> QED
    BY <1>1, <2>2 DEF ConnectorInv, VllmTypes
<1>5. /\ meta.grace \subseteq Slots /\ meta.compress \subseteq Slots
      /\ grace \in Partial(Contents) /\ compressed \in Partial(Contents)
      /\ DOMAIN state \subseteq Slots
  BY DEF ConnectorInv, WorkerTypes, StepTypes, Moves
<1>6. compressed' \in Partial(Contents)
  <2> DEFINE copies == [s \in meta.compress |-> AfterForward[s]]
  <2>1. copies \in [meta.compress -> Contents]
    BY <1>3, <1>5
  <2>2. copies \in Partial(Contents)
    BY <1>5, <2>1 DEF Partial
  <2>3. compressed' = Updated(compressed, copies)
    BY DEF SaveKVLayer
  <2> HIDE DEF copies
  <2> QED
    BY <1>5, <2>2, <2>3, UpdatedPartial
<1>7. grace' \in Partial(Contents) /\ DOMAIN state' \subseteq Slots
  <2>1. CASE route = "hint"
    <3> DEFINE hints == [s \in meta.grace |-> "grace"]
    <3>1. state' = Updated(state, hints) /\ grace' = grace
      BY <2>1 DEF SaveKVLayer
    <3>2. DOMAIN hints \subseteq Slots
      BY <1>5
    <3> HIDE DEF hints
    <3> QED
      BY <1>5, <3>1, <3>2 DEF Updated
  <2>2. CASE route # "hint"
    <3>1. PICK early \in SUBSET { s \in meta.grace : kv[s] # AfterForward[s] } :
            grace' = Updated(grace, [s \in meta.grace |->
                       IF s \in early THEN kv[s] ELSE AfterForward[s]])
      BY <2>2 DEF SaveKVLayer
    <3>2. state' = state
      BY <2>2 DEF SaveKVLayer
    <3> DEFINE copies == [s \in meta.grace |-> IF s \in early THEN kv[s] ELSE AfterForward[s]]
    <3>3. kv \in [Slots -> Contents]
      BY DEF ConnectorInv, VllmTypes
    <3>4. copies \in [meta.grace -> Contents]
      BY <1>3, <1>5, <3>3
    <3>5. copies \in Partial(Contents)
      BY <1>5, <3>4 DEF Partial
    <3> HIDE DEF copies
    <3>6. grace' = Updated(grace, copies)
      BY <3>1 DEF copies
    <3> QED
      BY <1>5, <3>2, <3>5, <3>6, UpdatedPartial
  <2> QED
    BY <2>1, <2>2
<1>8. VllmTypes' /\ SlotsDisjoint' /\ SchedTypes' /\ TableTracked'
  BY <1>1, <1>2, <1>3, <1>4
     DEF ConnectorInv, VllmTypes, SlotsDisjoint, SchedTypes, TableTracked
<1>9. Moves(meta') /\ Apart(meta')
  BY <1>1, NoBlocksPartial DEF Moves, Apart, EmptyPlan
<1>10. WorkerTypes' /\ StepTypes'
  BY <1>1, <1>6, <1>7, <1>9 DEF ConnectorInv, WorkerTypes, StepTypes
<1> QED
  BY <1>8, <1>10 DEF ConnectorInv

LEMMA ConnectorKept == ConnectorInv /\ [Next]_vars => ConnectorInv'
<1> SUFFICES ASSUME ConnectorInv, [Next]_vars PROVE ConnectorInv'
  OBVIOUS
<1>1. CASE \E r \in Requests : ScheduleNew(r) \/ ScheduleResumed(r)
  BY <1>1, NewScheduled
<1>2. CASE \E r \in Requests : Resume(r)
  BY <1>2, Resumed
<1>3. CASE \E r \in Requests : Preempt(r) \/ RequestFinished(r)
  BY <1>3, SlotsLeft
<1>4. CASE \E active \in SUBSET Requests : ScheduleDecode(active)
  BY <1>4, DecodeScheduled
<1>5. CASE StartLoadKV
  BY <1>5, Loaded
<1>6. CASE SaveKVLayer
  BY <1>6, Saved
<1>7. CASE (\E r \in Requests : ObserveAttention(r)) \/ UNCHANGED vars
  <2>1. UNCHANGED <<route, reuse, resumed, status, table, ready, kv, reqBlocks, prevTier,
                    forceRestore, plan, grace, compressed, state, meta, batch, phase>>
    BY <1>7 DEF ObserveAttention, vars, vllmVars, schedVars, workerVars, stepVars
  <2>2. Running' = Running /\ (NoneStale' <=> NoneStale) /\ \A q : Stale(q)' <=> Stale(q)
    BY <2>1 DEF Running, Stale, NoneStale
  <2>3. VllmTypes' /\ SlotsDisjoint' /\ SchedTypes' /\ TableTracked'
    BY <2>1, <2>2 DEF ConnectorInv, VllmTypes, SlotsDisjoint, SchedTypes, TableTracked
  <2>4. WorkerTypes' /\ StepTypes'
    BY <2>1, <2>2 DEF ConnectorInv, WorkerTypes, StepTypes
  <2> QED
    BY <2>3, <2>4 DEF ConnectorInv
<1> QED
  BY <1>1, <1>2, <1>3, <1>4, <1>5, <1>6, <1>7 DEF Next

LEMMA ConnectorInvTypes == ConnectorInv => TypeOK
<1> SUFFICES ASSUME ConnectorInv PROVE TypeOK
  OBVIOUS
<1>1. /\ route \in Routes /\ reuse \in ReuseModes /\ phase \in {"plan", "load", "save"}
      /\ NoneStale => Apart(meta)
  BY DEF ConnectorInv, StepTypes
<1>2. \A r \in Requests : DOMAIN prevTier[r] \subseteq Slots
                          /\ prevTier[r] \in [DOMAIN prevTier[r] -> TierNames]
  <2> SUFFICES ASSUME NEW r \in Requests
               PROVE  DOMAIN prevTier[r] \subseteq Slots
                      /\ prevTier[r] \in [DOMAIN prevTier[r] -> TierNames]
    OBVIOUS
  <2>1. prevTier[r] \in Partial(TierNames)
    BY DEF ConnectorInv, SchedTypes
  <2>2. PICK D \in SUBSET Slots : prevTier[r] \in [D -> TierNames]
    BY <2>1 DEF Partial
  <2> QED
    BY <2>2
<1>3. \A r \in Requests :
        /\ status[r] \in {"waiting", "running", "preempted", "finished"}
        /\ table[r] \in Seq(Slots) /\ reqBlocks[r] \in Seq(Slots)
        /\ ready[r] \in 0..MaxBlocks /\ forceRestore[r] \subseteq Slots
  BY DEF ConnectorInv, VllmTypes, SchedTypes
<1>4. kv \in [Slots -> Contents] /\ DOMAIN state \subseteq Slots
  BY DEF ConnectorInv, VllmTypes, WorkerTypes
<1>5. /\ DOMAIN grace \subseteq Slots /\ \A s \in DOMAIN grace : grace[s] \in Contents
      /\ DOMAIN compressed \subseteq Slots /\ \A s \in DOMAIN compressed : compressed[s] \in Contents
  <2>1. grace \in Partial(Contents) /\ compressed \in Partial(Contents)
    BY DEF ConnectorInv, WorkerTypes
  <2> QED
    BY <2>1, PartialIs
<1> QED
  BY <1>1, <1>2, <1>3, <1>4, <1>5 DEF TypeOK, NoneStale, Apart

-----------------------------------------------------------------------------
LEMMA ConnectorAlways == Spec => []ConnectorInv
<1> QED
  BY ConnectorStart, ConnectorKept, PTL DEF Spec

(* Plans, tables, tiers and held copies stay what their users take them    *)
(* for, and no plan moves a slot twice, through growth, preemption,        *)
(* resumption into other slots and any ranking the engine reports.         *)
THEOREM TypeCorrect == Spec => []TypeOK
<1> QED
  BY ConnectorAlways, ConnectorInvTypes, PTL

-----------------------------------------------------------------------------
(* Who had which slot, and which tiers are remembered of it.               *)
History ==
  /\ heldBy \in [Slots -> SUBSET Requests] /\ resumed \subseteq Requests
  /\ \A r \in Requests :
       /\ \A s \in ToSet(reqBlocks[r]) : r \in heldBy[s]
       /\ \A s \in ToSet(table[r]) : r \in heldBy[s]
       /\ DOMAIN prevTier[r] \subseteq ToSet(reqBlocks[r])
       /\ status[r] \in {"waiting", "finished"} => reqBlocks[r] = << >>
       /\ r \notin resumed /\ status[r] \in {"waiting", "running"} =>
            \A s \in Slots : r \in heldBy[s] => s \in ToSet(table[r])
       /\ ready[r] <= Len(table[r])
  /\ \A r \in Running : IsInjective(table[r])
  /\ phase # "plan" => plan.remap = NoBlocks

(* A remap moves copies only between slots a resumed request has had.      *)
RemapHeld(m) ==
  \A x \in DOMAIN m : \E q \in resumed : q \in heldBy[x] /\ q \in heldBy[m[x]]

HistoryInv ==
  ConnectorInv /\ History /\ RemapHeld(plan.remap) /\ RemapHeld(meta.remap)

(* The blocks of a table that had cells are still there, the others are    *)
(* slots nobody had.                                                       *)
Grown(r) ==
  /\ Len(table[r]) <= Len(table'[r])
  /\ \A k \in 1..Len(table[r]) : table'[r][k] = table[r][k]
  /\ \A k \in (Len(table[r]) + 1)..Len(table'[r]) : table'[r][k] \in FreeSlots
  /\ IsInjective(table'[r])

(* What the ways of a scheduling step have in common.                      *)
Scheduled(blocks, active) ==
  /\ BuildConnectorMeta(blocks, active) /\ phase = "plan"
  /\ blocks \in [Requests -> Seq(Slots)]
  /\ Running \subseteq Running' /\ Running' \subseteq Requests /\ active \subseteq Running'
  /\ \A r \in Running' \ active :
       r \in Running /\ table'[r] = table[r] /\ blocks[r] = reqBlocks[r]
  /\ \A r \in Running' : Grown(r) /\ (~Stale(r)' => blocks[r] = table'[r])
  /\ \A r \in Running' \ Running : table[r] = << >> /\ (status[r] = "waiting" \/ Stale(r)')
  /\ \A r \in Requests \ Running' :
       blocks[r] = reqBlocks[r] /\ status'[r] = status[r] /\ table'[r] = table[r]
  /\ heldBy' \in [Slots -> SUBSET Requests]
  /\ \A s \in Slots : heldBy[s] \subseteq heldBy'[s]
  /\ \A r \in Running' : \A s \in ToSet(table'[r]) \cup ToSet(blocks[r]) : r \in heldBy'[s]
  /\ \A r \in Requests, s \in Slots :
       r \in heldBy'[s] => r \in heldBy[s] \/ (r \in Running' /\ s \in ToSet(table'[r]))
  /\ resumed \subseteq resumed' /\ resumed' \subseteq Requests
  /\ UNCHANGED <<route, reuse, ready, kv, grace, compressed, state>>

LEMMA InjectiveIs ==
  ASSUME NEW b \in Seq(Slots)
  PROVE  IsInjective(b) <=> \A i, j \in 1..Len(b) : b[i] = b[j] => i = j
  BY DEF IsInjective

(* What every step can use of the tables.                                  *)
LEMMA HistoryFacts ==
  ASSUME HistoryInv
  PROVE  /\ table \in [Requests -> Seq(Slots)] /\ reqBlocks \in [Requests -> Seq(Slots)]
         /\ status \in [Requests -> {"waiting", "running", "preempted", "finished"}]
         /\ ready \in [Requests -> 0..MaxBlocks]
         /\ heldBy \in [Slots -> SUBSET Requests] /\ Running \subseteq Requests
         /\ \A q \in Requests : ToSet(reqBlocks[q]) \subseteq Slots
                                /\ \A s \in ToSet(reqBlocks[q]) : q \in heldBy[s]
         /\ \A q \in Running : /\ status[q] = "running" /\ (~Stale(q) => reqBlocks[q] = table[q])
                               /\ IsInjective(table[q]) /\ Len(table[q]) \in Nat
                               /\ ToSet(table[q]) \subseteq Slots
                               /\ \A s \in ToSet(table[q]) : q \in heldBy[s]
<1>1. /\ table \in [Requests -> Seq(Slots)] /\ reqBlocks \in [Requests -> Seq(Slots)]
      /\ status \in [Requests -> {"waiting", "running", "preempted", "finished"}]
      /\ ready \in [Requests -> 0..MaxBlocks]
      /\ heldBy \in [Slots -> SUBSET Requests] /\ Running \subseteq Requests
  BY DEF HistoryInv, ConnectorInv, VllmTypes, SchedTypes, History, Running
<1>2. \A q \in Running : status[q] = "running" /\ (~Stale(q) => reqBlocks[q] = table[q])
  BY <1>1 DEF HistoryInv, ConnectorInv, TableTracked, Running
<1>3. \A q \in Running : IsInjective(table[q]) /\ \A s \in ToSet(table[q]) : q \in heldBy[s]
  BY <1>1 DEF HistoryInv, History
<1>4. \A q \in Running : Len(table[q]) \in Nat /\ ToSet(table[q]) \subseteq Slots
  BY <1>1, SlotSet
<1>5. \A q \in Requests : ToSet(reqBlocks[q]) \subseteq Slots
                          /\ \A s \in ToSet(reqBlocks[q]) : q \in heldBy[s]
  BY <1>1, SlotSet DEF HistoryInv, History
<1> QED
  BY <1>1, <1>2, <1>3, <1>4, <1>5

(* A request starts, or goes on after a preemption with nothing matched.   *)
LEMMA NewIsScheduled ==
  ASSUME HistoryInv, NEW r \in Requests, ScheduleNew(r) \/ ScheduleResumed(r)
  PROVE  \E blocks, active : Scheduled(blocks, active)
<1>1. /\ phase = "plan" /\ r \notin Running
      /\ resumed \subseteq resumed' /\ resumed' \subseteq resumed \cup {r}
      /\ \E ids \in Prompts, mine \in Seq(Slots) :
           /\ ScheduleIn(r, ids, mine)
           /\ \/ mine = ids /\ status[r] = "waiting"
              \/ mine = reqBlocks[r] \o ids /\ Stale(r)'
  BY StartIsIn DEF HistoryInv
<1>2. PICK ids \in Prompts, mine \in Seq(Slots) :
        /\ ScheduleIn(r, ids, mine)
        /\ \/ mine = ids /\ status[r] = "waiting"
           \/ mine = reqBlocks[r] \o ids /\ Stale(r)'
  BY <1>1
<1>3. PICK active \in SUBSET Running :
        BuildConnectorMeta([reqBlocks EXCEPT ![r] = mine], active \cup {r})
  BY <1>2 DEF ScheduleIn
<1>4. /\ ToSet(ids) \subseteq FreeSlots /\ table' = [table EXCEPT ![r] = ids]
      /\ heldBy' = [s \in Slots |->
                      IF s \in ToSet(ids) THEN heldBy[s] \cup {r} ELSE heldBy[s]]
      /\ status' = [status EXCEPT ![r] = "running"]
      /\ UNCHANGED <<route, reuse, ready, kv, grace, compressed, state>>
  BY <1>2 DEF ScheduleIn, workerVars
<1> DEFINE blocks == [reqBlocks EXCEPT ![r] = mine]
           planned == active \cup {r}
<1>5. /\ ids \in Seq(Slots) /\ Len(ids) \in Nat /\ IsInjective(ids)
      /\ ToSet(ids) \subseteq Slots /\ \A k \in 1..Len(ids) : ids[k] \in ToSet(ids)
  BY PromptSlots, SlotSet, ConnectorAssumption
<1>6. Running' = Running \cup {r} /\ Running \subseteq Requests
  BY <1>4 DEF Running, HistoryInv, ConnectorInv, VllmTypes
<1>7. table[r] = << >>
  BY <1>1 DEF HistoryInv, ConnectorInv, VllmTypes
<1>8. /\ table'[r] = ids /\ blocks[r] = mine
      /\ \A q \in Requests \ {r} : table'[q] = table[q] /\ blocks[q] = reqBlocks[q]
                                   /\ status'[q] = status[q] /\ (Stale(q)' <=> Stale(q))
      /\ blocks \in [Requests -> Seq(Slots)]
  BY <1>1, <1>4, <1>5, HistoryFacts DEF Stale
<1>9. BuildConnectorMeta(blocks, planned)
  BY <1>3
<1> HIDE DEF blocks
<1>10. \A q \in Running' : Grown(q) /\ (~Stale(q)' => blocks[q] = table'[q])
  <2>1. Grown(r) /\ (~Stale(r)' => blocks[r] = table'[r])
    BY <1>2, <1>4, <1>5, <1>7, <1>8 DEF Grown
  <2>2. ASSUME NEW q \in Running PROVE Grown(q) /\ (~Stale(q)' => blocks[q] = table'[q])
    <3>1. q # r /\ q \in Requests /\ table'[q] = table[q] /\ Len(table[q]) \in Nat
          /\ IsInjective(table[q])
      BY <1>1, <1>6, <1>8, HistoryFacts
    <3>2. ~Stale(q)' => blocks[q] = table[q]
      BY <1>8, <3>1, HistoryFacts
    <3> QED
      BY <3>1, <3>2 DEF Grown
  <2> QED
    BY <1>6, <2>1, <2>2
<1>11. /\ heldBy' \in [Slots -> SUBSET Requests]
       /\ \A s \in Slots : heldBy[s] \subseteq heldBy'[s]
       /\ \A q \in Requests, s \in Slots :
            q \in heldBy'[s] => q \in heldBy[s] \/ (q = r /\ s \in ToSet(ids))
       /\ \A s \in ToSet(ids) : r \in heldBy'[s]
  BY <1>4, <1>5, HistoryFacts
<1>12. ASSUME NEW q \in Running', NEW s \in ToSet(table'[q]) \cup ToSet(blocks[q])
       PROVE  q \in heldBy'[s]
  <2>1. CASE q = r
    <3>1. s \in ToSet(ids) \/ s \in ToSet(reqBlocks[r])
      <4>1. s \in ToSet(ids) \/ s \in ToSet(mine)
        BY <1>8, <1>12, <2>1
      <4>2. \A x \in ToSet(reqBlocks[r] \o ids) : x \in ToSet(reqBlocks[r]) \/ x \in ToSet(ids)
        BY <1>5, HistoryFacts, ConcatSlots
      <4> QED
        BY <1>2, <4>1, <4>2
    <3>2. s \in ToSet(reqBlocks[r]) => s \in Slots /\ r \in heldBy[s]
      BY HistoryFacts
    <3> QED
      BY <1>11, <2>1, <3>1, <3>2
  <2>2. CASE q # r
    <3>1. q \in Running /\ q \in Requests /\ table'[q] = table[q] /\ blocks[q] = reqBlocks[q]
      BY <1>6, <1>8, <2>2
    <3>2. s \in Slots /\ q \in heldBy[s]
      BY <1>12, <3>1, HistoryFacts
    <3> QED
      BY <1>11, <3>2
  <2> QED
    BY <2>1, <2>2
<1>13. /\ Running \subseteq Running' /\ Running' \subseteq Requests /\ planned \subseteq Running'
       /\ \A q \in Running' \ planned :
            q \in Running /\ table'[q] = table[q] /\ blocks[q] = reqBlocks[q]
       /\ \A q \in Running' \ Running : table[q] = << >> /\ (status[q] = "waiting" \/ Stale(q)')
       /\ \A q \in Requests \ Running' :
            blocks[q] = reqBlocks[q] /\ status'[q] = status[q] /\ table'[q] = table[q]
       /\ resumed' \subseteq Requests
  <2>1. resumed \subseteq Requests
    BY DEF HistoryInv, History
  <2> QED
    BY <1>1, <1>2, <1>6, <1>7, <1>8, <2>1
<1> HIDE DEF planned
<1>14. \A q \in Requests, s \in Slots :
         q \in heldBy'[s] => q \in heldBy[s] \/ (q \in Running' /\ s \in ToSet(table'[q]))
  BY <1>6, <1>8, <1>11
<1>15. Scheduled(blocks, planned)
  BY <1>1, <1>4, <1>8, <1>9, <1>10, <1>11, <1>12, <1>13, <1>14 DEF Scheduled
<1> QED
  BY <1>15

LEMMA SlotImage ==
  ASSUME NEW b \in Seq(Slots)
  PROVE  ToSet(b) = { b[k] : k \in 1..Len(b) }
<1>1. DOMAIN b = 1..Len(b)
  OBVIOUS
<1> QED
  BY <1>1 DEF ToSet

(* One more slot at the end of a table.                                    *)
LEMMA AppendedAtEnd ==
  ASSUME NEW b \in Seq(Slots), NEW s \in Slots, s \notin ToSet(b), IsInjective(b)
  PROVE  /\ Append(b, s) \in Seq(Slots) /\ Len(Append(b, s)) = Len(b) + 1
         /\ \A k \in 1..Len(b) : Append(b, s)[k] = b[k]
         /\ Append(b, s)[Len(b) + 1] = s
         /\ IsInjective(Append(b, s)) /\ ToSet(Append(b, s)) = ToSet(b) \cup {s}
<1> DEFINE c == Append(b, s)
<1>1. /\ c \in Seq(Slots) /\ Len(c) = Len(b) + 1 /\ Len(b) \in Nat
      /\ \A k \in 1..Len(b) : c[k] = b[k]
      /\ c[Len(b) + 1] = s
  OBVIOUS
<1> HIDE DEF c
<1>2. \A k \in 1..Len(b) : b[k] # s
  BY SlotSet
<1>3. \A i, j \in 1..Len(b) : b[i] = b[j] => i = j
  BY InjectiveIs
<1>4. \A i, j \in 1..Len(c) : c[i] = c[j] => i = j
  <2> SUFFICES ASSUME NEW i \in 1..Len(c), NEW j \in 1..Len(c), c[i] = c[j] PROVE i = j
    OBVIOUS
  <2>1. \A k \in 1..Len(c) : k \in 1..Len(b) \/ k = Len(b) + 1
    BY <1>1
  <2> QED
    BY <1>1, <1>2, <1>3, <2>1
<1>5. IsInjective(c)
  BY <1>1, <1>4, InjectiveIs
<1>6. ToSet(c) = ToSet(b) \cup {s}
  <2>1. ToSet(c) = { c[k] : k \in 1..Len(c) } /\ ToSet(b) = { b[k] : k \in 1..Len(b) }
    BY <1>1, SlotImage
  <2>2. \A k \in 1..Len(c) : k \in 1..Len(b) \/ k = Len(b) + 1
    BY <1>1
  <2>3. 1..Len(b) \subseteq 1..Len(c) /\ Len(b) + 1 \in 1..Len(c)
    BY <1>1
  <2> QED
    BY <1>1, <2>1, <2>2, <2>3
<1> QED
  BY <1>1, <1>5, <1>6 DEF c

LEMMA DecodeIsScheduled ==
  ASSUME HistoryInv, NEW active \in SUBSET Requests, ScheduleDecode(active)
  PROVE  \E blocks : Scheduled(blocks, active)
<1>1. /\ active \subseteq Running /\ phase = "plan" /\ status' = status
      /\ UNCHANGED <<route, reuse, ready, kv, resumed, grace, compressed, state>>
  BY DEF ScheduleDecode, workerVars
<1>2. /\ Running' = Running /\ (\A q : Stale(q)' <=> Stale(q))
      /\ resumed \subseteq resumed' /\ resumed' \subseteq Requests
  BY <1>1 DEF Running, Stale, HistoryInv, History
<1>3. CASE BuildConnectorMeta(reqBlocks, active) /\ UNCHANGED <<table, heldBy>>
  <2>1. \A q \in Running' : Grown(q) /\ (~Stale(q)' => reqBlocks[q] = table'[q])
    BY <1>2, <1>3, HistoryFacts DEF Grown
  <2>2. \A q \in Running' : \A s \in ToSet(table'[q]) \cup ToSet(reqBlocks[q]) : q \in heldBy'[s]
    BY <1>2, <1>3, HistoryFacts
  <2>3. Scheduled(reqBlocks, active)
    BY <1>1, <1>2, <1>3, <2>1, <2>2, HistoryFacts DEF Scheduled
  <2> QED
    BY <2>3
<1>4. ASSUME NEW r \in active, NEW s \in FreeSlots,
             table' = [table EXCEPT ![r] = Append(@, s)],
             heldBy' = [heldBy EXCEPT ![s] = @ \cup {r}],
             BuildConnectorMeta([reqBlocks EXCEPT ![r] = Append(@, s)], active)
      PROVE  \E blocks : Scheduled(blocks, active)
  <2> DEFINE blocks == [reqBlocks EXCEPT ![r] = Append(@, s)]
             new == Append(table[r], s)
             mine == Append(reqBlocks[r], s)
  <2>1. s \in Slots /\ \A q \in Running : s \notin ToSet(table[q])
    BY FreeIsFree
  <2>2. r \in Running /\ r \in Requests /\ table[r] \in Seq(Slots) /\ Len(table[r]) \in Nat
        /\ IsInjective(table[r]) /\ reqBlocks[r] \in Seq(Slots) /\ ToSet(table[r]) \subseteq Slots
        /\ (~Stale(r) => reqBlocks[r] = table[r])
    BY <1>1, HistoryFacts
  <2>3. /\ new \in Seq(Slots) /\ Len(new) = Len(table[r]) + 1
        /\ \A k \in 1..Len(table[r]) : new[k] = table[r][k]
        /\ new[Len(table[r]) + 1] = s
        /\ IsInjective(new) /\ ToSet(new) = ToSet(table[r]) \cup {s}
    BY <2>1, <2>2, AppendedAtEnd
  <2>4. mine \in Seq(Slots) /\ ToSet(mine) \subseteq ToSet(reqBlocks[r]) \cup {s}
    BY <2>1, <2>2, Appended
  <2>5. reqBlocks[r] = table[r] => mine = new
    OBVIOUS
  <2> HIDE DEF new, mine
  <2>6. /\ table'[r] = new /\ blocks[r] = mine /\ blocks \in [Requests -> Seq(Slots)]
        /\ \A q \in Requests \ {r} : table'[q] = table[q] /\ blocks[q] = reqBlocks[q]
    BY <1>4, <2>2, <2>3, <2>4, HistoryFacts DEF new, mine
  <2>7. BuildConnectorMeta(blocks, active)
    BY <1>4
  <2> HIDE DEF blocks
  <2>8. Grown(r)
    <3>1. \A k \in (Len(table[r]) + 1)..Len(new) : k = Len(table[r]) + 1
      BY <2>2, <2>3
    <3> QED
      BY <2>2, <2>3, <2>6, <3>1 DEF Grown
  <2>9. \A q \in Running' : Grown(q) /\ (~Stale(q)' => blocks[q] = table'[q])
    <3>1. ASSUME NEW q \in Running, q # r PROVE Grown(q) /\ (~Stale(q)' => blocks[q] = table'[q])
      <4>1. table'[q] = table[q] /\ blocks[q] = reqBlocks[q] /\ Len(table[q]) \in Nat
            /\ IsInjective(table[q]) /\ (~Stale(q)' => reqBlocks[q] = table[q])
        BY <1>2, <2>6, <3>1, HistoryFacts
      <4> QED
        BY <4>1 DEF Grown
    <3>2. ~Stale(r)' => blocks[r] = table'[r]
      BY <1>2, <2>2, <2>5, <2>6
    <3> QED
      BY <1>2, <2>8, <3>1, <3>2
  <2>10. /\ heldBy' \in [Slots -> SUBSET Requests]
         /\ \A x \in Slots : heldBy[x] \subseteq heldBy'[x]
         /\ \A q \in Requests, x \in Slots : q \in heldBy'[x] => q \in heldBy[x] \/ (q = r /\ x = s)
         /\ r \in heldBy'[s]
    BY <1>4, <2>1, <2>2, HistoryFacts
  <2>11. \A q \in Running' : \A x \in ToSet(table'[q]) \cup ToSet(blocks[q]) : q \in heldBy'[x]
    <3> SUFFICES ASSUME NEW q \in Running, NEW x \in ToSet(table'[q]) \cup ToSet(blocks[q])
                 PROVE  q \in heldBy'[x]
      BY <1>2
    <3>1. q \in Requests
      BY HistoryFacts
    <3>2. x \in ToSet(table[q]) \/ x \in ToSet(reqBlocks[q]) \/ (q = r /\ x = s)
      BY <2>3, <2>4, <2>6, <3>1
    <3>3. /\ x \in ToSet(table[q]) => x \in Slots /\ q \in heldBy[x]
          /\ x \in ToSet(reqBlocks[q]) => x \in Slots /\ q \in heldBy[x]
      BY <3>1, HistoryFacts
    <3> QED
      BY <2>10, <3>2, <3>3
  <2>12. \A q \in Requests, x \in Slots :
           q \in heldBy'[x] => q \in heldBy[x] \/ (q \in Running' /\ x \in ToSet(table'[q]))
    BY <1>2, <2>2, <2>3, <2>6, <2>10
  <2>13. /\ \A q \in Running' \ active :
              q \in Running /\ table'[q] = table[q] /\ blocks[q] = reqBlocks[q]
         /\ \A q \in Requests \ Running' :
              blocks[q] = reqBlocks[q] /\ status'[q] = status[q] /\ table'[q] = table[q]
         /\ Running' \subseteq Requests
    BY <1>1, <1>2, <2>2, <2>6, HistoryFacts
  <2>14. Scheduled(blocks, active)
    BY <1>1, <1>2, <2>6, <2>7, <2>9, <2>10, <2>11, <2>12, <2>13 DEF Scheduled
  <2> QED
    BY <2>14
<1> QED
  BY <1>3, <1>4 DEF ScheduleDecode

LEMMA HistoryStart == Init => HistoryInv
<1> SUFFICES ASSUME Init PROVE HistoryInv
  OBVIOUS
<1>1. ConnectorInv
  BY ConnectorStart
<1>2. History
  <2>1. ToSet(<< >>) = {} /\ DOMAIN NoBlocks = {}
    BY DEF ToSet, NoBlocks
  <2>2. \A r \in Requests : reqBlocks[r] = << >> /\ prevTier[r] = NoBlocks /\ ready[r] = 0
                            /\ table[r] = << >> /\ Len(table[r]) = 0 /\ status[r] = "waiting"
    BY DEF Init
  <2>3. heldBy = [s \in Slots |-> {}] /\ resumed = {} /\ phase = "plan" /\ Running = {}
    BY DEF Init, Running
  <2> QED
    BY <2>1, <2>2, <2>3 DEF History
<1>3. RemapHeld(plan.remap) /\ RemapHeld(meta.remap)
  BY DEF Init, EmptyPlan, NoBlocks, RemapHeld
<1> QED
  BY <1>1, <1>2, <1>3 DEF HistoryInv

(* Requests never lose the slots they had, nor what they came back from.   *)
LEMMA RemapStaysHeld ==
  ASSUME HistoryInv, NEW m \in Partial(Slots), RemapHeld(m), resumed \subseteq resumed',
         \A s \in Slots : heldBy[s] \subseteq heldBy'[s]
  PROVE  \A x \in DOMAIN m : \E q \in resumed' : q \in heldBy'[x] /\ q \in heldBy'[m[x]]
<1>1. \A x \in DOMAIN m : x \in Slots /\ m[x] \in Slots
  BY PartialIs
<1> QED
  BY <1>1 DEF RemapHeld

LEMMA GrownKeeps ==
  ASSUME NEW r, Grown(r), table[r] \in Seq(Slots), table'[r] \in Seq(Slots)
  PROVE  ToSet(table[r]) \subseteq ToSet(table'[r])
<1>1. Len(table[r]) \in Nat /\ Len(table'[r]) \in Nat
  OBVIOUS
<1>2. 1..Len(table[r]) \subseteq 1..Len(table'[r])
  BY <1>1 DEF Grown
<1>3. \A k \in 1..Len(table[r]) : table'[r][k] = table[r][k]
  BY DEF Grown
<1> QED
  BY <1>2, <1>3, SlotSet

LEMMA ScheduledHistory ==
  ASSUME HistoryInv, ConnectorInv', NEW blocks, NEW active, Scheduled(blocks, active)
  PROVE  HistoryInv'
<1>1. /\ reqBlocks' = blocks /\ plan' = EmptyPlan /\ batch' = active /\ phase' = "load"
      /\ meta'.remap = plan.remap /\ ready' = ready
      /\ prevTier' = [r \in Requests |->
                        IF r \in active THEN Wanted(r, blocks[r]) ELSE prevTier[r]]
  BY DEF Scheduled, BuildConnectorMeta
<1>2. /\ blocks \in [Requests -> Seq(Slots)] /\ table' \in [Requests -> Seq(Slots)]
      /\ heldBy' \in [Slots -> SUBSET Requests] /\ \A s \in Slots : heldBy[s] \subseteq heldBy'[s]
      /\ Running \subseteq Running' /\ Running' \subseteq Requests
      /\ resumed \subseteq resumed' /\ resumed' \subseteq Requests
      /\ \A r \in Running' : Grown(r)
      /\ \A r \in Requests \ Running' : blocks[r] = reqBlocks[r] /\ status'[r] = status[r]
                                        /\ table'[r] = table[r]
  BY DEF Scheduled, ConnectorInv, VllmTypes
<1>3. ASSUME NEW r \in Requests
      PROVE  /\ \A s \in ToSet(blocks[r]) : r \in heldBy'[s]
             /\ \A s \in ToSet(table'[r]) : r \in heldBy'[s]
  <2>1. CASE r \in Running'
    BY <1>2, <2>1 DEF Scheduled
  <2>2. CASE r \notin Running'
    <3>1. \A s \in ToSet(reqBlocks[r]) : s \in Slots /\ r \in heldBy[s]
      BY HistoryFacts
    <3>2. \A s \in ToSet(table[r]) : s \in Slots /\ r \in heldBy[s]
      BY HistoryFacts, SlotSet DEF HistoryInv, History
    <3> QED
      BY <1>2, <2>2, <3>1, <3>2
  <2> QED
    BY <2>1, <2>2
<1>4. ASSUME NEW r \in Requests
      PROVE  DOMAIN prevTier'[r] \subseteq ToSet(blocks[r])
  <2>1. CASE r \in active
    <3>1. blocks[r] \in Seq(Slots)
      BY <1>2
    <3>2. DOMAIN Wanted(r, blocks[r]) = ToSet(blocks[r])
      BY <3>1, WantedTiers
    <3> QED
      BY <1>1, <2>1, <3>2
  <2>2. CASE r \notin active
    <3>1. reqBlocks[r] = blocks[r]
      BY <1>2, <2>2 DEF Scheduled
    <3>2. DOMAIN prevTier[r] \subseteq ToSet(reqBlocks[r])
      BY DEF HistoryInv, History
    <3> QED
      BY <1>1, <2>2, <3>1, <3>2
  <2> QED
    BY <2>1, <2>2
<1>5. ASSUME NEW r \in Requests, status'[r] \in {"waiting", "finished"}
      PROVE  blocks[r] = << >>
  <2>1. r \notin Running'
    BY <1>5 DEF Running
  <2> QED
    BY <1>2, <1>5, <2>1 DEF HistoryInv, History
<1>6. ASSUME NEW r \in Requests, r \notin resumed', status'[r] \in {"waiting", "running"},
             NEW s \in Slots, r \in heldBy'[s]
      PROVE  s \in ToSet(table'[r])
  <2>1. CASE r \in heldBy[s]
    <3>1. status[r] \in {"waiting", "running"} /\ ToSet(table[r]) \subseteq ToSet(table'[r])
      <4>1. CASE r \in Running'
        <5>1. status[r] \in {"waiting", "running"}
          BY <1>6, <4>1, HistoryFacts DEF Scheduled, Stale
        <5> QED
          BY <1>2, <4>1, <5>1, GrownKeeps, HistoryFacts
      <4>2. CASE r \notin Running'
        BY <1>2, <1>6, <4>2
      <4> QED
        BY <4>1, <4>2
    <3>2. r \notin resumed
      BY <1>2, <1>6
    <3>3. s \in ToSet(table[r])
      BY <1>6, <2>1, <3>1, <3>2 DEF HistoryInv, History
    <3> QED
      BY <3>1, <3>3
  <2>2. CASE r \notin heldBy[s]
    BY <1>6, <2>2 DEF Scheduled
  <2> QED
    BY <2>1, <2>2
<1>7. ASSUME NEW r \in Requests
      PROVE  ready'[r] <= Len(table'[r])
  <2>1. /\ ready[r] <= Len(table[r]) /\ ready[r] \in Nat
        /\ Len(table[r]) \in Nat /\ Len(table'[r]) \in Nat
    BY <1>2, HistoryFacts DEF HistoryInv, History
  <2>2. Len(table[r]) <= Len(table'[r])
    <3>1. CASE r \in Running'
      BY <1>2, <3>1 DEF Grown
    <3> QED
      BY <1>2, <2>1, <3>1
  <2> QED
    BY <1>1, <2>1, <2>2
<1>8. \A r \in Running' : IsInjective(table'[r])
  BY <1>2 DEF Grown
<1>9. History'
  <2>1. plan'.remap = NoBlocks
    BY <1>1 DEF EmptyPlan
  <2> QED
    BY <1>1, <1>2, <1>3, <1>4, <1>5, <1>6, <1>7, <1>8, <2>1 DEF History
<1>10. RemapHeld(plan.remap) /\ plan.remap \in Partial(Slots)
  BY DEF HistoryInv, ConnectorInv, SchedTypes, Plans
<1>11. RemapHeld(meta.remap)'
  BY <1>1, <1>2, <1>10, RemapStaysHeld DEF RemapHeld
<1>12. RemapHeld(plan.remap)'
  BY <1>1 DEF RemapHeld, EmptyPlan, NoBlocks
<1> QED
  BY <1>9, <1>11, <1>12 DEF HistoryInv

LEMMA RemapMoves ==
  ASSUME NEW old \in Seq(Slots), NEW new \in Seq(Slots)
  PROVE  \A x \in DOMAIN PositionalRemap(old, new) :
           /\ x \in ToSet(old) /\ PositionalRemap(old, new)[x] \in ToSet(new)
<1> DEFINE n == IF Len(old) < Len(new) THEN Len(old) ELSE Len(new)
           ks == { k \in 1..n : old[k] # new[k] }
           moved == PositionalRemap(old, new)
<1>1. moved = [x \in { old[k] : k \in ks } |-> new[CHOOSE k \in ks : old[k] = x]]
  BY DEF PositionalRemap
<1>2. \A k \in ks : old[k] \in ToSet(old) /\ new[k] \in ToSet(new)
  <2>1. \A k \in ks : k \in 1..Len(old) /\ k \in 1..Len(new)
    OBVIOUS
  <2> QED
    BY <2>1, SlotSet
<1>3. \A x \in { old[k] : k \in ks } : (CHOOSE k \in ks : old[k] = x) \in ks
  OBVIOUS
<1> HIDE DEF ks, moved
<1>4. \A x \in DOMAIN moved : x \in ToSet(old) /\ moved[x] \in ToSet(new)
  BY <1>1, <1>2, <1>3
<1> QED
  BY <1>4 DEF moved

(* No slot differs and the two are as long: nothing moved.                 *)
LEMMA NothingMoved ==
  ASSUME NEW old \in Seq(Slots), NEW new \in Seq(Slots), Len(new) = Len(old),
         PositionalRemap(old, new) = NoBlocks
  PROVE  ToSet(new) = ToSet(old)
<1> DEFINE n == IF Len(old) < Len(new) THEN Len(old) ELSE Len(new)
           ks == { k \in 1..n : old[k] # new[k] }
<1>1. DOMAIN PositionalRemap(old, new) = { old[k] : k \in ks }
  BY DEF PositionalRemap
<1>2. { old[k] : k \in ks } = {}
  BY <1>1 DEF NoBlocks
<1>3. \A k \in 1..Len(old) : old[k] = new[k]
  <2>1. \A k \in 1..Len(old) : k \in 1..n
    OBVIOUS
  <2> QED
    BY <1>2, <2>1
<1> QED
  BY <1>3, SlotImage

LEMMA CarriedDomain ==
  ASSUME HistoryInv, NEW r \in Requests, NEW new \in Seq(Slots), Len(new) = Len(reqBlocks[r])
  PROVE  DOMAIN CarriedTiers(r, new) \subseteq ToSet(new)
<1>1. reqBlocks[r] \in Seq(Slots) /\ DOMAIN prevTier[r] \subseteq ToSet(reqBlocks[r])
  BY HistoryFacts DEF HistoryInv, History
<1>2. CASE PositionalRemap(reqBlocks[r], new) = NoBlocks
  <2>1. ToSet(new) = ToSet(reqBlocks[r])
    BY <1>1, <1>2, NothingMoved
  <2> QED
    BY <1>1, <1>2, <2>1 DEF CarriedTiers
<1>3. CASE PositionalRemap(reqBlocks[r], new) # NoBlocks
  <2> DEFINE n == IF Len(reqBlocks[r]) < Len(new) THEN Len(reqBlocks[r]) ELSE Len(new)
  <2>1. DOMAIN CarriedTiers(r, new) = { new[k] : k \in 1..n }
    BY <1>3 DEF CarriedTiers
  <2>2. n = Len(new) /\ ToSet(new) = { new[k] : k \in 1..Len(new) }
    BY SlotImage
  <2> QED
    BY <2>1, <2>2
<1> QED
  BY <1>2, <1>3

LEMMA ResumedHistory ==
  ASSUME HistoryInv, ConnectorInv', NEW r \in Requests, Resume(r)
  PROVE  HistoryInv'
<1>1. PICK new \in Prompts :
        /\ Len(new) = Len(reqBlocks[r]) /\ ToSet(new) \subseteq FreeSlots
        /\ Matched(r, 0) > 0
        /\ table' = [table EXCEPT ![r] = new]
        /\ ready' = [ready EXCEPT ![r] = Matched(r, 0) - 1]
        /\ heldBy' = [s \in Slots |->
                        IF s \in ToSet(new) THEN heldBy[s] \cup {r} ELSE heldBy[s]]
        /\ NoteExternalMatch(r, new)
  BY DEF Resume
<1>2. /\ phase = "plan" /\ phase' = phase /\ status' = [status EXCEPT ![r] = "running"]
      /\ status[r] = "preempted" /\ resumed' = resumed \cup {r} /\ meta' = meta
  BY DEF Resume, stepVars
<1> DEFINE carried == CarriedTiers(r, new)
           moved == PositionalRemap(reqBlocks[r], new)
<1>3. /\ reqBlocks' = [reqBlocks EXCEPT ![r] = new]
      /\ prevTier' = [prevTier EXCEPT ![r] = carried]
      /\ plan'.remap = Updated(plan.remap, moved)
  <2>1. /\ plan' = [plan EXCEPT !.remap = Updated(plan.remap, moved)]
        /\ reqBlocks' = [reqBlocks EXCEPT ![r] = new]
        /\ prevTier' = [prevTier EXCEPT ![r] = carried]
    BY <1>1 DEF NoteExternalMatch
  <2>2. plan \in Plans
    BY DEF HistoryInv, ConnectorInv, SchedTypes
  <2> QED
    BY <2>1, <2>2 DEF Plans
<1>4. new \in Seq(Slots) /\ IsInjective(new) /\ ToSet(new) \subseteq Slots /\ reqBlocks[r] \in Seq(Slots)
  BY PromptSlots, ConnectorAssumption, SlotSet, HistoryFacts
<1>5. DOMAIN carried \subseteq ToSet(new)
  BY <1>1, <1>4, CarriedDomain
<1>6. \A x \in DOMAIN moved : x \in ToSet(reqBlocks[r]) /\ moved[x] \in ToSet(new)
  BY <1>4, RemapMoves
<1> HIDE DEF carried, moved
<1>7. /\ heldBy' \in [Slots -> SUBSET Requests] /\ \A s \in Slots : heldBy[s] \subseteq heldBy'[s]
      /\ \A s \in ToSet(new) : r \in heldBy'[s]
      /\ \A q \in Requests \ {r}, s \in Slots : q \in heldBy'[s] => q \in heldBy[s]
  BY <1>1, <1>4, HistoryFacts
<1>8. ASSUME NEW q \in Requests, NEW s \in ToSet(reqBlocks'[q]) \cup ToSet(table'[q])
      PROVE  q \in heldBy'[s]
  <2>1. CASE q = r
    <3>1. reqBlocks'[r] = new /\ table'[r] = new
      BY <1>1, <1>3, HistoryFacts
    <3> QED
      BY <1>7, <1>8, <2>1, <3>1
  <2>2. CASE q # r
    <3>1. s \in ToSet(reqBlocks[q]) \/ s \in ToSet(table[q])
      BY <1>1, <1>3, <1>8, <2>2, HistoryFacts
    <3>2. s \in Slots /\ q \in heldBy[s]
      BY <3>1, HistoryFacts, SlotSet DEF HistoryInv, History
    <3> QED
      BY <1>7, <3>2
  <2> QED
    BY <2>1, <2>2
<1>9. prevTier \in [Requests -> Partial(TierNames)]
  BY DEF HistoryInv, ConnectorInv, SchedTypes
<1>10. ASSUME NEW q \in Requests
       PROVE  /\ DOMAIN prevTier'[q] \subseteq ToSet(reqBlocks'[q])
              /\ status'[q] \in {"waiting", "finished"} => reqBlocks'[q] = << >>
  <2>1. CASE q = r
    BY <1>2, <1>3, <1>5, <1>9, <2>1, HistoryFacts
  <2>2. CASE q # r
    <3>1. prevTier'[q] = prevTier[q] /\ reqBlocks'[q] = reqBlocks[q] /\ status'[q] = status[q]
      BY <1>2, <1>3, <1>9, <2>2, HistoryFacts
    <3> QED
      BY <3>1 DEF HistoryInv, History
  <2> QED
    BY <2>1, <2>2
<1>11. ASSUME NEW q \in Requests, q \notin resumed', status'[q] \in {"waiting", "running"},
              NEW s \in Slots, q \in heldBy'[s]
       PROVE  s \in ToSet(table'[q])
  <2>1. q # r /\ table'[q] = table[q] /\ status'[q] = status[q] /\ q \notin resumed
    BY <1>1, <1>2, <1>11, HistoryFacts
  <2>2. q \in heldBy[s]
    BY <1>7, <1>11, <2>1
  <2> QED
    BY <1>11, <2>1, <2>2 DEF HistoryInv, History
<1>12. ASSUME NEW q \in Requests PROVE ready'[q] <= Len(table'[q])
  <2>1. CASE q = r
    <3>1. Len(new) \in Nat /\ table'[r] = new /\ ready'[r] = Matched(r, 0) - 1
      BY <1>1, <1>4, HistoryFacts
    <3>2. Matched(r, 0) = Len(new)
      BY <1>1, <1>4, <3>1 DEF Matched
    <3> QED
      BY <2>1, <3>1, <3>2
  <2>2. CASE q # r
    <3>1. ready'[q] = ready[q] /\ table'[q] = table[q]
      BY <1>1, <2>2, HistoryFacts
    <3> QED
      BY <3>1 DEF HistoryInv, History
  <2> QED
    BY <2>1, <2>2
<1>13. ASSUME NEW q \in Running' PROVE IsInjective(table'[q])
  <2>1. CASE q = r
    BY <1>1, <1>4, <2>1, HistoryFacts
  <2>2. CASE q # r
    <3>1. q \in Running /\ q \in Requests /\ table'[q] = table[q]
      BY <1>1, <1>2, <2>2, HistoryFacts DEF Running
    <3> QED
      BY <3>1, HistoryFacts
  <2> QED
    BY <2>1, <2>2
<1>14. resumed' \subseteq Requests
  BY <1>2 DEF HistoryInv, History
<1>15. History'
  BY <1>2, <1>7, <1>8, <1>10, <1>11, <1>12, <1>13, <1>14 DEF History
<1>16. RemapHeld(meta.remap)'
  <2>1. meta.remap \in Partial(Slots) /\ RemapHeld(meta.remap)
    BY DEF HistoryInv, ConnectorInv, StepTypes, Moves
  <2> QED
    BY <1>2, <1>7, <2>1, RemapStaysHeld DEF RemapHeld
<1>17. RemapHeld(plan.remap)'
  <2>1. \A x \in DOMAIN plan.remap :
          \E q \in resumed' : q \in heldBy'[x] /\ q \in heldBy'[plan.remap[x]]
    <3>1. plan.remap \in Partial(Slots) /\ RemapHeld(plan.remap)
      BY DEF HistoryInv, ConnectorInv, SchedTypes, Plans
    <3> QED
      BY <1>2, <1>7, <3>1, RemapStaysHeld
  <2>2. \A x \in DOMAIN moved : r \in heldBy'[x] /\ r \in heldBy'[moved[x]]
    <3>1. \A x \in ToSet(reqBlocks[r]) : x \in Slots /\ r \in heldBy[x]
      BY <1>4, SlotSet DEF HistoryInv, History
    <3> QED
      BY <1>6, <1>7, <3>1
  <2>3. ASSUME NEW x \in DOMAIN plan'.remap
        PROVE  \E q \in resumed' : q \in heldBy'[x] /\ q \in heldBy'[plan'.remap[x]]
    <3>1. CASE x \in DOMAIN moved
      <4>1. plan'.remap[x] = moved[x]
        BY <1>3, <3>1 DEF Updated
      <4> QED
        BY <1>2, <2>2, <3>1, <4>1
    <3>2. CASE x \notin DOMAIN moved
      <4>1. x \in DOMAIN plan.remap /\ plan'.remap[x] = plan.remap[x]
        BY <1>3, <2>3, <3>2 DEF Updated
      <4> QED
        BY <2>1, <4>1
    <3> QED
      BY <3>1, <3>2
  <2> QED
    BY <2>3 DEF RemapHeld
<1> QED
  BY <1>15, <1>16, <1>17 DEF HistoryInv

LEMMA LeftHistory ==
  ASSUME HistoryInv, ConnectorInv', NEW r \in Requests, Preempt(r) \/ RequestFinished(r)
  PROVE  HistoryInv'
<1>1. /\ phase = "plan" /\ status'[r] \in {"preempted", "finished"}
      /\ \A q \in Requests \ {r} : status'[q] = status[q]
      /\ table' = [table EXCEPT ![r] = << >>] /\ ready' = [ready EXCEPT ![r] = 0]
      /\ UNCHANGED <<plan, meta, phase, heldBy, resumed>>
  BY HistoryFacts DEF Preempt, RequestFinished, stepVars, schedVars
<1>2. /\ \A q \in Requests \ {r} : table'[q] = table[q] /\ ready'[q] = ready[q]
      /\ table'[r] = << >> /\ ready'[r] = 0
  BY <1>1, HistoryFacts
<1>3. prevTier \in [Requests -> Partial(TierNames)]
  BY DEF HistoryInv, ConnectorInv, SchedTypes
<1>4. /\ \A q \in Requests \ {r} : reqBlocks'[q] = reqBlocks[q] /\ prevTier'[q] = prevTier[q]
      /\ (reqBlocks'[r] = reqBlocks[r] /\ prevTier'[r] = prevTier[r] /\ status'[r] = "preempted")
         \/ (reqBlocks'[r] = << >> /\ prevTier'[r] = NoBlocks /\ status'[r] = "finished")
  <2>1. CASE Preempt(r)
    BY <2>1, HistoryFacts DEF Preempt, schedVars
  <2>2. CASE RequestFinished(r)
    BY <1>3, <2>2, HistoryFacts DEF RequestFinished
  <2> QED
    BY <2>1, <2>2
<1>5. ToSet(<< >>) = {} /\ DOMAIN NoBlocks = {} /\ Len(<< >>) = 0
  BY DEF ToSet, NoBlocks
<1>6. ASSUME NEW q \in Requests
      PROVE  /\ \A s \in ToSet(reqBlocks'[q]) : q \in heldBy'[s]
             /\ \A s \in ToSet(table'[q]) : q \in heldBy'[s]
             /\ DOMAIN prevTier'[q] \subseteq ToSet(reqBlocks'[q])
             /\ status'[q] \in {"waiting", "finished"} => reqBlocks'[q] = << >>
             /\ q \notin resumed' /\ status'[q] \in {"waiting", "running"} =>
                  \A s \in Slots : q \in heldBy'[s] => s \in ToSet(table'[q])
             /\ ready'[q] <= Len(table'[q])
  <2>1. CASE q = r
    BY <1>1, <1>2, <1>4, <1>5, <2>1 DEF HistoryInv, History
  <2>2. CASE q # r
    BY <1>1, <1>2, <1>4, <2>2 DEF HistoryInv, History
  <2> QED
    BY <2>1, <2>2
<1>7. \A q \in Running' : IsInjective(table'[q])
  <2>1. \A q \in Running' : q \in Running /\ q \in Requests /\ q # r
    BY <1>1, HistoryFacts DEF Running
  <2> QED
    BY <1>2, <2>1, HistoryFacts
<1>8. History'
  BY <1>1, <1>6, <1>7 DEF HistoryInv, History
<1> QED
  BY <1>1, <1>8 DEF HistoryInv, RemapHeld

(* The worker's half of a step, and what the engine observes, leave the    *)
(* history alone.                                                          *)
LEMMA WorkerHistory ==
  ASSUME HistoryInv, ConnectorInv',
         StartLoadKV \/ SaveKVLayer \/ (\E r \in Requests : ObserveAttention(r)) \/ UNCHANGED vars
  PROVE  HistoryInv'
<1>1. /\ UNCHANGED <<status, table, heldBy, resumed, reqBlocks, prevTier, plan>>
      /\ phase' # "plan" => phase # "plan"
      /\ meta' = meta \/ meta' = EmptyPlan
  BY DEF StartLoadKV, SaveKVLayer, ObserveAttention, vars, vllmVars, schedVars, stepVars
<1>2. Running' = Running
  BY <1>1 DEF Running
<1>3. \A r \in Requests : ready'[r] <= Len(table'[r])
  <2>1. CASE SaveKVLayer
    <3>1. ready' = [r \in Requests |-> IF r \in batch THEN Len(table[r]) - 1 ELSE ready[r]]
      BY <2>1 DEF SaveKVLayer
    <3>2. \A r \in Requests : Len(table[r]) \in Nat /\ ready[r] <= Len(table[r])
      BY HistoryFacts DEF HistoryInv, History
    <3> QED
      BY <1>1, <3>1, <3>2
  <2>2. CASE ready' = ready
    BY <1>1, <2>2 DEF HistoryInv, History
  <2> QED
    BY <2>1, <2>2 DEF StartLoadKV, ObserveAttention, vars, vllmVars
<1>4. History'
  BY <1>1, <1>2, <1>3 DEF HistoryInv, History
<1>5. RemapHeld(EmptyPlan.remap)
  BY DEF RemapHeld, EmptyPlan, NoBlocks
<1> QED
  BY <1>1, <1>4, <1>5 DEF HistoryInv, RemapHeld

LEMMA HistoryKept == HistoryInv /\ [Next]_vars => HistoryInv'
<1> SUFFICES ASSUME HistoryInv, [Next]_vars PROVE HistoryInv'
  OBVIOUS
<1>1. ConnectorInv'
  BY ConnectorKept DEF HistoryInv
<1>2. CASE \E r \in Requests : ScheduleNew(r) \/ ScheduleResumed(r)
  BY <1>1, <1>2, NewIsScheduled, ScheduledHistory
<1>3. CASE \E active \in SUBSET Requests : ScheduleDecode(active)
  BY <1>1, <1>3, DecodeIsScheduled, ScheduledHistory
<1>4. CASE \E r \in Requests : Resume(r)
  BY <1>1, <1>4, ResumedHistory
<1>5. CASE \E r \in Requests : Preempt(r) \/ RequestFinished(r)
  BY <1>1, <1>5, LeftHistory
<1>6. CASE StartLoadKV \/ SaveKVLayer \/ (\E r \in Requests : ObserveAttention(r)) \/ UNCHANGED vars
  BY <1>1, <1>6, WorkerHistory
<1> QED
  BY <1>2, <1>3, <1>4, <1>5, <1>6 DEF Next

LEMMA HistoryAlways == Spec => []HistoryInv
<1> QED
  BY HistoryStart, HistoryKept, PTL DEF Spec

(* What a plan moves are slots its requests have, or have lost.            *)
LEMMA ScheduledOwn ==
  ASSUME HistoryInv, ConnectorInv', NEW blocks, NEW active, Scheduled(blocks, active)
  PROVE  MovesOwnSlots'
<1> SUFFICES ASSUME NEW s \in meta'.grace \cup meta'.compress \cup meta'.restore
             PROVE  \E r \in batch' : s \in ToSet(table'[r]) \/ (Stale(r)' /\ r \in heldBy'[s])
  BY DEF MovesOwnSlots
<1>1. /\ meta'.grace = AllMovedTo(blocks, active, "grace")
      /\ meta'.compress = AllMovedTo(blocks, active, "compressed")
      /\ meta'.restore = AllMovedTo(blocks, active, "hbm") /\ batch' = active
  BY DEF Scheduled, BuildConnectorMeta, AllMovedTo
<1>2. PICK r \in active : s \in ToSet(blocks[r])
  BY <1>1 DEF AllMovedTo, MovedTo
<1>3. CASE Stale(r)'
  BY <1>1, <1>2, <1>3 DEF Scheduled
<1>4. CASE ~Stale(r)'
  BY <1>1, <1>2, <1>4 DEF Scheduled
<1> QED
  BY <1>3, <1>4

LEMMA OwnKept == HistoryInv /\ MovesOwnSlots /\ [Next]_vars => MovesOwnSlots'
<1> SUFFICES ASSUME HistoryInv, MovesOwnSlots, [Next]_vars PROVE MovesOwnSlots'
  OBVIOUS
<1>1. ConnectorInv'
  BY ConnectorKept DEF HistoryInv
<1>2. CASE \E r \in Requests : ScheduleNew(r) \/ ScheduleResumed(r)
  BY <1>1, <1>2, NewIsScheduled, ScheduledOwn
<1>3. CASE \E active \in SUBSET Requests : ScheduleDecode(active)
  BY <1>1, <1>3, DecodeIsScheduled, ScheduledOwn
<1>4. CASE \E r \in Requests : Preempt(r) \/ Resume(r) \/ RequestFinished(r)
  <2>1. phase = "plan" /\ meta' = meta
    BY <1>4 DEF Preempt, Resume, RequestFinished, stepVars
  <2>2. batch = {}
    BY <2>1 DEF HistoryInv, ConnectorInv, StepTypes
  <2>3. meta.grace \cup meta.compress \cup meta.restore = {}
    BY <2>2 DEF MovesOwnSlots
  <2> QED
    BY <2>1, <2>3 DEF MovesOwnSlots
<1>5. CASE SaveKVLayer
  BY <1>5 DEF SaveKVLayer, EmptyPlan, MovesOwnSlots
<1>6. CASE StartLoadKV \/ (\E r \in Requests : ObserveAttention(r)) \/ UNCHANGED vars
  <2>1. UNCHANGED <<meta, batch, table, reuse, resumed, heldBy>>
    BY <1>6 DEF StartLoadKV, ObserveAttention, vars, vllmVars, stepVars
  <2> QED
    BY <2>1 DEF MovesOwnSlots, Stale
<1> QED
  BY <1>2, <1>3, <1>4, <1>5, <1>6 DEF Next

(* The worker is only told to move slots that a request of the step has in *)
(* vLLM's table at that moment, or, with reuse disabled, had before it was *)
(* preempted.                                                              *)
THEOREM PlansOwnSlots == Spec => []MovesOwnSlots
<1>1. Init => MovesOwnSlots
  BY DEF Init, EmptyPlan, MovesOwnSlots
<1> QED
  BY <1>1, HistoryAlways, OwnKept, PTL DEF Spec

-----------------------------------------------------------------------------
(* The worker has slot s where tier t says.                                *)
Copied(s, t) ==
  /\ t = "compressed" => s \in DOMAIN compressed
  /\ t = "grace" => IF route = "hint" THEN s \in DOMAIN state /\ state[s] = "grace"
                                      ELSE s \in DOMAIN grace

(* The plan of this step brings it there.                                  *)
Asked(s, t) == (t = "compressed" /\ s \in meta.compress) \/ (t = "grace" /\ s \in meta.grace)

(* The plan of this step does not take it away.                            *)
Spared(s) == s \notin meta.restore /\ s \notin DOMAIN meta.remap

(* How far through a step the delta and the worker agree about a slot.     *)
Agreed(r, s) ==
  LET t == Before(r, s) IN
  /\ phase = "plan" => Copied(s, t) /\ (s \in DOMAIN plan.remap => t = "hbm")
  /\ phase = "load" => t = "hbm" \/ Asked(s, t) \/ (Copied(s, t) /\ Spared(s))
  /\ phase = "save" => Asked(s, t) \/ Copied(s, t)

Held ==
  \A r \in Requests : \A s \in Slots \ forceRestore[r] : Own(r, s) => Agreed(r, s)

(* A tier other than HBM is remembered only of slots the request had.      *)
LEMMA HadBefore ==
  ASSUME HistoryInv, NEW r \in Requests, NEW s, Before(r, s) # "hbm"
  PROVE  r \in heldBy[s]
<1>1. s \in DOMAIN prevTier[r]
  BY DEF Before
<1> QED
  BY <1>1, HistoryFacts DEF HistoryInv, History

LEMMA HeldStart == Init => Held
<1> SUFFICES ASSUME Init, NEW r \in Requests, NEW s \in Slots
             PROVE  Agreed(r, s)
  BY DEF Held
<1>1. Before(r, s) = "hbm"
  BY DEF Init, Before, NoBlocks
<1> QED
  BY <1>1 DEF Agreed, Copied

(* A slot that is only r's after a step and was r's before.                *)
LEMMA OwnBefore ==
  ASSUME NEW r \in Requests, NEW s \in Slots, r \in heldBy[s], heldBy[s] \subseteq heldBy'[s],
         Own(r, s)'
  PROVE  Own(r, s)
  BY DEF Own

(* The moves of a scheduling step are asked of the worker, and only of     *)
(* requests that have the slot.                                            *)
LEMMA MovesAsked ==
  ASSUME NEW blocks, NEW active, Scheduled(blocks, active)
  PROVE  /\ \A r \in active : \A s \in MovedTo(r, blocks[r], "grace") : s \in meta'.grace
         /\ \A r \in active : \A s \in MovedTo(r, blocks[r], "compressed") : s \in meta'.compress
         /\ \A s \in meta'.restore : \E r \in active : s \in MovedTo(r, blocks[r], "hbm")
         /\ \A s \in meta'.compress : \E r \in active : s \in MovedTo(r, blocks[r], "compressed")
         /\ \A r \in active, s \in Slots, t \in TierNames :
              s \in MovedTo(r, blocks[r], t) => r \in heldBy'[s]
<1>1. /\ meta'.grace = AllMovedTo(blocks, active, "grace")
      /\ meta'.compress = AllMovedTo(blocks, active, "compressed")
      /\ meta'.restore = AllMovedTo(blocks, active, "hbm")
  BY DEF Scheduled, BuildConnectorMeta, AllMovedTo
<1>2. ASSUME NEW r \in active, NEW s \in Slots, NEW t \in TierNames,
             s \in MovedTo(r, blocks[r], t)
      PROVE  r \in heldBy'[s]
  <2>1. s \in ToSet(blocks[r])
    BY <1>2 DEF MovedTo
  <2> QED
    BY <2>1 DEF Scheduled
<1>3. ASSUME NEW t, NEW r \in active, NEW s \in MovedTo(r, blocks[r], t)
      PROVE  s \in AllMovedTo(blocks, active, t)
  BY DEF AllMovedTo
<1>4. ASSUME NEW t, NEW s \in AllMovedTo(blocks, active, t)
      PROVE  \E r \in active : s \in MovedTo(r, blocks[r], t)
  BY DEF AllMovedTo
<1>5. \A r \in active : \A s \in MovedTo(r, blocks[r], "grace") : s \in meta'.grace
  BY <1>1, <1>3
<1>6. \A r \in active : \A s \in MovedTo(r, blocks[r], "compressed") : s \in meta'.compress
  BY <1>1, <1>3
<1>7. \A s \in meta'.restore : \E r \in active : s \in MovedTo(r, blocks[r], "hbm")
  BY <1>1, <1>4
<1>8. \A s \in meta'.compress : \E r \in active : s \in MovedTo(r, blocks[r], "compressed")
  BY <1>1, <1>4
<1>9. \A r \in active, s \in Slots, t \in TierNames :
        s \in MovedTo(r, blocks[r], t) => r \in heldBy'[s]
  BY <1>2
<1> QED
  BY <1>5, <1>6, <1>7, <1>8, <1>9

LEMMA ScheduledHeld ==
  ASSUME HistoryInv, Held, ConnectorInv', NEW blocks, NEW active, Scheduled(blocks, active)
  PROVE  Held'
<1> SUFFICES ASSUME NEW r \in Requests, NEW s \in Slots, Own(r, s)', s \notin forceRestore'[r]
             PROVE  Agreed(r, s)'
  BY DEF Held
<1>1. /\ phase = "plan" /\ phase' = "load" /\ meta'.remap = plan.remap
      /\ UNCHANGED <<route, grace, compressed, state>>
      /\ prevTier' = [q \in Requests |->
                        IF q \in active THEN Wanted(q, blocks[q]) ELSE prevTier[q]]
      /\ forceRestore' = [q \in Requests |-> IF q \in active THEN {} ELSE forceRestore[q]]
  BY DEF Scheduled, BuildConnectorMeta
<1>2. blocks[r] \in Seq(Slots) /\ heldBy'[s] = {r} /\ heldBy[s] \subseteq heldBy'[s]
  BY DEF Scheduled, Own
<1> DEFINE t == Before(r, s)
<1> PICK u : u = Before(r, s)'
  OBVIOUS
<1>3. CASE u = "hbm"
  BY <1>1, <1>3 DEF Agreed
<1>4. CASE u # "hbm"
  <2>1. r \in active => /\ Wanted(r, blocks[r]) \in [ToSet(blocks[r]) -> TierNames]
                        /\ s \in ToSet(blocks[r]) /\ u = Wanted(r, blocks[r])[s]
    <3>1. Wanted(r, blocks[r]) \in [ToSet(blocks[r]) -> TierNames]
      BY <1>2, WantedTiers
    <3> QED
      BY <1>1, <1>4, <3>1 DEF Before
  <2>2. r \notin active => u = t /\ forceRestore'[r] = forceRestore[r]
    BY <1>1 DEF Before
  <2>3. \A x : Copied(s, x)' <=> Copied(s, x)
    BY <1>1 DEF Copied
  <2>4. s \notin meta'.restore
    <3> SUFFICES ASSUME s \in meta'.restore PROVE FALSE
      OBVIOUS
    <3>1. PICK q \in active : s \in MovedTo(q, blocks[q], "hbm")
      BY MovesAsked
    <3>2. q = r
      BY <1>2, <3>1, MovesAsked DEF TierNames
    <3> QED
      BY <1>4, <2>1, <3>1, <3>2 DEF MovedTo
  <2>5. CASE t = u
    <3>1. s \notin forceRestore[r]
      BY <1>4, <2>1, <2>2 DEF Wanted
    <3>2. r \in heldBy[s]
      BY <1>4, <2>5, HadBefore
    <3>3. Agreed(r, s)
      BY <1>2, <3>1, <3>2, OwnBefore DEF Held
    <3>4. Copied(s, u) /\ s \notin DOMAIN plan.remap
      BY <1>1, <1>4, <2>5, <3>3 DEF Agreed
    <3>5. Copied(s, u)' /\ Spared(s)'
      BY <1>1, <2>3, <2>4, <3>4 DEF Spared
    <3> QED
      BY <1>1, <3>5 DEF Agreed
  <2>6. CASE t # u
    <3>1. r \in active /\ s \in MovedTo(r, blocks[r], u)
      BY <2>1, <2>2, <2>6 DEF MovedTo
    <3>2. u \in {"grace", "compressed"}
      BY <1>4, <2>1, <3>1 DEF TierNames
    <3>3. Asked(s, u)'
      BY <3>1, <3>2, MovesAsked DEF Asked
    <3> QED
      BY <1>1, <3>3 DEF Agreed
  <2> QED
    BY <2>5, <2>6
<1> QED
  BY <1>3, <1>4

LEMMA ResumedHeld ==
  ASSUME HistoryInv, Held, NEW r \in Requests, Resume(r)
  PROVE  Held'
<1> SUFFICES ASSUME NEW q \in Requests, NEW s \in Slots, Own(q, s)', s \notin forceRestore'[q]
             PROVE  Agreed(q, s)'
  BY DEF Held
<1>1. PICK new \in Prompts :
        /\ Len(new) = Len(reqBlocks[r]) /\ ToSet(new) \subseteq FreeSlots
        /\ table' = [table EXCEPT ![r] = new]
        /\ heldBy' = [x \in Slots |->
                        IF x \in ToSet(new) THEN heldBy[x] \cup {r} ELSE heldBy[x]]
        /\ NoteExternalMatch(r, new)
  BY DEF Resume
<1>2. /\ phase = "plan" /\ phase' = "plan" /\ UNCHANGED <<route, grace, compressed, state>>
  BY DEF Resume, stepVars, workerVars
<1> DEFINE carried == CarriedTiers(r, new)
           moved == PositionalRemap(reqBlocks[r], new)
           toRestore == { x \in DOMAIN carried : carried[x] # "hbm" }
<1>3. /\ prevTier' = [prevTier EXCEPT ![r] = carried]
      /\ forceRestore' = [forceRestore EXCEPT ![r] = @ \cup toRestore]
      /\ plan'.remap = Updated(plan.remap, moved)
  <2>1. /\ plan' = [plan EXCEPT !.remap = Updated(plan.remap, moved)]
        /\ prevTier' = [prevTier EXCEPT ![r] = carried]
        /\ forceRestore' = [forceRestore EXCEPT ![r] = @ \cup toRestore]
    BY <1>1 DEF NoteExternalMatch
  <2>2. plan \in Plans
    BY DEF HistoryInv, ConnectorInv, SchedTypes
  <2> QED
    BY <2>1, <2>2 DEF Plans
<1>4. /\ prevTier \in [Requests -> Partial(TierNames)]
      /\ forceRestore \in [Requests -> SUBSET Slots]
  BY DEF HistoryInv, ConnectorInv, SchedTypes
<1>5. new \in Seq(Slots) /\ reqBlocks[r] \in Seq(Slots)
  BY PromptSlots, HistoryFacts
<1>6. \A x \in DOMAIN moved : r \in heldBy[x]
  <2>1. \A x \in DOMAIN moved : x \in ToSet(reqBlocks[r])
    BY <1>5, RemapMoves
  <2> QED
    BY <2>1, HistoryFacts
<1> HIDE DEF moved, carried
<1>7. \A x : Copied(s, x)' <=> Copied(s, x)
  BY <1>2 DEF Copied
<1> PICK t : t = Before(q, s)'
  OBVIOUS
<1>8. Copied(s, t)' /\ (s \in DOMAIN plan'.remap => t = "hbm")
  <2>1. CASE t = "hbm"
    BY <2>1 DEF Copied
  <2>2. CASE t # "hbm"
    <3>1. q # r
      <4>1. ASSUME q = r PROVE FALSE
        <5>1. prevTier'[r] = carried /\ forceRestore'[r] = forceRestore[r] \cup toRestore
          BY <1>3, <1>4
        <5> QED
          BY <2>2, <4>1, <5>1 DEF Before
      <4> QED
        BY <4>1
    <3>2. prevTier'[q] = prevTier[q] /\ forceRestore'[q] = forceRestore[q]
      BY <1>3, <1>4, <3>1
    <3>3. t = Before(q, s)
      BY <3>2 DEF Before
    <3>4. q \in heldBy[s] /\ heldBy[s] \subseteq heldBy'[s]
      BY <1>1, <2>2, <3>3, HadBefore
    <3>5. Own(q, s)
      BY <3>4, OwnBefore
    <3>6. Copied(s, t) /\ s \notin DOMAIN plan.remap
      BY <1>2, <2>2, <3>2, <3>3, <3>5 DEF Held, Agreed
    <3>7. s \notin DOMAIN moved
      BY <1>6, <3>1, <3>5 DEF Own
    <3> QED
      BY <1>3, <1>7, <3>6, <3>7 DEF Updated
  <2> QED
    BY <2>1, <2>2
<1> QED
  BY <1>2, <1>8 DEF Agreed

(* Requests that leave, and what the engine observes.                      *)
LEMMA AsideHeld ==
  ASSUME HistoryInv, Held,
         \/ \E r \in Requests : Preempt(r) \/ RequestFinished(r) \/ ObserveAttention(r)
         \/ UNCHANGED vars
  PROVE  Held'
<1> SUFFICES ASSUME NEW q \in Requests, NEW s \in Slots, Own(q, s)', s \notin forceRestore'[q]
             PROVE  Agreed(q, s)'
  BY DEF Held
<1>1. UNCHANGED <<route, grace, compressed, state, meta, plan, phase, heldBy>>
  BY DEF vars, vllmVars, schedVars, workerVars, stepVars, ObserveAttention, Preempt, RequestFinished
<1>2. \/ prevTier'[q] = prevTier[q] /\ forceRestore'[q] = forceRestore[q]
      \/ prevTier'[q] = NoBlocks
  <2>1. /\ prevTier \in [Requests -> Partial(TierNames)]
        /\ forceRestore \in [Requests -> SUBSET Slots]
    BY DEF HistoryInv, ConnectorInv, SchedTypes
  <2>2. \/ UNCHANGED <<prevTier, forceRestore>>
        \/ \E r \in Requests : /\ prevTier' = [prevTier EXCEPT ![r] = NoBlocks]
                               /\ forceRestore' = [forceRestore EXCEPT ![r] = {}]
    BY DEF vars, schedVars, ObserveAttention, Preempt, RequestFinished
  <2> QED
    BY <2>1, <2>2
<1>3. CASE prevTier'[q] = prevTier[q] /\ forceRestore'[q] = forceRestore[q]
  <2>1. Agreed(q, s)
    BY <1>1, <1>3 DEF Held, Own
  <2> QED
    BY <1>1, <1>3, <2>1 DEF Agreed, Before, Copied, Asked, Spared
<1>4. CASE prevTier'[q] = NoBlocks
  <2>1. Before(q, s)' = "hbm"
    BY <1>4 DEF Before, NoBlocks
  <2> QED
    BY <2>1 DEF Agreed, Copied
<1> QED
  BY <1>2, <1>3, <1>4

(* What a remap and a restore leave of a slot they do not name.            *)
LEMMA LoadSpares ==
  ASSUME StartLoadKV, NEW s, Spared(s)
  PROVE  /\ s \in DOMAIN compressed => s \in DOMAIN compressed'
         /\ s \in DOMAIN grace => s \in DOMAIN grace'
         /\ s \in DOMAIN state => s \in DOMAIN state' /\ state'[s] = state[s]
<1> DEFINE g == Rekey(grace, meta.remap)
           c == Rekey(compressed, meta.remap)
           fromCompressed == meta.restore \cap DOMAIN c
           byHint == { x \in meta.restore \ fromCompressed :
                         x \in DOMAIN state /\ state[x] = "grace" }
           fromGrace == (meta.restore \cap DOMAIN g) \ (fromCompressed \cup byHint)
           hints == [x \in byHint |-> "hbm"]
<1>1. /\ compressed' = Without(c, fromCompressed) /\ grace' = Without(g, fromGrace)
      /\ state' = Updated(state, hints)
  BY DEF StartLoadKV
<1>2. \A d : s \in DOMAIN d => s \in DOMAIN Rekey(d, meta.remap)
  BY DEF Spared, Rekey, Updated
<1>3. s \notin fromCompressed /\ s \notin fromGrace /\ s \notin DOMAIN hints
  BY DEF Spared
<1> HIDE DEF g, c, fromCompressed, byHint, fromGrace, hints
<1>4. s \in DOMAIN state => s \in DOMAIN state' /\ state'[s] = state[s]
  BY <1>1, <1>3 DEF Updated
<1>5. /\ s \in DOMAIN c => s \in DOMAIN compressed'
      /\ s \in DOMAIN g => s \in DOMAIN grace'
  BY <1>1, <1>3 DEF Without
<1> QED
  BY <1>2, <1>4, <1>5 DEF g, c

LEMMA LoadedHeld ==
  ASSUME HistoryInv, Held, StartLoadKV
  PROVE  Held'
<1> SUFFICES ASSUME NEW q \in Requests, NEW s \in Slots, Own(q, s)', s \notin forceRestore'[q]
             PROVE  Agreed(q, s)'
  BY DEF Held
<1>1. /\ phase = "load" /\ phase' = "save"
      /\ UNCHANGED <<route, reuse, status, table, heldBy, prevTier, forceRestore, meta>>
  BY DEF StartLoadKV, schedVars
<1> PICK t : t = Before(q, s)
  OBVIOUS
<1>2. t = Before(q, s)' /\ Agreed(q, s)
  BY <1>1 DEF Held, Own, Before
<1>3. t = "hbm" \/ Asked(s, t) \/ (Copied(s, t) /\ Spared(s))
  BY <1>1, <1>2 DEF Agreed
<1>4. Asked(s, t)' \/ Copied(s, t)'
  <2>1. CASE t = "hbm"
    BY <2>1 DEF Copied
  <2>2. CASE Asked(s, t)
    BY <1>1, <2>2 DEF Asked
  <2>3. CASE Copied(s, t) /\ Spared(s)
    BY <1>1, <2>3, LoadSpares DEF Copied
  <2> QED
    BY <1>3, <2>1, <2>2, <2>3
<1> QED
  BY <1>1, <1>2, <1>4 DEF Agreed

LEMMA SavedHeld ==
  ASSUME HistoryInv, Held, SaveKVLayer
  PROVE  Held'
<1> SUFFICES ASSUME NEW q \in Requests, NEW s \in Slots, Own(q, s)', s \notin forceRestore'[q]
             PROVE  Agreed(q, s)'
  BY DEF Held
<1>1. /\ phase = "save" /\ phase' = "plan"
      /\ UNCHANGED <<route, reuse, status, table, heldBy, prevTier, forceRestore, plan>>
  BY DEF SaveKVLayer, schedVars
<1> PICK t : t = Before(q, s)
  OBVIOUS
<1>2. t = Before(q, s)' /\ Agreed(q, s)
  BY <1>1 DEF Held, Own, Before
<1>3. Asked(s, t) \/ Copied(s, t)
  BY <1>1, <1>2 DEF Agreed
<1>4. DOMAIN compressed' = DOMAIN compressed \cup meta.compress
  BY DEF SaveKVLayer, Updated
<1>5. CASE route = "hint"
  <2>1. state' = Updated(state, [x \in meta.grace |-> "grace"])
    BY <1>5 DEF SaveKVLayer
  <2>2. /\ DOMAIN state' = DOMAIN state \cup meta.grace
        /\ \A x \in meta.grace : state'[x] = "grace"
        /\ \A x \in DOMAIN state \ meta.grace : state'[x] = state[x]
    BY <2>1 DEF Updated
  <2> QED
    BY <1>1, <1>2, <1>3, <1>4, <1>5, <2>2 DEF Agreed, Copied, Asked, HistoryInv, History, NoBlocks
<1>6. CASE route # "hint"
  <2>1. DOMAIN grace' = DOMAIN grace \cup meta.grace
    BY <1>6 DEF SaveKVLayer, Updated
  <2> QED
    BY <1>1, <1>2, <1>3, <1>4, <1>6, <2>1 DEF Agreed, Copied, Asked, HistoryInv, History, NoBlocks
<1> QED
  BY <1>5, <1>6

LEMMA HeldKept == HistoryInv /\ Held /\ [Next]_vars => Held'
<1> SUFFICES ASSUME HistoryInv, Held, [Next]_vars PROVE Held'
  OBVIOUS
<1>1. ConnectorInv'
  BY ConnectorKept DEF HistoryInv
<1>2. CASE \E r \in Requests : ScheduleNew(r) \/ ScheduleResumed(r)
  BY <1>1, <1>2, NewIsScheduled, ScheduledHeld
<1>3. CASE \E active \in SUBSET Requests : ScheduleDecode(active)
  BY <1>1, <1>3, DecodeIsScheduled, ScheduledHeld
<1>4. CASE \E r \in Requests : Resume(r)
  BY <1>4, ResumedHeld
<1>5. CASE \/ \E r \in Requests : Preempt(r) \/ RequestFinished(r) \/ ObserveAttention(r)
           \/ UNCHANGED vars
  BY <1>5, AsideHeld
<1>6. CASE StartLoadKV
  BY <1>6, LoadedHeld
<1>7. CASE SaveKVLayer
  BY <1>7, SavedHeld
<1> QED
  BY <1>2, <1>3, <1>4, <1>5, <1>6, <1>7 DEF Next

(* Between steps the worker holds a copy or a hint for every block the     *)
(* scheduler's delta counts as demoted, for any growth, preemption,        *)
(* resumption and ranking, as long as the slot was never another's.        *)
THEOREM DeltaHolds == Spec => []BelievedHeld
<1>1. HistoryInv /\ Held => BelievedHeld
  <2> SUFFICES ASSUME HistoryInv, Held, phase = "plan", NEW r \in Running,
                      NEW s \in ToSet(table[r]) \ forceRestore[r], Own(r, s)
               PROVE  Copied(s, Before(r, s))
    BY DEF BelievedHeld, Copied
  <2>1. r \in Requests /\ s \in Slots
    BY HistoryFacts
  <2> QED
    BY <2>1 DEF Held, Agreed
<1> QED
  BY <1>1, HistoryAlways, HeldStart, HeldKept, PTL DEF Spec

-----------------------------------------------------------------------------
(* What a request that was never preempted finds in a slot of its own.     *)
Whole(r, k) ==
  LET s == table[r][k] IN
  /\ k <= ready[r] => kv[s] = <<r, k>>
  /\ s \in DOMAIN compressed => compressed[s] = <<r, k>>
  /\ s \in meta.compress => r \in batch /\ k < Len(table[r])

(* There is no compressed copy of a slot nobody ever had.                  *)
CopiesHad == \A s \in DOMAIN compressed \cup meta.compress : heldBy[s] # {}

Intact ==
  route # "copyBack" =>
    /\ CopiesHad
    /\ \A r \in Running \ resumed : \A k \in 1..Len(table[r]) :
         Own(r, table[r][k]) => Whole(r, k)

LEMMA IntactStart == Init => Intact
  BY DEF Init, Intact, CopiesHad, Running, NoBlocks, EmptyPlan

(* The last block of a table is of the window the policy keeps in HBM.     *)
LEMMA LastInHbm ==
  ASSUME NEW r \in Requests, NEW blocks \in Seq(Slots), IsInjective(blocks), Len(blocks) >= 1
  PROVE  Wanted(r, blocks)[blocks[Len(blocks)]] = "hbm"
<1> DEFINE n == Len(blocks)
           p == PolicyFor(n)
           rank == Ranking(r, n)
           s == blocks[n]
<1>1. n \in Nat /\ n \in 1..n /\ s \in ToSet(blocks)
  BY SlotSet
<1>2. Len(rank) = n
  BY <1>1 DEF Ranking
<1>3. LastAt(blocks, s) = n
  BY <1>1, InjectiveIs, LastPlace
<1>4. n \in Keep(p, n)
  BY <1>1, ConnectorAssumption DEF Keep, PolicyFor
<1>5. NORMAL # CRITICAL
  BY DEF NORMAL, CRITICAL
<1> HIDE DEF rank, p
<1>6. Squeezed(p, rank, NORMAL) = {} /\ Swapped(p, rank, NORMAL) = {}
  BY <1>5 DEF Squeezed, Swapped
<1>7. n \notin Compressed(p, rank, NORMAL)
  BY <1>2, <1>4, <1>6 DEF Compressed
<1>8. Place(p, rank, NORMAL)[n] = "T0"
  BY <1>1, <1>2, <1>4, <1>6, <1>7 DEF Place
<1> HIDE DEF s
<1>9. Assign(r, blocks)[s] = "hbm"
  <2>1. Assign(r, blocks)[s] =
          IF n <= NSink + NWindow THEN "hbm"
          ELSE TierName[Place(p, rank, NORMAL)[LastAt(blocks, s)]]
    BY <1>1 DEF Assign, p, rank
  <2>2. TierName["T0"] = "hbm"
    BY DEF TierName
  <2> QED
    BY <1>3, <1>8, <2>1, <2>2
<1> QED
  BY <1>1, <1>9 DEF Wanted, s

LEMMA ScheduledIntact ==
  ASSUME HistoryInv, Intact, ConnectorInv', NEW blocks, NEW active, Scheduled(blocks, active)
  PROVE  Intact'
<1> SUFFICES ASSUME route # "copyBack"
             PROVE  /\ CopiesHad'
                    /\ \A r \in Running' \ resumed' : \A k \in 1..Len(table'[r]) :
                         Own(r, table[r][k])' => Whole(r, k)'
  <2>1. route' = route
    BY DEF Scheduled
  <2> QED
    BY <2>1 DEF Intact
<1>1. /\ phase = "plan" /\ batch' = active /\ UNCHANGED <<ready, kv, compressed>>
      /\ resumed \subseteq resumed'
      /\ \A s \in Slots : heldBy[s] \subseteq heldBy'[s]
  BY DEF Scheduled, BuildConnectorMeta
<1>2. DOMAIN compressed \subseteq Slots /\ meta'.compress \subseteq Slots
  <2>1. compressed \in Partial(Contents) /\ Moves(meta')
    BY DEF HistoryInv, ConnectorInv, WorkerTypes, StepTypes, Moves
  <2> QED
    BY <2>1, PartialIs DEF Moves
<1>3. \A s \in meta'.compress :
        \E q \in active : s \in MovedTo(q, blocks[q], "compressed") /\ q \in heldBy'[s]
  BY <1>2, MovesAsked DEF TierNames
<1>4. CopiesHad'
  BY <1>1, <1>2, <1>3 DEF CopiesHad, Intact
<1>5. ASSUME NEW r \in Requests, r \in Running', r \notin resumed', NEW k \in Nat,
             k \in 1..Len(table'[r]), Own(r, table[r][k])'
      PROVE  Whole(r, k)'
  <2>0. ~Stale(r)' /\ r \notin resumed
    BY <1>1, <1>5 DEF Stale
  <2>1. /\ Grown(r) /\ blocks[r] = table'[r] /\ table'[r] \in Seq(Slots) /\ table[r] \in Seq(Slots)
        /\ ready[r] <= Len(table[r]) /\ ready[r] \in Nat /\ Len(table[r]) \in Nat
    BY <1>5, <2>0, HistoryFacts DEF Scheduled, ConnectorInv, VllmTypes, HistoryInv, History
  <2> PICK s : s = table'[r][k]
    OBVIOUS
  <2>2. s \in Slots /\ heldBy'[s] = {r}
    BY <1>5, <2>1 DEF Own
  <2>3. ASSUME k <= Len(table[r])
        PROVE  (k <= ready[r] => kv[s] = <<r, k>>) /\ (s \in DOMAIN compressed => compressed[s] = <<r, k>>)
    <3>1. r \in Running
      <4>1. Len(<< >>) = 0
        OBVIOUS
      <4> QED
        BY <1>5, <2>3, <4>1 DEF Scheduled
    <3>2. k \in 1..Len(table[r]) /\ table[r][k] = s
      BY <1>5, <2>1, <2>3 DEF Grown
    <3>3. s \in ToSet(table[r])
      BY <2>1, <3>2, SlotSet
    <3>4. r \in heldBy[s] /\ heldBy[s] \subseteq heldBy'[s]
      BY <1>1, <2>2, <3>1, <3>3, HistoryFacts
    <3>5. Own(r, s)
      BY <2>2, <3>4 DEF Own
    <3>6. Whole(r, k)
      BY <2>0, <3>1, <3>2, <3>5 DEF Intact
    <3> QED
      BY <3>2, <3>6 DEF Whole
  <2>4. ASSUME k > Len(table[r])
        PROVE  (k <= ready[r] => kv[s] = <<r, k>>) /\ (s \in DOMAIN compressed => compressed[s] = <<r, k>>)
    <3>1. s \in FreeSlots
      BY <1>5, <2>1, <2>4 DEF Grown
    <3>2. r \notin heldBy[s]
      <4>1. s \notin ToSet(table[r])
        <5>1. CASE r \in Running
          BY <3>1, <5>1, FreeIsFree
        <5>2. CASE r \notin Running
          BY <1>5, <5>2 DEF Scheduled, ToSet
        <5> QED
          BY <5>1, <5>2
      <4>2. status[r] \in {"waiting", "running"}
        BY <1>5, <2>0, HistoryFacts DEF Scheduled
      <4> QED
        BY <1>5, <2>0, <2>2, <4>1, <4>2 DEF HistoryInv, History
    <3>3. heldBy[s] = {}
      BY <1>1, <2>2, <3>2
    <3>4. s \notin DOMAIN compressed
      BY <3>3 DEF Intact, CopiesHad
    <3>5. ~(k <= ready[r])
      BY <2>1, <2>4
    <3> QED
      BY <3>4, <3>5
  <2>5. (k <= ready[r] => kv[s] = <<r, k>>) /\ (s \in DOMAIN compressed => compressed[s] = <<r, k>>)
    <3>1. k <= Len(table[r]) \/ k > Len(table[r])
      BY <2>1
    <3> QED
      BY <2>3, <2>4, <3>1
  <2>6. ASSUME s \in meta'.compress PROVE r \in active /\ k < Len(table'[r])
    <3>1. PICK q \in active : s \in MovedTo(q, blocks[q], "compressed") /\ q \in heldBy'[s]
      BY <1>3, <2>6
    <3>2. q = r
      BY <2>2, <3>1
    <3>3. Wanted(r, blocks[r])[s] # "hbm"
      BY <3>1, <3>2 DEF MovedTo
    <3>4. k # Len(table'[r])
      <4>1. IsInjective(table'[r]) /\ Len(table'[r]) >= 1
        BY <1>5, <2>1 DEF Grown
      <4> QED
        BY <2>1, <3>3, <4>1, LastInHbm
    <3> QED
      BY <1>5, <2>1, <3>1, <3>2, <3>4
  <2> QED
    BY <1>1, <2>5, <2>6 DEF Whole
<1>6. \A r \in Running' : r \in Requests
  BY DEF Running
<1>7. \A r \in Requests : \A k \in 1..Len(table'[r]) : k \in Nat
  OBVIOUS
<1> QED
  BY <1>1, <1>4, <1>5, <1>6, <1>7

(* Preemption, resumption, completion and observation: the requests that   *)
(* stay keep slots, KV and copies.                                         *)
LEMMA AsideIntact ==
  ASSUME HistoryInv, Intact,
         \/ \E r \in Requests : Preempt(r) \/ Resume(r) \/ RequestFinished(r) \/ ObserveAttention(r)
         \/ UNCHANGED vars
  PROVE  Intact'
<1>1. UNCHANGED <<route, reuse, kv, compressed, meta, batch>>
  BY DEF Preempt, Resume, RequestFinished, ObserveAttention, vars, vllmVars, workerVars, stepVars
<1>2. /\ \A s \in Slots : heldBy[s] \subseteq heldBy'[s]
      /\ \A q \in Requests : q \in Running' /\ q \notin resumed' =>
           q \in Running /\ q \notin resumed /\ table'[q] = table[q] /\ ready'[q] = ready[q]
  <2>1. CASE UNCHANGED vars \/ \E r \in Requests : ObserveAttention(r)
    BY <2>1 DEF vars, vllmVars, ObserveAttention, Running
  <2>2. ASSUME NEW r \in Requests, Preempt(r) \/ RequestFinished(r)
        PROVE  /\ UNCHANGED <<heldBy, resumed>>
               /\ \A q \in Requests : q \in Running' =>
                    q \in Running /\ table'[q] = table[q] /\ ready'[q] = ready[q]
    <3>1. /\ UNCHANGED <<heldBy, resumed>>
          /\ status' = [status EXCEPT ![r] = "preempted"]
             \/ status' = [status EXCEPT ![r] = "finished"]
          /\ table' = [table EXCEPT ![r] = << >>] /\ ready' = [ready EXCEPT ![r] = 0]
      BY <2>2 DEF Preempt, RequestFinished
    <3> QED
      BY <3>1, HistoryFacts DEF Running
  <2>3. ASSUME NEW r \in Requests, Resume(r)
        PROVE  /\ resumed' = resumed \cup {r} /\ \A s \in Slots : heldBy[s] \subseteq heldBy'[s]
               /\ \A q \in Requests \ {r} : q \in Running' =>
                    q \in Running /\ table'[q] = table[q] /\ ready'[q] = ready[q]
    <3>1. PICK new \in Prompts :
            /\ table' = [table EXCEPT ![r] = new]
            /\ ready' = [ready EXCEPT ![r] = Matched(r, 0) - 1]
            /\ heldBy' = [s \in Slots |->
                            IF s \in ToSet(new) THEN heldBy[s] \cup {r} ELSE heldBy[s]]
      BY <2>3 DEF Resume
    <3>2. status' = [status EXCEPT ![r] = "running"] /\ resumed' = resumed \cup {r}
      BY <2>3 DEF Resume
    <3> QED
      BY <3>1, <3>2, HistoryFacts DEF Running
  <2> QED
    BY <2>1, <2>2, <2>3
<1>3. DOMAIN compressed \subseteq Slots /\ meta.compress \subseteq Slots
  <2>1. compressed \in Partial(Contents) /\ Moves(meta)
    BY DEF HistoryInv, ConnectorInv, WorkerTypes, StepTypes
  <2> QED
    BY <2>1, PartialIs DEF Moves
<1> SUFFICES ASSUME route # "copyBack"
             PROVE  /\ CopiesHad'
                    /\ \A q \in Running' \ resumed' : \A k \in 1..Len(table'[q]) :
                         Own(q, table[q][k])' => Whole(q, k)'
  BY <1>1 DEF Intact
<1>4. CopiesHad'
  BY <1>1, <1>2, <1>3 DEF CopiesHad, Intact
<1>5. ASSUME NEW q \in Requests, q \in Running', q \notin resumed', NEW k \in Nat,
             k \in 1..Len(table'[q]), Own(q, table[q][k])'
      PROVE  Whole(q, k)'
  <2>1. /\ q \in Running /\ q \notin resumed /\ table'[q] = table[q] /\ ready'[q] = ready[q]
        /\ k \in 1..Len(table[q])
    BY <1>2, <1>5
  <2>2. table[q][k] \in Slots /\ q \in heldBy[table[q][k]]
    BY <2>1, HistoryFacts, SlotSet
  <2>3. Own(q, table[q][k])
    BY <1>2, <1>5, <2>1, <2>2 DEF Own
  <2>4. Whole(q, k)
    BY <2>1, <2>3 DEF Intact
  <2> QED
    BY <1>1, <2>1, <2>4 DEF Whole
<1>6. \A q \in Running' : q \in Requests
  BY DEF Running
<1>7. \A q \in Requests : \A k \in 1..Len(table'[q]) : k \in Nat
  OBVIOUS
<1> QED
  BY <1>4, <1>5, <1>6, <1>7

(* A remap leaves a slot alone that it neither empties nor fills, and fills *)
(* no slot but its targets.                                                *)
LEMMA RekeyLeaves ==
  ASSUME NEW d, NEW remap, NEW s
  PROVE  /\ s \notin DOMAIN remap /\ (\A x \in DOMAIN remap : remap[x] # s) =>
              /\ s \in DOMAIN Rekey(d, remap) <=> s \in DOMAIN d
              /\ s \in DOMAIN d => Rekey(d, remap)[s] = d[s]
         /\ s \in DOMAIN Rekey(d, remap) => s \in DOMAIN d \/ \E x \in DOMAIN remap : remap[x] = s
<1> DEFINE from == DOMAIN d \cap DOMAIN remap
           stay == [x \in DOMAIN d \ from |-> d[x]]
           moved == [t \in { remap[x] : x \in from } |-> d[CHOOSE x \in from : remap[x] = t]]
<1>1. Rekey(d, remap) = Updated(stay, moved)
  BY DEF Rekey
<1>2. /\ DOMAIN stay = DOMAIN d \ DOMAIN remap
      /\ \A x \in DOMAIN stay : stay[x] = d[x]
      /\ \A t \in DOMAIN moved : \E x \in DOMAIN remap : remap[x] = t
  OBVIOUS
<1> HIDE DEF stay, moved
<1> QED
  BY <1>1, <1>2 DEF Updated

LEMMA LoadedIntact ==
  ASSUME HistoryInv, Intact, StartLoadKV
  PROVE  Intact'
<1> DEFINE g == Rekey(grace, meta.remap)
           c == Rekey(compressed, meta.remap)
           fromCompressed == meta.restore \cap DOMAIN c
           byHint == { x \in meta.restore \ fromCompressed :
                         x \in DOMAIN state /\ state[x] = "grace" }
           fromGrace == (meta.restore \cap DOMAIN g) \ (fromCompressed \cup byHint)
<1>1. /\ UNCHANGED <<route, reuse, status, table, ready, heldBy, resumed, meta, batch>>
      /\ compressed' = Without(c, fromCompressed)
      /\ kv' = [s \in Slots |->
                  IF s \in fromCompressed THEN c[s]
                  ELSE IF s \in fromGrace /\ route = "copyBack" THEN g[s]
                  ELSE kv[s]]
  BY DEF StartLoadKV
<1>2. Running' = Running
  BY <1>1 DEF Running
<1> HIDE DEF g, fromCompressed, byHint, fromGrace
<1> SUFFICES ASSUME route # "copyBack"
             PROVE  /\ CopiesHad'
                    /\ \A q \in Running \ resumed : \A k \in 1..Len(table[q]) :
                         Own(q, table[q][k]) => Whole(q, k)'
  BY <1>1, <1>2 DEF Intact, Own
<1>3. RemapHeld(meta.remap)
  BY DEF HistoryInv
<1>4. /\ DOMAIN compressed' \subseteq DOMAIN c
      /\ \A s \in DOMAIN compressed' : compressed'[s] = c[s]
  BY <1>1 DEF Without
<1>5. CopiesHad'
  <2>1. ASSUME NEW s \in DOMAIN c PROVE heldBy[s] # {}
    BY <1>3, <2>1, RekeyLeaves DEF RemapHeld, CopiesHad, Intact
  <2> QED
    BY <1>1, <1>4, <2>1 DEF CopiesHad, Intact
<1>6. ASSUME NEW q \in Running, q \notin resumed, NEW k \in 1..Len(table[q]), Own(q, table[q][k])
      PROVE  Whole(q, k)'
  <2> PICK s : s = table[q][k]
    OBVIOUS
  <2>1. s \in Slots /\ heldBy[s] = {q} /\ Whole(q, k)
    BY <1>6, HistoryFacts, SlotSet DEF Own, Intact
  <2>2. s \notin DOMAIN meta.remap /\ \A x \in DOMAIN meta.remap : meta.remap[x] # s
    BY <1>3, <1>6, <2>1 DEF RemapHeld
  <2>3. /\ s \in DOMAIN c <=> s \in DOMAIN compressed
        /\ s \in DOMAIN compressed => c[s] = compressed[s]
    BY <2>2, RekeyLeaves
  <2>4. s \in DOMAIN compressed' => compressed'[s] = <<q, k>>
    BY <1>4, <2>1, <2>3 DEF Whole
  <2>5. k <= ready[q] => kv'[s] = <<q, k>>
    <3>1. kv'[s] = IF s \in fromCompressed THEN c[s] ELSE kv[s]
      BY <1>1, <2>1
    <3>2. s \in fromCompressed => s \in DOMAIN c
      BY DEF fromCompressed
    <3> QED
      BY <2>1, <2>3, <3>1, <3>2 DEF Whole
  <2> QED
    BY <1>1, <2>1, <2>4, <2>5 DEF Whole
<1> QED
  BY <1>5, <1>6

(* What a pass leaves in a slot of one running request.                    *)
LEMMA ForwardOwn ==
  ASSUME HistoryInv, NEW q \in Running, NEW k \in 1..Len(table[q])
  PROVE  AfterForward[table[q][k]] =
           IF q \in batch /\ k > ready[q]
           THEN IF k = Len(table[q]) THEN None ELSE <<q, k>>
           ELSE kv[table[q][k]]
<1> PICK s : s = table[q][k]
  OBVIOUS
<1>1. /\ table[q] \in Seq(Slots) /\ s \in ToSet(table[q]) /\ s \in Slots /\ batch \subseteq Running
      /\ ready[q] \in Nat /\ Len(table[q]) \in Nat
  BY HistoryFacts, SlotSet DEF HistoryInv, ConnectorInv, StepTypes
<1>2. \A i \in 1..Len(table[q]) : table[q][i] = s => i = k
  BY <1>1, HistoryFacts, InjectiveIs
<1>3. \A p \in Running : s \in ToSet(table[p]) => p = q
  BY <1>1 DEF HistoryInv, ConnectorInv, SlotsDisjoint
<1>4. \A p \in batch : s \in Computed(p) => p = q
  <2>1. ASSUME NEW p \in batch, s \in Computed(p) PROVE s \in ToSet(table[p])
    <3>1. p \in Running /\ table[p] \in Seq(Slots) /\ ready[p] \in Nat
      BY <1>1, HistoryFacts
    <3>2. PICK i \in (ready[p] + 1)..Len(table[p]) : table[p][i] = s
      BY <2>1 DEF Computed
    <3>3. i \in 1..Len(table[p])
      BY <3>1
    <3> QED
      BY <3>1, <3>2, <3>3, SlotSet
  <2> QED
    BY <1>1, <1>3, <2>1
<1>5. s \in Computed(q) <=> k > ready[q]
  <2>1. ASSUME s \in Computed(q) PROVE k > ready[q]
    <3>1. PICK i \in (ready[q] + 1)..Len(table[q]) : table[q][i] = s
      BY <2>1 DEF Computed
    <3>2. i \in 1..Len(table[q]) /\ i > ready[q]
      BY <1>1
    <3> QED
      BY <1>2, <3>1, <3>2
  <2>2. ASSUME k > ready[q] PROVE s \in Computed(q)
    <3>1. k \in (ready[q] + 1)..Len(table[q])
      BY <1>1, <2>2
    <3> QED
      BY <3>1 DEF Computed
  <2> QED
    BY <2>1, <2>2
<1>6. CASE q \in batch /\ k > ready[q]
  <2>1. (CHOOSE p \in batch : s \in Computed(p)) = q
    BY <1>4, <1>5, <1>6
  <2>2. (CHOOSE i \in 1..Len(table[q]) : table[q][i] = s) = k
    BY <1>2
  <2>3. \E p \in batch : s \in Computed(p)
    BY <1>5, <1>6
  <2>4. AfterForward[s] =
          LET r == CHOOSE p \in batch : s \in Computed(p)
              i == CHOOSE j \in 1..Len(table[r]) : table[r][j] = s
          IN  IF i = Len(table[r]) THEN None ELSE <<r, i>>
    BY <1>1, <2>3 DEF AfterForward
  <2> QED
    BY <1>6, <2>1, <2>2, <2>4
<1>7. CASE ~(q \in batch /\ k > ready[q])
  <2>1. ~ \E p \in batch : s \in Computed(p)
    BY <1>4, <1>5, <1>7
  <2> QED
    BY <1>1, <1>7, <2>1 DEF AfterForward
<1> QED
  BY <1>6, <1>7

LEMMA SavedIntact ==
  ASSUME HistoryInv, Intact, SaveKVLayer
  PROVE  Intact'
<1>1. /\ UNCHANGED <<route, reuse, status, table, heldBy, resumed>>
      /\ kv' = AfterForward /\ meta' = EmptyPlan
      /\ ready' = [r \in Requests |-> IF r \in batch THEN Len(table[r]) - 1 ELSE ready[r]]
  BY DEF SaveKVLayer
<1>2. Running' = Running
  BY <1>1 DEF Running
<1>3. /\ DOMAIN compressed' = DOMAIN compressed \cup meta.compress
      /\ \A s \in DOMAIN compressed' :
           compressed'[s] = IF s \in meta.compress THEN AfterForward[s] ELSE compressed[s]
  BY DEF SaveKVLayer, Updated
<1> SUFFICES ASSUME route # "copyBack"
             PROVE  /\ CopiesHad'
                    /\ \A q \in Running \ resumed : \A k \in 1..Len(table[q]) :
                         Own(q, table[q][k]) => Whole(q, k)'
  BY <1>1, <1>2 DEF Intact, Own
<1>4. meta'.compress = {}
  BY <1>1 DEF EmptyPlan
<1>5. CopiesHad'
  BY <1>1, <1>3, <1>4 DEF CopiesHad, Intact
<1>6. ASSUME NEW q \in Running, q \notin resumed, NEW k \in 1..Len(table[q]), Own(q, table[q][k])
      PROVE  Whole(q, k)'
  <2> PICK s : s = table[q][k]
    OBVIOUS
  <2>1. Whole(q, k)
    BY <1>6 DEF Intact
  <2>2. /\ k <= ready[q] => kv[s] = <<q, k>>
        /\ s \in DOMAIN compressed => compressed[s] = <<q, k>>
        /\ s \in meta.compress => q \in batch /\ k < Len(table[q])
    BY <2>1 DEF Whole
  <2>3. AfterForward[s] = IF q \in batch /\ k > ready[q]
                          THEN IF k = Len(table[q]) THEN None ELSE <<q, k>>
                          ELSE kv[s]
    BY <1>6, ForwardOwn
  <2>4. /\ ready'[q] = IF q \in batch THEN Len(table[q]) - 1 ELSE ready[q]
        /\ ready[q] \in Nat /\ Len(table[q]) \in Nat
    BY <1>1, HistoryFacts
  <2>5. k <= ready'[q] => kv'[s] = <<q, k>>
    BY <1>1, <2>2, <2>3, <2>4
  <2>6. s \in DOMAIN compressed' => compressed'[s] = <<q, k>>
    BY <1>3, <2>2, <2>3, <2>4
  <2> QED
    BY <1>1, <1>4, <2>5, <2>6 DEF Whole
<1> QED
  BY <1>5, <1>6

LEMMA IntactKept == HistoryInv /\ Intact /\ [Next]_vars => Intact'
<1> SUFFICES ASSUME HistoryInv, Intact, [Next]_vars PROVE Intact'
  OBVIOUS
<1>1. ConnectorInv'
  BY ConnectorKept DEF HistoryInv
<1>2. CASE \E r \in Requests : ScheduleNew(r) \/ ScheduleResumed(r)
  BY <1>1, <1>2, NewIsScheduled, ScheduledIntact
<1>3. CASE \E active \in SUBSET Requests : ScheduleDecode(active)
  BY <1>1, <1>3, DecodeIsScheduled, ScheduledIntact
<1>4. CASE \/ \E r \in Requests : Preempt(r) \/ Resume(r) \/ RequestFinished(r) \/ ObserveAttention(r)
           \/ UNCHANGED vars
  BY <1>4, AsideIntact
<1>5. CASE StartLoadKV
  BY <1>5, LoadedIntact
<1>6. CASE SaveKVLayer
  BY <1>6, SavedIntact
<1> QED
  BY <1>2, <1>3, <1>4, <1>5, <1>6 DEF Next

(* With hints or coherent reads, the forward pass finds the request's own  *)
(* KV in every slot that was never another's, unless the request was       *)
(* preempted: no demotion, restore or remap in between has lost or mixed   *)
(* it up.                                                                  *)
THEOREM OwnKVReadBack == Spec => []OwnKVKept
<1>1. HistoryInv /\ Intact => OwnKVKept
  <2> SUFFICES ASSUME HistoryInv, Intact, phase = "save", route # "copyBack",
                      NEW r \in Running \ resumed, NEW k \in 1..ready[r], Own(r, table[r][k])
               PROVE  kv[table[r][k]] = <<r, k>>
    BY DEF OwnKVKept
  <2>1. r \in Requests /\ ready[r] \in Nat /\ Len(table[r]) \in Nat /\ ready[r] <= Len(table[r])
    BY HistoryFacts DEF HistoryInv, History
  <2>2. k \in 1..Len(table[r]) /\ k <= ready[r]
    BY <2>1
  <2>3. Whole(r, k)
    BY <2>2 DEF Intact
  <2> QED
    BY <2>2, <2>3 DEF Whole
<1> QED
  BY <1>1, HistoryAlways, IntactStart, IntactKept, PTL DEF Spec
=============================================================================
