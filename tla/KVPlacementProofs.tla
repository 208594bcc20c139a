------------------------- MODULE KVPlacementProofs -------------------------
(***************************************************************************)
(* Theorems about KVPlacement, for any blocks, sizes, owners and callers.  *)
(***************************************************************************)
EXTENDS KVPlacement, FoldTheorems, SequenceTheorems

TiersKept == Known \subseteq Blocks /\ tier \in [Known -> Tiers]

LEMMA TransitionsInTiers == \A s \in Tiers : Transitions[s] \subseteq Tiers
  BY DEF Tiers, Transitions

LEMMA MigrateTier ==
  ASSUME NEW c \in Callers, Migrate(c)
  PROVE  \/ tier' = tier
         \/ LET b == call[c].block
                target == call[c].target
            IN  Legal(b, target) /\ tier' = [tier EXCEPT ![b] = target]
  BY DEF Migrate

LEMMA TiersStep ==
  ASSUME TiersKept, [Next]_vars
  PROVE  TiersKept'
<1>1. ASSUME NEW b \in Blocks, NEW s \in FirstTiers, NEW m \in BOOLEAN,
             Register(b, s, m)
      PROVE  TiersKept'
  <2>1. s \in Tiers
    BY KVAssumption DEF Tiers
  <2> QED
    BY <1>1, <2>1 DEF Register, TiersKept, Known
<1>2. ASSUME NEW c \in Callers, Migrate(c)
      PROVE  TiersKept'
  <2>1. CASE tier' = tier
    BY <2>1 DEF TiersKept, Known
  <2>2. ASSUME NEW b, NEW target, Legal(b, target), tier' = [tier EXCEPT ![b] = target]
        PROVE  TiersKept'
    <3>1. b \in Known => target \in Tiers
      BY <2>2, TransitionsInTiers DEF TiersKept, Legal
    <3> QED
      BY <2>2, <3>1 DEF TiersKept, Known
  <2> QED
    BY <1>2, <2>1, <2>2, MigrateTier
<1>3. ASSUME NEW owner \in Owners, ReleaseOwner(owner)
      PROVE  TiersKept'
  BY <1>3 DEF ReleaseOwner, TiersKept, Known, Tiers
<1>4. ASSUME NEW c \in Callers, PlanMigration(c)
      PROVE  TiersKept'
  BY <1>4 DEF PlanMigration, TiersKept, Known
<1>5. ASSUME NEW c \in Callers, NEW b \in Blocks, NEW want \in Tiers, NEW linkOk \in BOOLEAN,
             Sample(c, b, want, linkOk)
      PROVE  TiersKept'
  BY <1>5 DEF Sample, TiersKept, Known
<1>6. CASE UNCHANGED vars
  BY <1>6 DEF vars, TiersKept, Known
<1> QED
  BY <1>1, <1>2, <1>3, <1>4, <1>5, <1>6 DEF Next

(* Whatever plans are still under way, what is evicted stays evicted and   *)
(* what is pinned leaves its tier only to be evicted.                      *)
THEOREM EvictedStays == Spec => NeverRevived
<1>1. ASSUME [Next]_vars
      PROVE  [\A b \in Known :
                tier'[b] # tier[b] =>
                  /\ tier[b] # "evicted"
                  /\ b \in pinned => tier'[b] = "evicted"]_vars
  <2> SUFFICES ASSUME Next, NEW b \in Known, tier'[b] # tier[b]
               PROVE  tier[b] # "evicted" /\ (b \in pinned => tier'[b] = "evicted")
    BY <1>1
  <2>1. CASE \E c \in Callers : Migrate(c)
    <3>1. PICK x, target : Legal(x, target) /\ tier' = [tier EXCEPT ![x] = target]
      BY <2>1, MigrateTier
    <3>2. b = x /\ tier'[b] = target
      BY <3>1 DEF Known
    <3> QED
      BY <3>1, <3>2 DEF Legal, Transitions
  <2>2. ASSUME NEW owner \in Owners, ReleaseOwner(owner)
        PROVE  tier[b] # "evicted" /\ tier'[b] = "evicted"
    BY <2>2 DEF ReleaseOwner
  <2>3. ASSUME NEW x \in Blocks, NEW s \in FirstTiers, NEW m \in BOOLEAN,
             Register(x, s, m)
        PROVE  FALSE
    BY <2>3 DEF Register
  <2>4. ~(\E c \in Callers : PlanMigration(c))
    BY DEF PlanMigration
  <2>5. ~(\E c \in Callers, x \in Blocks, want \in Tiers, linkOk \in BOOLEAN :
            Sample(c, x, want, linkOk))
    BY DEF Sample
  <2> QED
    BY <2>1, <2>2, <2>3, <2>4, <2>5 DEF Next
<1> QED
  BY <1>1, PTL DEF Spec, NeverRevived

-----------------------------------------------------------------------------
(* What the code's table, order and plans look like in every state.        *)
Plans ==
  { Idle } \cup
  [step : {"sampled"}, block : Blocks, want : Tiers, linkOk : BOOLEAN, free : Int] \cup
  [step : {"planned"}, block : Blocks, target : Tiers]

Events == [block : Blocks, from : Tiers, to : Tiers]

(* The dictionary lists each block once.                                   *)
OrderListsKnown ==
  /\ order \in Seq(Blocks)
  /\ { order[i] : i \in DOMAIN order } = Known
  /\ \A i, j \in DOMAIN order : order[i] = order[j] => i = j

TypeInv ==
  /\ TiersKept
  /\ OrderListsKnown
  /\ pinned \subseteq Known
  /\ log \in Seq(Events)
  /\ freed \in Nat
  /\ call \in [Callers -> Plans]
  /\ \A c \in Callers : call[c] # Idle => call[c].block \in Known


LEMMA SizeNat == \A b \in Blocks : Size[b] \in Nat
  BY KVAssumption

LEMMA PeerFreeInt ==
  ASSUME TypeInv
  PROVE  PeerFree \in Int
<1>1. IsFiniteSet(BlocksIn("peer")) /\ BlocksIn("peer") \subseteq Blocks
  BY KVAssumption, FS_Subset DEF BlocksIn, TypeInv, TiersKept
<1>2. BytesIn("peer") \in Int
  BY <1>1, SizeNat, SumInt DEF BytesIn
<1> QED
  BY <1>2, KVAssumption DEF PeerFree

(* The loop over the dictionary, one position at a time.                   *)
Collect(S, ids, i) == IF order[i] \in S THEN Append(ids, order[i]) ELSE ids

CollectAll(S, table, s) ==
  IF s = {} THEN << >> ELSE LET i == Max(s) IN Collect(S, table[s \ {i}], i)

LEMMA CollectTable ==
  ASSUME NEW S, NEW D, IsFiniteSet(D), D \subseteq Int
  PROVE  \E table : table = [s \in SUBSET D |-> CollectAll(S, table, s)]
<1> DEFINE pick == [s \in SUBSET D |-> Max(s)]
           step == [i \in D |-> [ids \in Seq(S) |-> Collect(S, ids, i)]]
<1>1. \A s \in SUBSET D : pick[s] = Max(s) /\ (s # {} => pick[s] \in s)
  BY MaxExists, FS_Subset
<1>2. \A i \in D, ids \in Seq(S) : step[i][ids] = Collect(S, ids, i)
  OBVIOUS
<1>3. \A i \in D, ids \in Seq(S) : step[i][ids] \in Seq(S)
  BY <1>2 DEF Collect
<1>4. << >> \in Seq(S)
  OBVIOUS
<1> HIDE DEF pick, step
<1>5. PICK table \in [SUBSET D -> Seq(S)] : Filled(D, << >>, pick, step, table)
  <2>1. PICK base : base = << >>
    OBVIOUS
  <2>2. PICK V : V = Seq(S)
    OBVIOUS
  <2>3. base \in V /\ \A i \in D, ids \in V : step[i][ids] \in V
    BY <1>3, <1>4, <2>1, <2>2
  <2>4. \A s \in SUBSET D : s # {} => pick[s] \in s
    BY <1>1
  <2>5. \E table \in [SUBSET D -> V] : Filled(D, base, pick, step, table)
    BY <2>3, <2>4, TableExists
  <2> QED
    BY <2>1, <2>2, <2>5
<1>6. ASSUME NEW s \in SUBSET D
      PROVE  table[s] = CollectAll(S, table, s)
  <2>1. CASE s = {}
    BY <1>5, <2>1 DEF Filled, CollectAll
  <2>2. CASE s # {}
    <3>1. PICK i : i = pick[s] /\ i = Max(s)
      BY <1>1
    <3>2. i \in D /\ table[s \ {i}] \in Seq(S)
      BY <1>1, <1>5, <2>2, <3>1
    <3>3. table[s] = step[i][table[s \ {i}]]
      BY <1>5, <2>2, <3>1 DEF Filled
    <3>4. table[s] = Collect(S, table[s \ {i}], i)
      BY <1>2, <3>2, <3>3
    <3> QED
      BY <2>2, <3>1, <3>4 DEF CollectAll
  <2> QED
    BY <2>1, <2>2
<1>7. table = [s \in SUBSET D |-> CollectAll(S, table, s)]
  BY <1>5, <1>6
<1> QED
  BY <1>7

LEMMA InOrderUnfold ==
  ASSUME NEW S, order \in Seq(Blocks)
  PROVE  \E prefix :
           /\ InOrder(S) = prefix[Len(order)]
           /\ prefix[0] = << >>
           /\ \A k \in 1..Len(order) : prefix[k] = Collect(S, prefix[k - 1], k)
<1> DEFINE D == 1..Len(order)
<1>1. IsFiniteSet(D) /\ D \subseteq Int /\ DOMAIN order = D /\ Len(order) \in Nat
  BY FS_Interval
<1>2. PICK table : /\ table = [s \in SUBSET D |-> CollectAll(S, table, s)]
                   /\ InOrder(S) = table[D]
  <2> DEFINE t == CHOOSE t : t = [s \in SUBSET D |-> CollectAll(S, t, s)]
  <2>1. InOrder(S) = t[D]
    BY <1>1 DEF InOrder, FoldLeft, MapThenFoldSet, CollectAll, Collect
  <2>2. t = [s \in SUBSET D |-> CollectAll(S, t, s)]
    BY <1>1, CollectTable
  <2> HIDE DEF t
  <2> QED
    BY <2>1, <2>2
<1> DEFINE prefix == [k \in 0..Len(order) |-> table[1..k]]
<1>3. prefix[0] = << >>
  <2>1. 1..0 = {} /\ {} \in SUBSET D /\ 0 \in 0..Len(order)
    BY <1>1
  <2>2. table[{}] = CollectAll(S, table, {})
    BY <1>2, <2>1
  <2>3. prefix[0] = table[{}]
    BY <2>1
  <2> QED
    BY <2>2, <2>3 DEF CollectAll
<1>4. ASSUME NEW k \in 1..Len(order)
      PROVE  prefix[k] = Collect(S, prefix[k - 1], k)
  <2>0. k \in Nat /\ k >= 1 /\ k <= Len(order)
    BY <1>1
  <2>1. /\ 1..k \in SUBSET D /\ k \in 1..k /\ k - 1 \in 0..Len(order)
        /\ (1..k) \ {k} = 1..(k - 1) /\ k \in 0..Len(order)
    <3>1. (1..k) \ {k} = 1..(k - 1)
      BY <2>0
    <3>2. 1..k \in SUBSET D
      BY <1>1, <2>0
    <3> QED
      BY <1>1, <2>0, <3>1, <3>2
  <2>2. Max(1..k) \in 1..k /\ \A y \in 1..k : Max(1..k) >= y
    BY <2>1, <1>1, MaxExists, FS_Subset
  <2>3. Max(1..k) = k
    BY <2>1, <2>2
  <2>4. table[1..k] = CollectAll(S, table, 1..k)
    BY <1>2, <2>1
  <2>5. table[1..k] = Collect(S, table[1..(k - 1)], k)
    BY <2>1, <2>3, <2>4 DEF CollectAll
  <2>6. prefix[k] = table[1..k] /\ prefix[k - 1] = table[1..(k - 1)]
    BY <2>1
  <2> QED
    BY <2>5, <2>6
<1>5. InOrder(S) = prefix[Len(order)]
  BY <1>1, <1>2
<1> HIDE DEF prefix
<1> QED
  BY <1>3, <1>4, <1>5

(* ids are the members of S among the first k positions, each once.        *)
Lists(S, ids, k) ==
  /\ ids \in Seq(S)
  /\ \A i \in 1..Len(ids) : \E m \in 1..k : ids[i] = order[m]
  /\ \A m \in 1..k : order[m] \in S => \E i \in 1..Len(ids) : ids[i] = order[m]
  /\ \A i, j \in 1..Len(ids) : ids[i] = ids[j] => i = j

(* A loop over the dictionary meets each wanted block once.                *)
LEMMA InOrderLists ==
  ASSUME OrderListsKnown, NEW S, S \subseteq Known
  PROVE  /\ InOrder(S) \in Seq(S)
         /\ { InOrder(S)[i] : i \in DOMAIN InOrder(S) } = S
         /\ \A i, j \in DOMAIN InOrder(S) : InOrder(S)[i] = InOrder(S)[j] => i = j
<1> DEFINE n == Len(order)
<1>1. n \in Nat /\ order \in Seq(Blocks) /\ DOMAIN order = 1..n
  BY DEF OrderListsKnown
<1>2. PICK prefix : /\ InOrder(S) = prefix[n]
                    /\ prefix[0] = << >>
                    /\ \A k \in 1..n : prefix[k] = Collect(S, prefix[k - 1], k)
  BY <1>1, InOrderUnfold
<1> DEFINE K == { k \in Nat : k <= n => Lists(S, prefix[k], k) }
<1>3. 0 \in K
  <2>1. << >> \in Seq(S) /\ Len(<< >>) = 0 /\ 1..0 = {}
    OBVIOUS
  <2>2. Lists(S, << >>, 0)
    BY <2>1 DEF Lists
  <2> QED
    BY <1>2, <2>2
<1>4. ASSUME NEW k \in Nat, k \in K
      PROVE  k + 1 \in K
  <2> SUFFICES ASSUME k + 1 <= n
               PROVE  Lists(S, prefix[k + 1], k + 1)
    OBVIOUS
  <2> DEFINE ids == prefix[k]
             b == order[k + 1]
  <2>1. Lists(S, ids, k)
    BY <1>1, <1>4
  <2>2. prefix[k + 1] = Collect(S, ids, k + 1) /\ k + 1 \in 1..n
    <3>1. k + 1 \in 1..n /\ (k + 1) - 1 = k
      BY <1>1
    <3> QED
      BY <1>2, <3>1
  <2>3. 1..(k + 1) = 1..k \cup {k + 1}
    OBVIOUS
  <2>4. CASE b \notin S
    <3>1. prefix[k + 1] = ids
      BY <2>2, <2>4 DEF Collect
    <3> HIDE DEF ids, b
    <3>2. \A i \in 1..Len(ids) : \E m \in 1..(k + 1) : ids[i] = order[m]
      BY <2>1, <2>3 DEF Lists
    <3>3. \A m \in 1..(k + 1) : order[m] \in S => \E i \in 1..Len(ids) : ids[i] = order[m]
      BY <2>1, <2>3, <2>4 DEF b, Lists
    <3> QED
      BY <2>1, <3>1, <3>2, <3>3 DEF Lists
  <2>5. CASE b \in S
    <3>1. prefix[k + 1] = Append(ids, b)
      BY <2>2, <2>5 DEF Collect
    <3>2. ids \in Seq(S) /\ \A m \in 1..k : order[m] # b
      BY <1>1, <2>1, <2>2 DEF OrderListsKnown, Lists
    <3> DEFINE more == Append(ids, b)
    <3> HIDE DEF ids
    <3>3. /\ more \in Seq(S) /\ Len(more) = Len(ids) + 1 /\ Len(ids) \in Nat
          /\ more[Len(ids) + 1] = b
          /\ \A i \in 1..Len(ids) : more[i] = ids[i]
          /\ 1..Len(more) = 1..Len(ids) \cup {Len(ids) + 1}
      BY <2>5, <3>2
    <3> HIDE DEF more
    <3>4. ASSUME NEW i \in 1..Len(more)
          PROVE  \E m \in 1..(k + 1) : more[i] = order[m]
      <4>1. CASE i \in 1..Len(ids)
        BY <2>1, <2>3, <3>3, <4>1 DEF Lists
      <4>2. CASE i = Len(ids) + 1
        BY <2>3, <3>3, <4>2
      <4> QED
        BY <3>3, <4>1, <4>2
    <3>5. \A m \in 1..(k + 1) : order[m] \in S => \E i \in 1..Len(more) : more[i] = order[m]
      BY <2>1, <2>3, <3>3 DEF Lists
    <3>6. \A i \in 1..Len(ids) : ids[i] # b
      BY <2>1, <3>2 DEF Lists
    <3>7. ASSUME NEW i \in 1..Len(more), NEW j \in 1..Len(more), more[i] = more[j]
          PROVE  i = j
      <4>1. i \in 1..Len(ids) /\ j \in 1..Len(ids) => i = j
        BY <2>1, <3>3, <3>7 DEF Lists
      <4>2. i \in 1..Len(ids) /\ j = Len(ids) + 1 => FALSE
        BY <3>3, <3>6, <3>7
      <4>3. j \in 1..Len(ids) /\ i = Len(ids) + 1 => FALSE
        BY <3>3, <3>6, <3>7
      <4> QED
        BY <3>3, <4>1, <4>2, <4>3
    <3>8. Lists(S, more, k + 1)
      BY <3>3, <3>4, <3>5, <3>7 DEF Lists
    <3> QED
      BY <3>1, <3>8 DEF more, ids
  <2> QED
    BY <2>4, <2>5
<1> HIDE DEF K
<1>5. Nat \subseteq K
  BY <1>3, <1>4, SetInduction
<1>6. Lists(S, InOrder(S), n)
  <2>1. n \in K
    BY <1>1, <1>5
  <2> QED
    BY <1>1, <1>2, <2>1 DEF K
<1>7. ASSUME NEW b \in S
      PROVE  \E m \in 1..n : order[m] = b
  BY <1>1 DEF OrderListsKnown
<1>8. DOMAIN InOrder(S) = 1..Len(InOrder(S)) /\ \A i \in DOMAIN InOrder(S) : InOrder(S)[i] \in S
  BY <1>6 DEF Lists
<1>9. \A b \in S : \E i \in DOMAIN InOrder(S) : InOrder(S)[i] = b
  BY <1>6, <1>7, <1>8 DEF Lists
<1> QED
  BY <1>6, <1>8, <1>9 DEF Lists

-----------------------------------------------------------------------------
(* l is a history of the tiers t, of blocks registered in t: LogTellsTier  *)
(* with the next entry of a block named instead of computed.               *)
Silent(l, b, i, j) == \A k \in DOMAIN l : i < k /\ k < j => l[k].block # b

History(l, t) ==
  \A i \in DOMAIN l :
    LET b == l[i].block IN
    /\ b \in DOMAIN t
    /\ l[i].to \in Transitions[l[i].from]
    /\ Silent(l, b, i, Len(l) + 1) => t[b] = l[i].to
    /\ \A j \in DOMAIN l :
         i < j /\ l[j].block = b /\ Silent(l, b, i, j) => l[j].from = l[i].to

LEMMA TransitionsToEvicted == \A s \in Tiers \ {"evicted"} : "evicted" \in Transitions[s]
  BY DEF Tiers, Transitions

LEMMA HistoryTells ==
  ASSUME log \in Seq(Events), History(log, tier)
  PROVE  LogTellsTier
<1> SUFFICES ASSUME NEW i \in DOMAIN log,
                    NEW later, later = { j \in DOMAIN log : j > i /\ log[j].block = log[i].block }
             PROVE  /\ log[i].to \in Transitions[log[i].from]
                    /\ IF later = {} THEN tier[log[i].block] = log[i].to
                                     ELSE log[Min(later)].from = log[i].to
  BY Zenon DEF LogTellsTier
<1>1. DOMAIN log = 1..Len(log) /\ Len(log) \in Nat
  OBVIOUS
<1>2. ASSUME later = {}
      PROVE  tier[log[i].block] = log[i].to
  <2>1. Silent(log, log[i].block, i, Len(log) + 1)
    BY <1>2 DEF Silent
  <2> QED
    BY <2>1 DEF History
<1>3. ASSUME later # {}
      PROVE  log[Min(later)].from = log[i].to
  <2>1. PICK m : m = Min(later)
    OBVIOUS
  <2>2. m \in later /\ \A j \in later : m <= j
    <3>1. later \subseteq Nat
      BY <1>1
    <3> QED
      BY <1>3, <2>1, <3>1, MinNat
  <2>3. Silent(log, log[i].block, i, m)
    BY <1>1, <2>2 DEF Silent
  <2> QED
    BY <1>1, <2>1, <2>2, <2>3 DEF History
<1> QED
  BY <1>2, <1>3 DEF History

(* Forgetting the oldest entries.                                          *)
LEMMA HistoryTrim ==
  ASSUME NEW l \in Seq(Events), NEW t, History(l, t)
  PROVE  Trimmed(l) \in Seq(Events) /\ History(Trimmed(l), t)
<1> DEFINE d == Len(l) - MaxEvents
           s == SubSeq(l, d + 1, Len(l))
<1>1. MaxEvents \in Nat \ {0} /\ Len(l) \in Nat
  BY KVAssumption
<1>2. CASE ~(Len(l) > MaxEvents)
  BY <1>2 DEF Trimmed
<1>3. CASE Len(l) > MaxEvents
  <2>1. /\ Trimmed(l) = s /\ d \in Nat /\ s \in Seq(Events) /\ Len(s) = Len(l) - d
        /\ DOMAIN s = 1..(Len(l) - d)
        /\ \A i \in 1..(Len(l) - d) : s[i] = l[i + d] /\ i + d \in 1..Len(l)
    BY <1>1, <1>3 DEF Trimmed
  <2> HIDE DEF s, d
  <2>2. ASSUME NEW b, NEW i \in DOMAIN s, NEW j \in Nat, Silent(s, b, i, j)
        PROVE  Silent(l, b, i + d, j + d)
    <3>1. ASSUME NEW k \in DOMAIN l, i + d < k, k < j + d
          PROVE  l[k].block # b
      <4>1. k - d \in DOMAIN s /\ i < k - d /\ k - d < j /\ (k - d) + d = k
        BY <2>1, <3>1
      <4> QED
        BY <2>1, <2>2, <4>1 DEF Silent
    <3> QED
      BY <3>1 DEF Silent
  <2>3. ASSUME NEW i \in DOMAIN s
        PROVE  /\ s[i].block \in DOMAIN t
               /\ s[i].to \in Transitions[s[i].from]
               /\ Silent(s, s[i].block, i, Len(s) + 1) => t[s[i].block] = s[i].to
    <3>1. Len(s) + 1 \in Nat /\ (Len(s) + 1) + d = Len(l) + 1 /\ s[i] = l[i + d] /\ i + d \in DOMAIN l
      BY <1>1, <2>1
    <3>2. Silent(s, s[i].block, i, Len(s) + 1) => Silent(l, s[i].block, i + d, Len(l) + 1)
      BY <2>2, <3>1
    <3> QED
      BY <3>1, <3>2 DEF History
  <2>4. ASSUME NEW i \in DOMAIN s, NEW j \in DOMAIN s, i < j, s[j].block = s[i].block,
               Silent(s, s[i].block, i, j)
        PROVE  s[j].from = s[i].to
    <3>1. /\ s[i] = l[i + d] /\ i + d \in DOMAIN l /\ s[j] = l[j + d] /\ j + d \in DOMAIN l
          /\ i + d < j + d /\ j \in Nat
      BY <1>1, <2>1, <2>4
    <3>2. Silent(l, s[i].block, i + d, j + d)
      BY <2>2, <2>4, <3>1
    <3> QED
      BY <2>4, <3>1, <3>2 DEF History
  <2> QED
    BY <2>1, <2>3, <2>4 DEF History
<1> QED
  BY <1>2, <1>3

(* Appending steps of different blocks, each from its block's tier.        *)
LEMMA HistoryExtends ==
  ASSUME NEW l \in Seq(Events), NEW add \in Seq(Events), NEW t, NEW t2, History(l, t),
         DOMAIN t2 = DOMAIN t,
         \A k \in 1..Len(add) :
           /\ add[k].block \in DOMAIN t
           /\ add[k].from = t[add[k].block]
           /\ add[k].to \in Transitions[add[k].from]
           /\ t2[add[k].block] = add[k].to,
         \A b \in DOMAIN t : (\A k \in 1..Len(add) : add[k].block # b) => t2[b] = t[b],
         \A k, m \in 1..Len(add) : add[k].block = add[m].block => k = m
  PROVE  History(l \o add, t2)
<1> DEFINE h == l \o add
           L == Len(l)
           A == Len(add)
<1>1. /\ L \in Nat /\ A \in Nat /\ Len(h) = L + A /\ DOMAIN h = 1..(L + A)
      /\ DOMAIN l = 1..L
      /\ \A i \in 1..L : h[i] = l[i]
      /\ \A k \in 1..A : h[L + k] = add[k] /\ L + k \in 1..(L + A)
      /\ \A i \in 1..(L + A) : i \in 1..L \/ (i - L \in 1..A /\ i = L + (i - L))
  OBVIOUS
<1> HIDE DEF h
<1>2. ASSUME NEW b, NEW i \in 1..L, NEW j \in 1..(L + A + 1), j > L, Silent(h, b, i, j)
      PROVE  Silent(l, b, i, L + 1)
  BY <1>1, <1>2 DEF Silent
<1>3. ASSUME NEW i \in DOMAIN h, NEW b, b = h[i].block
      PROVE  /\ b \in DOMAIN t2
             /\ h[i].to \in Transitions[h[i].from]
             /\ Silent(h, b, i, Len(h) + 1) => t2[b] = h[i].to
  <2>1. CASE i \in 1..L
    <3>1. b \in DOMAIN t /\ h[i] = l[i] /\ l[i].to \in Transitions[l[i].from]
      BY <1>1, <1>3, <2>1 DEF History
    <3>2. ASSUME Silent(h, b, i, Len(h) + 1)
          PROVE  t2[b] = h[i].to
      <4>1. Silent(l, b, i, L + 1)
        <5>1. Len(h) + 1 \in 1..(L + A + 1) /\ Len(h) + 1 > L
          BY <1>1
        <5> QED
          BY <1>2, <2>1, <3>2, <5>1
      <4>2. ASSUME NEW k \in 1..A
            PROVE  add[k].block # b
        <5>1. /\ L + k \in DOMAIN h /\ i < L + k /\ L + k < Len(h) + 1
              /\ h[L + k] = add[k]
          BY <1>1, <2>1
        <5> QED
          BY <3>2, <5>1 DEF Silent
      <4>3. t[b] = l[i].to
        BY <1>1, <1>3, <2>1, <3>1, <4>1 DEF History
      <4> QED
        BY <3>1, <4>2, <4>3
    <3> QED
      BY <3>1, <3>2
  <2>2. CASE i - L \in 1..A /\ i = L + (i - L)
    BY <1>1, <1>3, <2>2
  <2> QED
    BY <1>1, <2>1, <2>2
<1>4. ASSUME NEW i \in DOMAIN h, NEW j \in DOMAIN h, i < j, h[j].block = h[i].block,
             Silent(h, h[i].block, i, j)
      PROVE  h[j].from = h[i].to
  <2>1. CASE i \in 1..L /\ j \in 1..L
    <3>1. Silent(l, h[i].block, i, j)
      BY <1>1, <1>4, <2>1 DEF Silent
    <3> QED
      BY <1>1, <1>4, <2>1, <3>1 DEF History
  <2>2. CASE i \in 1..L /\ j - L \in 1..A /\ j = L + (j - L)
    <3>1. Silent(l, h[i].block, i, L + 1)
      BY <1>1, <1>2, <1>4, <2>2
    <3>2. t[h[i].block] = h[i].to
      BY <1>1, <2>2, <3>1 DEF History
    <3>3. h[j].from = t[h[j].block]
      BY <1>1, <2>2
    <3> QED
      BY <1>4, <3>2, <3>3
  <2>3. CASE i - L \in 1..A /\ i = L + (i - L)
    <3>1. j - L \in 1..A /\ j = L + (j - L)
      BY <1>1, <1>4, <2>3
    <3>2. i - L = j - L
      <4>1. PICK k \in 1..A, m \in 1..A : k = i - L /\ m = j - L
        BY <2>3, <3>1
      <4>2. h[i] = add[k] /\ h[j] = add[m]
        BY <1>1, <2>3, <3>1, <4>1
      <4>3. add[k].block = add[m].block
        BY <1>4, <4>2
      <4>4. k = m
        BY <4>3
      <4> QED
        BY <4>1, <4>4
    <3> QED
      BY <1>1, <1>4, <3>2
  <2> QED
    BY <1>1, <2>1, <2>2, <2>3
<1>5. History(h, t2)
  BY <1>3, <1>4 DEF History
<1> QED
  BY <1>5 DEF h

-----------------------------------------------------------------------------
(* The calls.                                                              *)
LEMMA PlanStep ==
  ASSUME TypeInv, NEW c \in Callers
  PROVE  /\ call[c].step = "sampled" =>
              /\ call[c].block \in Known /\ call[c].want \in Tiers
              /\ call[c].linkOk \in BOOLEAN /\ call[c].free \in Int
         /\ call[c].step = "planned" => call[c].block \in Known /\ call[c].target \in Tiers
<1>1. call[c] \in Plans
  BY DEF TypeInv
<1>2. call[c].step # "idle" => call[c].block \in Known
  BY DEF TypeInv, Idle
<1> QED
  BY <1>1, <1>2 DEF Plans, Idle

(* migrate() either commits one legal step of one registered block or      *)
(* changes nothing but its caller.                                         *)
LEMMA MigrateShape ==
  ASSUME TypeInv, NEW c \in Callers, Migrate(c)
  PROVE  /\ UNCHANGED <<order, freed>>
         /\ call' = [call EXCEPT ![c] = Idle]
         /\ \/ UNCHANGED <<log, tier>>
            \/ \E b \in Known, target \in Tiers :
                 /\ b = call[c].block /\ target = call[c].target
                 /\ Legal(b, target)
                 /\ tier' = [tier EXCEPT ![b] = target]
                 /\ log' = Trimmed(Append(log, Event(b, tier[b], target)))
  BY PlanStep DEF Migrate

(* release() evicts, once each, blocks that were not evicted.              *)
LEMMA ReleaseShape ==
  ASSUME TypeInv, NEW owner \in Owners, ReleaseOwner(owner)
  PROVE  \E ids \in SUBSET Known, add \in Seq(Events) :
           /\ UNCHANGED <<order, call>>
           /\ \A b \in ids : tier[b] \in Tiers \ {"evicted"}
           /\ tier' = [b \in Known |-> IF b \in ids THEN "evicted" ELSE tier[b]]
           /\ freed' = freed + SumFunctionOnSet(Size, ids)
           /\ log' = log \o add
           /\ { add[k].block : k \in 1..Len(add) } = ids
           /\ \A k \in 1..Len(add) : add[k].to = "evicted" /\ add[k].from = tier[add[k].block]
           /\ \A k, m \in 1..Len(add) : add[k].block = add[m].block => k = m
<1> DEFINE S == { b \in Known : OwnerOf[b] = owner /\ tier[b] # "evicted" }
           gone == InOrder(S)
           add == [i \in DOMAIN gone |-> Event(gone[i], tier[gone[i]], "evicted")]
<1>1. /\ S \subseteq Known /\ Known \subseteq Blocks
      /\ \A b \in S : tier[b] \in Tiers \ {"evicted"}
  BY DEF TypeInv, TiersKept
<1>2. /\ gone \in Seq(S)
      /\ { gone[i] : i \in DOMAIN gone } = S
      /\ \A i, j \in DOMAIN gone : gone[i] = gone[j] => i = j
  BY <1>1, InOrderLists DEF TypeInv
<1>3. /\ log' = log \o add
      /\ tier' = [b \in Known |-> IF b \in S THEN "evicted" ELSE tier[b]]
      /\ freed' = freed + SumFunctionOnSet(Size, S)
      /\ UNCHANGED <<order, call>>
  BY <1>2 DEF ReleaseOwner, Releasable
<1> HIDE DEF gone, S
<1>4. /\ DOMAIN gone = 1..Len(gone) /\ Len(gone) \in Nat
      /\ \A i \in DOMAIN gone : gone[i] \in S
  BY <1>2
<1>5. \A i \in DOMAIN gone :
        /\ add[i] = Event(gone[i], tier[gone[i]], "evicted") /\ add[i] \in Events
        /\ add[i].block = gone[i] /\ add[i].to = "evicted" /\ add[i].from = tier[gone[i]]
  BY <1>1, <1>4 DEF Event, Events, Tiers
<1>6. add \in Seq(Events) /\ Len(add) = Len(gone)
  <2>1. add \in [1..Len(gone) -> Events]
    BY <1>4, <1>5
  <2> HIDE DEF add
  <2> QED
    BY <1>4, <2>1
<1> HIDE DEF add
<1>7. { add[k].block : k \in 1..Len(add) } = S
  <2>1. \A k \in 1..Len(add) : k \in DOMAIN gone /\ add[k].block = gone[k]
    BY <1>4, <1>5, <1>6
  <2>2. \A x \in S : \E k \in DOMAIN gone : gone[k] = x
    BY <1>2
  <2>3. DOMAIN gone = 1..Len(add)
    BY <1>4, <1>6
  <2>4. \A x \in S : \E k \in 1..Len(add) : add[k].block = x
    BY <2>1, <2>2, <2>3
  <2>5. \A k \in 1..Len(add) : add[k].block \in S
    BY <1>4, <2>1
  <2> QED
    BY <2>4, <2>5
<1>8. \A k, m \in 1..Len(add) : add[k].block = add[m].block => k = m
  BY <1>2, <1>4, <1>5, <1>6
<1>9. \A k \in 1..Len(add) : add[k].to = "evicted" /\ add[k].from = tier[add[k].block]
  BY <1>4, <1>5, <1>6
<1> QED
  BY <1>1, <1>3, <1>6, <1>7, <1>8, <1>9

LEMMA TypeInvInit == Init => TypeInv
<1> SUFFICES ASSUME Init PROVE TypeInv
  OBVIOUS
<1>1. /\ Known = {} /\ pinned = {} /\ order = << >> /\ log = << >> /\ freed = 0
      /\ call = [c \in Callers |-> Idle]
  BY DEF Init, Known
<1>2. << >> \in Seq(Blocks) /\ << >> \in Seq(Events) /\ DOMAIN << >> = {}
  OBVIOUS
<1>3. OrderListsKnown
  BY <1>1, <1>2 DEF OrderListsKnown
<1>4. TiersKept
  BY DEF Init, TiersKept, Known
<1> QED
  BY <1>1, <1>2, <1>3, <1>4 DEF TypeInv, Plans

LEMMA PinnedKnown ==
  ASSUME pinned \subseteq Known, [Next]_vars
  PROVE  pinned' \subseteq Known'
<1>1. ASSUME NEW b \in Blocks, NEW s \in FirstTiers, NEW m \in BOOLEAN, Register(b, s, m)
      PROVE  pinned' \subseteq Known'
  BY <1>1 DEF Register, Known
<1>2. ASSUME NEW c \in Callers, Migrate(c) PROVE pinned' \subseteq Known'
  BY <1>2 DEF Migrate, Known
<1>3. ASSUME NEW owner \in Owners, ReleaseOwner(owner) PROVE pinned' \subseteq Known'
  BY <1>3 DEF ReleaseOwner, Known
<1>4. ASSUME NEW c \in Callers, PlanMigration(c) PROVE pinned' \subseteq Known'
  BY <1>4 DEF PlanMigration, Known
<1>5. ASSUME NEW c \in Callers, NEW b \in Blocks, NEW want \in Tiers, NEW linkOk \in BOOLEAN,
             Sample(c, b, want, linkOk)
      PROVE  pinned' \subseteq Known'
  BY <1>5 DEF Sample, Known
<1>6. CASE UNCHANGED vars
  BY <1>6 DEF vars, Known
<1> QED
  BY <1>1, <1>2, <1>3, <1>4, <1>5, <1>6 DEF Next

LEMMA TypeInvNext ==
  ASSUME TypeInv, [Next]_vars
  PROVE  TypeInv'
<1>0. TiersKept'
  BY TiersStep DEF TypeInv
<1>p. pinned' \subseteq Known'
  BY PinnedKnown DEF TypeInv
<1>1. ASSUME NEW b \in Blocks, NEW s \in FirstTiers, NEW m \in BOOLEAN,
             Register(b, s, m)
      PROVE  TypeInv'
  <2>1. /\ Known' = Known \cup {b} /\ b \notin Known /\ order' = Append(order, b)
        /\ UNCHANGED <<log, call, freed>>
    BY <1>1 DEF Register, Known
  <2>2. /\ order \in Seq(Blocks) /\ Len(order) \in Nat /\ DOMAIN order = 1..Len(order)
        /\ order' \in Seq(Blocks)
        /\ DOMAIN order' = 1..Len(order) \cup {Len(order) + 1}
        /\ order'[Len(order) + 1] = b
        /\ \A i \in 1..Len(order) : order'[i] = order[i]
    BY <2>1 DEF TypeInv, OrderListsKnown
  <2>3. { order'[i] : i \in DOMAIN order' } = Known'
    <3>1. \A i \in DOMAIN order' : order'[i] \in Known'
      BY <2>1, <2>2 DEF TypeInv, OrderListsKnown
    <3>2. \A x \in Known' : \E i \in DOMAIN order' : order'[i] = x
      BY <2>1, <2>2 DEF TypeInv, OrderListsKnown
    <3> QED
      BY <3>1, <3>2
  <2>4. ASSUME NEW i \in DOMAIN order', NEW j \in DOMAIN order', order'[i] = order'[j]
        PROVE  i = j
    BY <2>1, <2>2, <2>4 DEF TypeInv, OrderListsKnown
  <2>5. OrderListsKnown'
    BY <2>2, <2>3, <2>4 DEF OrderListsKnown
  <2> QED
    BY <1>0, <1>p, <2>1, <2>5 DEF TypeInv
<1>2. ASSUME NEW c \in Callers, NEW b \in Blocks, NEW want \in Tiers, NEW linkOk \in BOOLEAN,
             Sample(c, b, want, linkOk)
      PROVE  TypeInv'
  <2> DEFINE q == [step |-> "sampled", block |-> b, want |-> want, linkOk |-> linkOk,
                   free |-> PeerFree]
  <2>1. q \in Plans /\ q.block \in Known
    BY <1>2, PeerFreeInt DEF Plans, Sample
  <2>2. call' = [call EXCEPT ![c] = q] /\ UNCHANGED <<tier, order, log, freed>>
    BY <1>2 DEF Sample
  <2> HIDE DEF q
  <2> QED
    BY <1>0, <1>p, <2>1, <2>2 DEF TypeInv, OrderListsKnown, Known
<1>3. ASSUME NEW c \in Callers, PlanMigration(c)
      PROVE  TypeInv'
  <2> DEFINE q == [step |-> "planned", block |-> call[c].block,
                   target |-> Fallback(call[c].block, call[c].want, call[c].linkOk, call[c].free)]
  <2>1. call[c].block \in Known /\ call[c].want \in Tiers
    BY <1>3, PlanStep DEF PlanMigration
  <2>2. q \in Plans /\ q.block \in Known
    BY <2>1 DEF Plans, Fallback, Tiers, TypeInv, TiersKept
  <2>3. call' = [call EXCEPT ![c] = q] /\ UNCHANGED <<tier, order, log, freed>>
    BY <1>3 DEF PlanMigration
  <2> HIDE DEF q
  <2> QED
    BY <1>0, <1>p, <2>2, <2>3 DEF TypeInv, OrderListsKnown, Known
<1>4. ASSUME NEW c \in Callers, Migrate(c)
      PROVE  TypeInv'
  <2>1. Known' = Known /\ log' \in Seq(Events)
    <3>1. CASE UNCHANGED <<log, tier>>
      BY <3>1 DEF TypeInv, Known
    <3>2. ASSUME NEW b \in Known, NEW target \in Tiers,
                 tier' = [tier EXCEPT ![b] = target],
                 log' = Trimmed(Append(log, Event(b, tier[b], target)))
          PROVE  Known' = Known /\ log' \in Seq(Events)
      <4>1. Event(b, tier[b], target) \in Events
        BY DEF Event, Events, TypeInv, TiersKept
      <4>2. Append(log, Event(b, tier[b], target)) \in Seq(Events)
        BY <4>1 DEF TypeInv
      <4>3. \A l \in Seq(Events) : Trimmed(l) \in Seq(Events)
        BY KVAssumption DEF Trimmed
      <4> QED
        BY <3>2, <4>2, <4>3 DEF Known
    <3> QED
      BY <1>4, <3>1, <3>2, MigrateShape
  <2>2. UNCHANGED <<order, freed>> /\ call' = [call EXCEPT ![c] = Idle]
    BY <1>4, MigrateShape
  <2> QED
    BY <1>0, <1>p, <2>1, <2>2 DEF TypeInv, OrderListsKnown, Plans
<1>5. ASSUME NEW owner \in Owners, ReleaseOwner(owner)
      PROVE  TypeInv'
  <2>1. PICK ids \in SUBSET Known, add \in Seq(Events) :
          /\ UNCHANGED <<order, call>>
          /\ tier' = [b \in Known |-> IF b \in ids THEN "evicted" ELSE tier[b]]
          /\ freed' = freed + SumFunctionOnSet(Size, ids)
          /\ log' = log \o add
    BY <1>5, ReleaseShape
  <2>2. Known' = Known
    BY <2>1 DEF Known
  <2>3. SumFunctionOnSet(Size, ids) \in Nat
    <3>1. ids \subseteq Blocks /\ IsFiniteSet(ids)
      BY KVAssumption, FS_Subset DEF TypeInv, TiersKept
    <3> QED
      BY <3>1, SizeNat, SumNat
  <2>4. log' \in Seq(Events)
    BY <2>1 DEF TypeInv
  <2> QED
    BY <1>0, <1>p, <2>1, <2>2, <2>3, <2>4 DEF TypeInv, OrderListsKnown
<1>6. CASE UNCHANGED vars
  BY <1>6 DEF vars, TypeInv, TiersKept, OrderListsKnown, Known
<1> QED
  BY <1>1, <1>2, <1>3, <1>4, <1>5, <1>6 DEF Next

LEMMA TypeInvAlways == Spec => []TypeInv
<1>1. TypeInv /\ [Next]_vars => TypeInv'
  BY TypeInvNext
<1> QED
  BY TypeInvInit, <1>1, PTL DEF Spec

(* Only plan_migration() turns a sample into a plan.                       *)
LEMMA OnlyPlanning ==
  ASSUME TypeInv, Next, NEW c \in Callers, call[c].step = "sampled",
         call'[c].step = "planned"
  PROVE  PlanMigration(c)
<1>0. call \in [Callers -> Plans]
  BY DEF TypeInv
<1>1. ASSUME NEW d \in Callers, Migrate(d) PROVE FALSE
  BY <1>0, <1>1 DEF Migrate, Idle
<1>2. ASSUME NEW d \in Callers, d # c, PlanMigration(d) PROVE FALSE
  BY <1>0, <1>2 DEF PlanMigration
<1>3. ASSUME NEW d \in Callers, NEW b \in Blocks, NEW want \in Tiers,
             NEW linkOk \in BOOLEAN, Sample(d, b, want, linkOk)
      PROVE  FALSE
  BY <1>0, <1>3 DEF Sample
<1>4. ASSUME NEW b \in Blocks, NEW s \in FirstTiers, NEW m \in BOOLEAN, Register(b, s, m)
      PROVE  FALSE
  BY <1>4 DEF Register
<1>5. ASSUME NEW owner \in Owners, ReleaseOwner(owner) PROVE FALSE
  BY <1>5 DEF ReleaseOwner
<1> QED
  BY <1>1, <1>2, <1>3, <1>4, <1>5 DEF Next

(* Every plan has room in its sample and a link that was up, or falls back *)
(* on the host, and is legal as long as its wish is: a peer that is full   *)
(* or a link that is down never leaves a caller with a plan nobody may     *)
(* commit.                                                                 *)
THEOREM FallbackAlwaysLegal == Spec => FallbackLegal
<1> DEFINE Fits(c) ==
      call[c].step = "sampled" /\ call'[c].step = "planned" =>
        LET q == call[c]
            target == call'[c].target
            open == Transitions[tier[q.block]]
        IN  /\ q.want \in open => target \in open
            /\ target = "peer" => q.linkOk /\ q.free >= Size[q.block]
            /\ target \in {q.want, "host"}
<1>1. ASSUME TypeInv, [Next]_vars
      PROVE  [\A c \in Callers : Fits(c)]_vars
  <2> SUFFICES ASSUME Next, NEW c \in Callers, call[c].step = "sampled",
                      call'[c].step = "planned"
               PROVE  Fits(c)
    BY <1>1
  <2> DEFINE q == call[c]
             target == Fallback(q.block, q.want, q.linkOk, q.free)
  <2>1. PlanMigration(c)
    BY <1>1, OnlyPlanning
  <2>2. call'[c].target = target
    BY <1>1, <2>1 DEF PlanMigration, TypeInv
  <2>3. q.block \in Known /\ tier[q.block] \in Tiers
    BY <1>1, PlanStep DEF TypeInv, TiersKept
  <2>4. /\ "host" \in Transitions["local"] /\ "host" \in Transitions["peer"]
        /\ \A s \in Tiers : "peer" \in Transitions[s] => s = "local"
    BY DEF Tiers, Transitions
  <2>5. /\ target = "peer" => q.linkOk /\ q.free >= Size[q.block]
        /\ target \in {q.want, "host"}
        /\ target # q.want => q.want = "peer" \/ tier[q.block] = "peer"
    <3>1. q.free \in Int /\ Size[q.block] \in Nat
      BY <1>1, PlanStep, KVAssumption DEF TypeInv, TiersKept
    <3> QED
      BY <3>1 DEF Fallback
  <2>6. q.want \in Transitions[tier[q.block]] => target \in Transitions[tier[q.block]]
    BY <2>3, <2>4, <2>5
  <2> HIDE DEF q, target
  <2> QED
    BY <2>2, <2>5, <2>6 DEF q
<1> QED
  BY <1>1, TypeInvAlways, PTL DEF Spec, FallbackLegal

(* Every variable keeps to its type, and a caller's plan names a           *)
(* registered block and a tier.                                            *)
THEOREM TypeCorrect == Spec => []TypeOK
<1>1. TypeInv => TypeOK
  <2> SUFFICES ASSUME TypeInv PROVE TypeOK
    OBVIOUS
  <2>1. \A c \in Callers :
          /\ call[c] # Idle => call[c].block \in Known
          /\ call[c].step = "planned" => call[c].target \in Tiers
    BY PlanStep DEF TypeInv
  <2> QED
    BY <2>1 DEF TypeOK, TypeInv, TiersKept, OrderListsKnown, Events
<1> QED
  BY <1>1, TypeInvAlways, PTL

-----------------------------------------------------------------------------
LEMMA HistoryNext ==
  ASSUME TypeInv, History(log, tier), [Next]_vars
  PROVE  History(log', tier')
<1>0. log \in Seq(Events) /\ DOMAIN tier = Known
  BY DEF TypeInv, Known
<1>1. ASSUME NEW b \in Blocks, NEW s \in FirstTiers, NEW m \in BOOLEAN,
             Register(b, s, m)
      PROVE  History(log', tier')
  <2>1. /\ log' = log /\ DOMAIN tier \subseteq DOMAIN tier'
        /\ \A x \in DOMAIN tier : tier'[x] = tier[x]
    BY <1>1, <1>0 DEF Register, Known
  <2> QED
    BY <2>1 DEF History
<1>2. ASSUME NEW c \in Callers, Migrate(c)
      PROVE  History(log', tier')
  <2>1. CASE UNCHANGED <<log, tier>>
    BY <2>1
  <2>2. ASSUME NEW b \in Known, NEW target \in Tiers, Legal(b, target),
               tier' = [tier EXCEPT ![b] = target],
               log' = Trimmed(Append(log, Event(b, tier[b], target)))
        PROVE  History(log', tier')
    <3> DEFINE e == Event(b, tier[b], target)
               add == <<e>>
    <3>1. e \in Events /\ e.block = b /\ e.from = tier[b] /\ e.to = target
      BY DEF Event, Events, TypeInv, TiersKept
    <3>2. target \in Transitions[tier[b]] /\ tier'[b] = target /\ DOMAIN tier' = DOMAIN tier
      BY <2>2, <1>0 DEF Legal
    <3> HIDE DEF e
    <3>3. /\ add \in Seq(Events) /\ Len(add) = 1 /\ add[1] = e
          /\ \A k \in 1..Len(add) : k = 1
      BY <3>1
    <3>4. Append(log, e) = log \o add /\ log \o add \in Seq(Events)
      BY <1>0, <3>1
    <3> HIDE DEF add
    <3>5. \A x \in DOMAIN tier : (\A k \in 1..Len(add) : add[k].block # x) => tier'[x] = tier[x]
      BY <2>2, <3>1, <3>3
    <3>6. \A k \in 1..Len(add) :
            /\ add[k].block \in DOMAIN tier
            /\ add[k].from = tier[add[k].block]
            /\ add[k].to \in Transitions[add[k].from]
            /\ tier'[add[k].block] = add[k].to
      BY <1>0, <3>1, <3>2, <3>3
    <3>7. \A k, m \in 1..Len(add) : add[k].block = add[m].block => k = m
      BY <3>3
    <3>8. History(log \o add, tier')
      BY <1>0, <3>2, <3>3, <3>5, <3>6, <3>7, HistoryExtends
    <3>9. log' = Trimmed(log \o add)
      BY <2>2, <3>4 DEF e
    <3> QED
      BY <3>4, <3>8, <3>9, HistoryTrim
  <2> QED
    BY <1>2, <2>1, <2>2, MigrateShape
<1>3. ASSUME NEW owner \in Owners, ReleaseOwner(owner)
      PROVE  History(log', tier')
  <2>1. PICK ids \in SUBSET Known, add \in Seq(Events) :
          /\ \A b \in ids : tier[b] \in Tiers \ {"evicted"}
          /\ tier' = [b \in Known |-> IF b \in ids THEN "evicted" ELSE tier[b]]
          /\ log' = log \o add
          /\ { add[k].block : k \in 1..Len(add) } = ids
          /\ \A k \in 1..Len(add) : add[k].to = "evicted" /\ add[k].from = tier[add[k].block]
          /\ \A k, m \in 1..Len(add) : add[k].block = add[m].block => k = m
    BY <1>3, ReleaseShape
  <2>2. DOMAIN tier' = DOMAIN tier
    BY <1>0, <2>1
  <2>3. ASSUME NEW k \in 1..Len(add)
        PROVE  /\ add[k].block \in DOMAIN tier
               /\ add[k].from = tier[add[k].block]
               /\ add[k].to \in Transitions[add[k].from]
               /\ tier'[add[k].block] = add[k].to
    <3>1. add[k].block \in ids
      BY <2>1
    <3> QED
      BY <1>0, <2>1, <3>1, TransitionsToEvicted
  <2>4. \A b \in DOMAIN tier : (\A k \in 1..Len(add) : add[k].block # b) => tier'[b] = tier[b]
    BY <1>0, <2>1
  <2>5. \A k \in 1..Len(add) :
          /\ add[k].block \in DOMAIN tier
          /\ add[k].from = tier[add[k].block]
          /\ add[k].to \in Transitions[add[k].from]
          /\ tier'[add[k].block] = add[k].to
    BY <2>3
  <2>6. \A k, m \in 1..Len(add) : add[k].block = add[m].block => k = m
    BY <2>1
  <2>7. add \in Seq(Events) /\ log \in Seq(Events)
    BY <1>0, <2>1
  <2>8. History(log \o add, tier')
    BY <2>2, <2>4, <2>5, <2>6, <2>7, HistoryExtends
  <2> QED
    BY <2>1, <2>8
<1>4. ASSUME NEW c \in Callers, PlanMigration(c)
      PROVE  History(log', tier')
  BY <1>4 DEF PlanMigration
<1>5. ASSUME NEW c \in Callers, NEW b \in Blocks, NEW want \in Tiers, NEW linkOk \in BOOLEAN,
             Sample(c, b, want, linkOk)
      PROVE  History(log', tier')
  BY <1>5 DEF Sample
<1>6. CASE UNCHANGED vars
  BY <1>6 DEF vars
<1> QED
  BY <1>1, <1>2, <1>3, <1>4, <1>5, <1>6 DEF Next

(* The event log, however trimmed, tells each block's moves without a hole *)
(* up to its tier: two callers and a release never record a step from a    *)
(* tier the block was not in, and never EVICTED -> EVICTED.                *)
THEOREM HistoryTold == Spec => []LogTellsTier
<1>1. Init => History(log, tier)
  BY DEF Init, History
<1>2. TypeInv /\ History(log, tier) /\ [Next]_vars => History(log, tier)'
  BY HistoryNext
<1>3. TypeInv /\ History(log, tier) => LogTellsTier
  BY HistoryTells DEF TypeInv
<1> QED
  BY <1>1, <1>2, <1>3, TypeInvAlways, PTL DEF Spec

-----------------------------------------------------------------------------
LEMMA BlocksInFinite ==
  ASSUME TypeInv, NEW s
  PROVE  IsFiniteSet(BlocksIn(s)) /\ BlocksIn(s) \subseteq Blocks /\ BytesIn(s) \in Nat
<1>1. IsFiniteSet(BlocksIn(s)) /\ BlocksIn(s) \subseteq Blocks
  BY KVAssumption, FS_Subset DEF BlocksIn, TypeInv, TiersKept
<1> QED
  BY <1>1, SizeNat, SumNat DEF BytesIn

(* A tier that loses no block loses no byte.                               *)
LEMMA MoreBlocks ==
  ASSUME NEW S, NEW R \in SUBSET S, S \subseteq Blocks
  PROVE  SumFunctionOnSet(Size, R) <= SumFunctionOnSet(Size, S)
<1>1. IsFiniteSet(S)
  BY KVAssumption, FS_Subset
<1> QED
  BY <1>1, SizeNat, SumMono

LEMMA FreedNext ==
  ASSUME TypeInv, FreedOnce, [Next]_vars
  PROVE  FreedOnce'
<1> DEFINE E == BlocksIn("evicted")
<1>0. TypeInv'
  BY TypeInvNext
<1>1. /\ IsFiniteSet(E) /\ E \subseteq Blocks /\ BytesIn("evicted") \in Nat
      /\ freed \in Nat /\ freed <= SumFunctionOnSet(Size, E)
  BY BlocksInFinite DEF TypeInv, FreedOnce, BytesIn
<1>2. PICK F : F = BlocksIn("evicted")'
  OBVIOUS
<1>3. F \subseteq Blocks /\ BytesIn("evicted")' = SumFunctionOnSet(Size, F)
  BY <1>0, <1>2 DEF BytesIn, BlocksIn, TypeInv, TiersKept
<1>4. ASSUME E \subseteq F, freed' = freed
      PROVE  FreedOnce'
  <2>1. SumFunctionOnSet(Size, E) <= SumFunctionOnSet(Size, F)
    BY <1>3, <1>4, MoreBlocks
  <2>2. SumFunctionOnSet(Size, E) \in Nat /\ SumFunctionOnSet(Size, F) \in Nat
    <3>1. IsFiniteSet(F)
      BY <1>3, KVAssumption, FS_Subset
    <3> QED
      BY <1>1, <1>3, <3>1, SizeNat, SumNat
  <2> QED
    BY <1>1, <1>3, <1>4, <2>1, <2>2 DEF FreedOnce
<1>5. ASSUME NEW b \in Blocks, NEW s \in FirstTiers, NEW m \in BOOLEAN,
             Register(b, s, m)
      PROVE  FreedOnce'
  <2>1. E \subseteq F /\ freed' = freed
    BY <1>2, <1>5 DEF Register, BlocksIn, Known
  <2> QED
    BY <1>4, <2>1
<1>6. ASSUME NEW c \in Callers, Migrate(c)
      PROVE  FreedOnce'
  <2>1. E \subseteq F
    <3>1. CASE UNCHANGED <<log, tier>>
      BY <1>2, <3>1 DEF BlocksIn, Known
    <3>2. ASSUME NEW b \in Known, NEW target \in Tiers, Legal(b, target),
                 tier' = [tier EXCEPT ![b] = target]
          PROVE  E \subseteq F
      <4>1. tier[b] # "evicted"
        BY <3>2 DEF Legal, Transitions
      <4> QED
        BY <1>2, <3>2, <4>1 DEF BlocksIn, Known
    <3> QED
      BY <1>6, <3>1, <3>2, MigrateShape
  <2> QED
    BY <1>4, <1>6, <2>1, MigrateShape
<1>7. ASSUME NEW owner \in Owners, ReleaseOwner(owner)
      PROVE  FreedOnce'
  <2>1. PICK ids \in SUBSET Known :
          /\ \A b \in ids : tier[b] \in Tiers \ {"evicted"}
          /\ tier' = [b \in Known |-> IF b \in ids THEN "evicted" ELSE tier[b]]
          /\ freed' = freed + SumFunctionOnSet(Size, ids)
    BY <1>7, ReleaseShape
  <2>2. F = E \cup ids /\ E \cap ids = {}
    BY <1>2, <2>1 DEF BlocksIn, Known
  <2>3. ids \subseteq Blocks /\ IsFiniteSet(ids)
    BY KVAssumption, FS_Subset DEF TypeInv, TiersKept
  <2>4. SumFunctionOnSet(Size, F) = SumFunctionOnSet(Size, E) + SumFunctionOnSet(Size, ids)
    BY <1>1, <2>2, <2>3, SizeNat, SumUnion
  <2>5. SumFunctionOnSet(Size, E) \in Nat /\ SumFunctionOnSet(Size, ids) \in Nat
    BY <1>1, <2>3, SizeNat, SumNat
  <2> QED
    BY <1>1, <1>3, <2>1, <2>4, <2>5 DEF FreedOnce
<1>8. ASSUME UNCHANGED <<tier, freed>>
      PROVE  FreedOnce'
  BY <1>8 DEF FreedOnce, BytesIn, BlocksIn, Known
<1> QED
  BY <1>5, <1>6, <1>7, <1>8 DEF Next, vars, Sample, PlanMigration

(* What release() says it freed was evicted, and no block was counted      *)
(* twice, whatever other callers migrate between two releases.             *)
THEOREM FreedCounted == Spec => []FreedOnce
<1>1. Init => FreedOnce
  <2> SUFFICES ASSUME Init PROVE FreedOnce
    OBVIOUS
  <2>1. BytesIn("evicted") \in Nat /\ freed = 0
    BY TypeInvInit, BlocksInFinite DEF Init
  <2> QED
    BY <2>1 DEF FreedOnce
<1>2. TypeInv /\ FreedOnce /\ [Next]_vars => FreedOnce'
  BY FreedNext
<1> QED
  BY <1>1, <1>2, TypeInvAlways, PTL DEF Spec
-----------------------------------------------------------------------------
(* What a caller's migration claims of the peer.                           *)
Wants(q) ==
  \/ q.step = "sampled" /\ q.want = "peer" /\ q.linkOk /\ q.free >= Size[q.block]
  \/ q.step = "planned" /\ q.target = "peer"

ClaimsOf(calls) == { c \in Callers : Wants(calls[c]) }

WeightOf(calls) == [c \in ClaimsOf(calls) |-> Size[calls[c].block]]

Claimed(calls) == SumFunctionOnSet(WeightOf(calls), ClaimsOf(calls))

Largest == Max({ Size[b] : b \in Blocks })

Slack == (Cardinality(Callers) - 1) * Largest

LEMMA LargestBlock ==
  Largest \in Nat /\ \A b \in Blocks : Size[b] <= Largest
<1> DEFINE S == { Size[b] : b \in Blocks }
<1>1. IsFiniteSet(S)
  <2>1. Size \in Surjection(Blocks, S)
    BY KVAssumption DEF Surjection
  <2> QED
    BY <2>1, KVAssumption, FS_Surjection
<1>2. S \subseteq Nat /\ S \subseteq Int /\ S # {}
  BY KVAssumption
<1>3. PICK T : T = S
  OBVIOUS
<1> HIDE DEF S
<1>4. Max(T) \in T /\ \A y \in T : Max(T) >= y
  BY <1>1, <1>2, <1>3, MaxExists
<1>5. \A b \in Blocks : Size[b] \in S /\ Size[b] \in Nat
  BY SizeNat DEF S
<1>6. Largest = Max(T)
  BY <1>3 DEF Largest, S
<1> QED
  BY <1>2, <1>3, <1>4, <1>5, <1>6

(* One caller's claim apart from the others', which are at most Slack.     *)
LEMMA OneCall ==
  ASSUME NEW calls \in [Callers -> Plans], NEW c \in Callers
  PROVE  \E rest \in Nat :
           /\ rest <= Slack
           /\ \A q \in Plans :
                Claimed([calls EXCEPT ![c] = q]) = IF Wants(q) THEN Size[q.block] + rest ELSE rest
<1> DEFINE R == ClaimsOf(calls) \ {c}
           rest == SumFunctionOnSet(WeightOf(calls), R)
<1>1. \A d \in [Callers -> Plans] :
        /\ IsFiniteSet(ClaimsOf(d)) /\ ClaimsOf(d) \subseteq Callers
        /\ \A x \in ClaimsOf(d) : /\ d[x].block \in Blocks
                                  /\ WeightOf(d)[x] = Size[d[x].block]
                                  /\ WeightOf(d)[x] \in Nat /\ WeightOf(d)[x] <= Largest
  <2> SUFFICES ASSUME NEW d \in [Callers -> Plans]
               PROVE  /\ IsFiniteSet(ClaimsOf(d)) /\ ClaimsOf(d) \subseteq Callers
                      /\ \A x \in ClaimsOf(d) :
                           /\ d[x].block \in Blocks
                           /\ WeightOf(d)[x] = Size[d[x].block]
                           /\ WeightOf(d)[x] \in Nat /\ WeightOf(d)[x] <= Largest
    OBVIOUS
  <2>1. IsFiniteSet(ClaimsOf(d)) /\ ClaimsOf(d) \subseteq Callers
    BY KVAssumption, FS_Subset DEF ClaimsOf
  <2>2. ASSUME NEW x \in ClaimsOf(d)
        PROVE  d[x].block \in Blocks
    <3>1. d[x] \in Plans /\ Wants(d[x])
      BY DEF ClaimsOf
    <3> QED
      BY <3>1 DEF Plans, Wants, Idle
  <2> QED
    BY <2>1, <2>2, SizeNat, LargestBlock DEF WeightOf
<1>2. /\ IsFiniteSet(R) /\ R \subseteq Callers \ {c}
      /\ \A x \in R : WeightOf(calls)[x] \in Nat /\ WeightOf(calls)[x] <= Largest
  BY <1>1, FS_Subset
<1>3. rest \in Nat
  BY <1>2, SumNat
<1>4. rest <= Slack
  <2>1. rest <= Cardinality(R) * Largest
    BY <1>2, LargestBlock, SumBounded
  <2>2. /\ Cardinality(Callers \ {c}) = Cardinality(Callers) - 1
        /\ IsFiniteSet(Callers \ {c}) /\ Cardinality(Callers) \in Nat
    BY KVAssumption, FS_RemoveElement, FS_CardinalityType, FS_Subset
  <2>3. Cardinality(R) \in Nat /\ Cardinality(R) <= Cardinality(Callers) - 1
    BY <1>2, <2>2, FS_Subset, FS_CardinalityType
  <2>4. Cardinality(R) * Largest <= (Cardinality(Callers) - 1) * Largest
    <3> DEFINE m == Cardinality(R)
               n == Cardinality(Callers) - 1
    <3>1. m \in Nat /\ n \in Nat /\ m <= n /\ Largest \in Nat
      BY <2>2, <2>3, LargestBlock
    <3> HIDE DEF m, n
    <3>2. m * Largest <= n * Largest
      BY <3>1
    <3> QED
      BY <3>2 DEF m, n
  <2>5. Cardinality(R) * Largest \in Int /\ Slack \in Int
    BY <2>2, <2>3, LargestBlock DEF Slack
  <2> QED
    BY <1>3, <2>1, <2>4, <2>5 DEF Slack
<1>5. ASSUME NEW q \in Plans
      PROVE  Claimed([calls EXCEPT ![c] = q]) = IF Wants(q) THEN Size[q.block] + rest ELSE rest
  <2>0. PICK d : d = [calls EXCEPT ![c] = q]
    OBVIOUS
  <2>1. /\ d \in [Callers -> Plans] /\ d[c] = q
        /\ \A x \in Callers \ {c} : d[x] = calls[x]
    BY <2>0
  <2>2. ClaimsOf(d) \ {c} = R
    BY <2>1 DEF ClaimsOf
  <2>3. \A x \in R : WeightOf(d)[x] \in Int /\ WeightOf(d)[x] = WeightOf(calls)[x]
    BY <1>1, <1>2, <2>1, <2>2 DEF WeightOf
  <2>4. SumFunctionOnSet(WeightOf(d), R) = rest
    BY <1>2, <2>3, SumSame
  <2>5. CASE Wants(q)
    <3>1. c \in ClaimsOf(d)
      BY <2>1, <2>5 DEF ClaimsOf
    <3>2. IsFiniteSet(ClaimsOf(d)) /\ \A x \in ClaimsOf(d) : WeightOf(d)[x] \in Int
      BY <1>1, <2>1
    <3>3. Claimed(d) = WeightOf(d)[c] + SumFunctionOnSet(WeightOf(d), R)
      BY <2>2, <3>1, <3>2, SumRemove DEF Claimed
    <3>4. WeightOf(d)[c] = Size[q.block]
      BY <2>1, <3>1 DEF WeightOf
    <3> QED
      BY <2>0, <2>4, <2>5, <3>3, <3>4
  <2>6. CASE ~Wants(q)
    <3>1. ClaimsOf(d) = R
      BY <2>1, <2>2, <2>6 DEF ClaimsOf
    <3> QED
      BY <2>0, <2>4, <2>6, <3>1 DEF Claimed
  <2> QED
    BY <2>5, <2>6
<1> QED
  BY <1>3, <1>4, <1>5
(* The inductive form: OvercommitBounded over the names above.             *)
Bounded(t, calls) ==
  SumFunctionOnSet(Size, { b \in DOMAIN t : t[b] = "peer" }) + Claimed(calls)
    <= PeerCapacity + Slack

LEMMA BoundedIsOvercommit == OvercommitBounded <=> Bounded(tier, call)
<1>1. Claims = ClaimsOf(call)
  BY DEF Claims, ClaimsOf, Wants
<1>2. ClaimedBytes = Claimed(call)
  BY <1>1 DEF ClaimedBytes, Claimed, WeightOf
<1>3. BytesIn("peer") = SumFunctionOnSet(Size, { b \in DOMAIN tier : tier[b] = "peer" })
  BY DEF BytesIn, BlocksIn, Known
<1> QED
  BY <1>2, <1>3 DEF OvercommitBounded, Bounded, Slack, Largest

(* What shrinks the peer, or what it is claimed for, keeps the bound.      *)
LEMMA BoundedShrinks ==
  ASSUME NEW t, DOMAIN t \subseteq Blocks, NEW t2, DOMAIN t2 \subseteq Blocks,
         NEW calls \in [Callers -> Plans], NEW calls2 \in [Callers -> Plans],
         { b \in DOMAIN t2 : t2[b] = "peer" } \subseteq { b \in DOMAIN t : t[b] = "peer" },
         Claimed(calls2) <= Claimed(calls),
         Claimed(calls) \in Nat, Claimed(calls2) \in Nat, Slack \in Nat,
         Bounded(t, calls)
  PROVE  Bounded(t2, calls2)
<1> DEFINE P == { b \in DOMAIN t : t[b] = "peer" }
           Q == { b \in DOMAIN t2 : t2[b] = "peer" }
<1>1. Q \in SUBSET P /\ P \subseteq Blocks /\ Q \subseteq Blocks
  OBVIOUS
<1>2. IsFiniteSet(P) /\ IsFiniteSet(Q)
  BY <1>1, KVAssumption, FS_Subset
<1>3. /\ SumFunctionOnSet(Size, P) \in Nat /\ SumFunctionOnSet(Size, Q) \in Nat
      /\ SumFunctionOnSet(Size, Q) <= SumFunctionOnSet(Size, P)
  BY <1>1, <1>2, SizeNat, SumNat, MoreBlocks
<1>4. SumFunctionOnSet(Size, P) + Claimed(calls) <= PeerCapacity + Slack
  BY DEF Bounded
<1> HIDE DEF P, Q
<1>5. SumFunctionOnSet(Size, Q) + Claimed(calls2) <= PeerCapacity + Slack
  BY <1>3, <1>4, KVAssumption
<1> QED
  BY <1>5 DEF Bounded, Q

(* What one caller adds to what the others claim.                          *)
Share(q) == IF Wants(q) THEN Size[q.block] ELSE 0

LEMMA CallChange ==
  ASSUME TypeInv, NEW c \in Callers, NEW q \in Plans
  PROVE  /\ Slack \in Nat
         /\ [call EXCEPT ![c] = q] \in [Callers -> Plans]
         /\ \E rest \in Nat :
              /\ rest <= Slack
              /\ Share(call[c]) \in Nat /\ Claimed(call) = Share(call[c]) + rest
              /\ Share(q) \in Nat /\ Claimed([call EXCEPT ![c] = q]) = Share(q) + rest
<1>1. call \in [Callers -> Plans] /\ call[c] \in Plans
  BY DEF TypeInv
<1>2. PICK rest \in Nat :
        /\ rest <= Slack
        /\ \A r \in Plans :
             Claimed([call EXCEPT ![c] = r]) = IF Wants(r) THEN Size[r.block] + rest ELSE rest
  BY <1>1, OneCall
<1>3. \A r \in Plans : Share(r) \in Nat
  <2>1. \A r \in Plans : Wants(r) => r.block \in Blocks
    BY DEF Plans, Wants, Idle
  <2> QED
    BY <2>1, SizeNat DEF Share
<1>4. \A r \in Plans : Claimed([call EXCEPT ![c] = r]) = Share(r) + rest
  BY <1>2, <1>3 DEF Share
<1>5. [call EXCEPT ![c] = call[c]] = call
  BY <1>1
<1>6. Slack \in Nat
  <2>1. Cardinality(Callers) \in Nat /\ Cardinality(Callers) # 0
    BY KVAssumption, FS_CardinalityType, FS_EmptySet
  <2>2. Cardinality(Callers) - 1 \in Nat /\ Largest \in Nat
    BY <2>1, LargestBlock
  <2> QED
    BY <2>2 DEF Slack
<1>7. /\ Claimed(call) = Share(call[c]) + rest
      /\ Claimed([call EXCEPT ![c] = q]) = Share(q) + rest
  BY <1>1, <1>4, <1>5
<1>8. [call EXCEPT ![c] = q] \in [Callers -> Plans]
  BY <1>1
<1> QED
  BY <1>1, <1>2, <1>3, <1>6, <1>7, <1>8

LEMMA SampleBounded ==
  ASSUME TypeInv, Bounded(tier, call), NEW c \in Callers, NEW b \in Blocks,
         NEW want \in Tiers, NEW linkOk \in BOOLEAN, Sample(c, b, want, linkOk)
  PROVE  Bounded(tier', call')
<1>1. PICK q : q = [step |-> "sampled", block |-> b, want |-> want, linkOk |-> linkOk,
                    free |-> PeerFree]
  OBVIOUS
<1>2. q \in Plans /\ call' = [call EXCEPT ![c] = q] /\ tier' = tier /\ call[c] = Idle
  BY <1>1, PeerFreeInt DEF Sample, Plans
<1>3. PICK rest \in Nat :
        /\ rest <= Slack
        /\ Share(call[c]) \in Nat /\ Claimed(call) = Share(call[c]) + rest
        /\ Share(q) \in Nat /\ Claimed(call') = Share(q) + rest
  BY <1>2, CallChange
<1>4. Slack \in Nat
  BY <1>2, CallChange
<1>5. Share(call[c]) = 0
  BY <1>2 DEF Share, Wants, Idle
<1>6. BytesIn("peer") = SumFunctionOnSet(Size, { x \in DOMAIN tier : tier[x] = "peer" })
  BY DEF BytesIn, BlocksIn, Known
<1>7. BytesIn("peer") \in Nat
  BY BlocksInFinite
<1>8. CASE Wants(q)
  <2>1. PeerCapacity - BytesIn("peer") >= Size[b]
    BY <1>1, <1>8 DEF Wants, PeerFree
  <2>2. Share(q) = Size[b]
    BY <1>1, <1>8 DEF Share
  <2>3. BytesIn("peer") + Claimed(call') <= PeerCapacity + Slack
    BY <1>3, <1>4, <1>7, <2>1, <2>2, KVAssumption, SizeNat
  <2> QED
    BY <1>2, <1>6, <2>3 DEF Bounded
<1>9. CASE ~Wants(q)
  <2>1. Share(q) = 0
    BY <1>9 DEF Share
  <2>2. Claimed(call') = Claimed(call)
    BY <1>3, <1>5, <2>1
  <2> QED
    BY <1>2, <2>2 DEF Bounded
<1> QED
  BY <1>8, <1>9

LEMMA PlanBounded ==
  ASSUME TypeInv, Bounded(tier, call), NEW c \in Callers, PlanMigration(c)
  PROVE  Bounded(tier', call')
<1>1. PICK q : q = [step |-> "planned", block |-> call[c].block,
                    target |-> Fallback(call[c].block, call[c].want, call[c].linkOk, call[c].free)]
  OBVIOUS
<1>2. /\ call[c].step = "sampled" /\ call[c].block \in Known /\ Known \subseteq Blocks
      /\ call[c].want \in Tiers /\ call[c].linkOk \in BOOLEAN /\ call[c].free \in Int
  BY PlanStep DEF PlanMigration, TypeInv, TiersKept
<1>3. q \in Plans
  <2>1. Fallback(call[c].block, call[c].want, call[c].linkOk, call[c].free) \in Tiers
    BY <1>2 DEF Fallback, Tiers
  <2> QED
    BY <1>1, <1>2, <2>1 DEF Plans
<1>4. call' = [call EXCEPT ![c] = q] /\ tier' = tier
  BY <1>1 DEF PlanMigration
<1>5. Wants(q) => Wants(call[c])
  <2> SUFFICES ASSUME Wants(q) PROVE Wants(call[c])
    OBVIOUS
  <2>1. Fallback(call[c].block, call[c].want, call[c].linkOk, call[c].free) = "peer"
    BY <1>1 DEF Wants
  <2>2. /\ call[c].want = "peer" /\ call[c].linkOk
        /\ ~(call[c].free < Size[call[c].block])
    BY <2>1 DEF Fallback
  <2>3. call[c].free >= Size[call[c].block]
    BY <1>2, <2>2, SizeNat
  <2> QED
    BY <1>2, <2>2, <2>3 DEF Wants
<1>6. q.block = call[c].block
  BY <1>1
<1>7. PICK rest \in Nat :
        /\ rest <= Slack
        /\ Share(call[c]) \in Nat /\ Claimed(call) = Share(call[c]) + rest
        /\ Share(q) \in Nat /\ Claimed(call') = Share(q) + rest
  BY <1>3, <1>4, CallChange
<1>8. Share(q) <= Share(call[c])
  BY <1>5, <1>6, <1>7 DEF Share
<1>9. /\ call \in [Callers -> Plans] /\ call' \in [Callers -> Plans] /\ Slack \in Nat
      /\ DOMAIN tier \subseteq Blocks
  BY <1>2, <1>3, <1>4, CallChange DEF TypeInv, Known
<1>10. /\ Claimed(call') <= Claimed(call)
       /\ Claimed(call) \in Nat /\ Claimed(call') \in Nat
  BY <1>7, <1>8
<1> QED
  BY <1>4, <1>9, <1>10, BoundedShrinks

(* A commit moves its block's bytes from what is claimed to what is there; *)
(* only a block on the local card moves to the peer.                       *)
LEMMA MigrateBounded ==
  ASSUME TypeInv, Bounded(tier, call), NEW c \in Callers, Migrate(c)
  PROVE  Bounded(tier', call')
<1>1. call' = [call EXCEPT ![c] = Idle] /\ Idle \in Plans /\ call[c].step = "planned"
  BY MigrateShape DEF Plans, Migrate
<1>2. PICK rest \in Nat :
        /\ rest <= Slack
        /\ Share(call[c]) \in Nat /\ Claimed(call) = Share(call[c]) + rest
        /\ Share(Idle) \in Nat /\ Claimed(call') = Share(Idle) + rest
  BY <1>1, CallChange
<1>3. Share(Idle) = 0
  BY DEF Share, Wants, Idle
<1>4. /\ call \in [Callers -> Plans] /\ call' \in [Callers -> Plans] /\ Slack \in Nat
      /\ DOMAIN tier \subseteq Blocks
  BY <1>1, CallChange DEF TypeInv, TiersKept, Known
<1>5. /\ Claimed(call') <= Claimed(call)
      /\ Claimed(call) \in Nat /\ Claimed(call') \in Nat
  BY <1>2, <1>3
<1>6. ASSUME DOMAIN tier' = DOMAIN tier,
             \A x \in DOMAIN tier : tier'[x] = "peer" => tier[x] = "peer"
      PROVE  Bounded(tier', call')
  BY <1>4, <1>5, <1>6, BoundedShrinks
<1>7. ASSUME NEW b \in Known, NEW target \in Tiers, b = call[c].block, target = call[c].target,
             Legal(b, target), tier' = [tier EXCEPT ![b] = target]
      PROVE  Bounded(tier', call')
  <2>1. CASE target # "peer"
    BY <1>6, <1>7, <2>1 DEF Known
  <2>2. CASE target = "peer"
    <3> DEFINE P == BlocksIn("peer")
    <3>1. tier[b] = "local"
      BY <1>7, <2>2 DEF Legal, Transitions, TypeInv, TiersKept, Tiers
    <3>2. b \notin P /\ { x \in DOMAIN tier' : tier'[x] = "peer" } = P \cup {b}
      BY <1>7, <2>2, <3>1 DEF BlocksIn, Known
    <3>3. IsFiniteSet(P) /\ P \subseteq Blocks /\ b \in Blocks
      BY BlocksInFinite DEF TypeInv, TiersKept
    <3>4. SumFunctionOnSet(Size, P \cup {b}) = Size[b] + SumFunctionOnSet(Size, P)
      BY <3>2, <3>3, SizeNat, SumAdd
    <3>5. Share(call[c]) = Size[b]
      BY <1>1, <1>7, <2>2 DEF Share, Wants
    <3>6. SumFunctionOnSet(Size, P) + Claimed(call) <= PeerCapacity + Slack
      BY DEF Bounded, BlocksIn, Known
    <3>7. SumFunctionOnSet(Size, P) \in Nat /\ Size[b] \in Nat
      BY <3>3, SizeNat, SumNat
    <3> HIDE DEF P
    <3>8. SumFunctionOnSet(Size, P \cup {b}) + Claimed(call') <= PeerCapacity + Slack
      BY <1>2, <1>3, <1>4, <3>4, <3>5, <3>6, <3>7, KVAssumption
    <3> QED
      BY <3>2, <3>8 DEF Bounded
  <2> QED
    BY <2>1, <2>2
<1>8. CASE UNCHANGED <<log, tier>>
  BY <1>6, <1>8
<1> QED
  BY <1>7, <1>8, MigrateShape

LEMMA BoundedNext ==
  ASSUME "peer" \notin FirstTiers, TypeInv, Bounded(tier, call), [Next]_vars
  PROVE  Bounded(tier', call')
<1>0. /\ call \in [Callers -> Plans] /\ Slack \in Nat /\ Claimed(call) \in Nat
      /\ DOMAIN tier \subseteq Blocks
  <2>1. PICK c \in Callers : TRUE
    BY KVAssumption
  <2>2. Idle \in Plans
    BY DEF Plans
  <2> QED
    BY <2>1, <2>2, CallChange DEF TypeInv, TiersKept, Known
<1>1. ASSUME call' = call, DOMAIN tier' \subseteq Blocks,
             \A x \in DOMAIN tier' : tier'[x] = "peer" => x \in DOMAIN tier /\ tier[x] = "peer"
      PROVE  Bounded(tier', call')
  <2>1. { b \in DOMAIN tier' : tier'[b] = "peer" } \subseteq { b \in DOMAIN tier : tier[b] = "peer" }
    BY <1>1
  <2>2. Claimed(call) <= Claimed(call)
    BY <1>0
  <2> QED
    BY <1>0, <1>1, <2>1, <2>2, BoundedShrinks
<1>2. ASSUME NEW b \in Blocks, NEW s \in FirstTiers, NEW m \in BOOLEAN,
             Register(b, s, m)
      PROVE  Bounded(tier', call')
  <2>1. s # "peer"
    OBVIOUS
  <2> QED
    BY <1>0, <1>1, <1>2, <2>1 DEF Register, Known
<1>3. ASSUME NEW owner \in Owners, ReleaseOwner(owner)
      PROVE  Bounded(tier', call')
  <2>1. PICK ids \in SUBSET Known :
          call' = call /\ tier' = [b \in Known |-> IF b \in ids THEN "evicted" ELSE tier[b]]
    BY <1>3, ReleaseShape
  <2> QED
    BY <1>0, <1>1, <2>1 DEF Known
<1>4. CASE UNCHANGED vars
  BY <1>4 DEF vars
<1> QED
  BY <1>2, <1>3, <1>4, SampleBounded, PlanBounded, MigrateBounded DEF Next

(* Nothing reserves what a sample found free, so the peer may be overfull, *)
(* but by no more than one largest block for each caller but one: a commit *)
(* spends what its own sample claimed, and no sample claims what is not    *)
(* there.  A block registered in PEER would ask nobody; register()'s state *)
(* is LOCAL unless its caller says otherwise.                              *)
THEOREM OvercommitHolds ==
  ASSUME "peer" \notin FirstTiers
  PROVE  Spec => []OvercommitBounded
<1>1. Init => Bounded(tier, call)
  <2> SUFFICES ASSUME Init PROVE Bounded(tier, call)
    OBVIOUS
  <2>1. TypeInv
    BY TypeInvInit
  <2>2. ClaimsOf(call) = {} /\ { b \in DOMAIN tier : tier[b] = "peer" } = {}
    BY DEF Init, ClaimsOf, Wants, Idle
  <2>3. Claimed(call) = 0
    BY <2>2, SumEmpty DEF Claimed
  <2>4. SumFunctionOnSet(Size, { b \in DOMAIN tier : tier[b] = "peer" }) = 0
    BY <2>2, SumEmpty
  <2>5. PICK c \in Callers : TRUE
    BY KVAssumption
  <2>6. Idle \in Plans
    BY DEF Plans
  <2>7. Slack \in Nat
    BY <2>1, <2>5, <2>6, CallChange
  <2> QED
    BY <2>3, <2>4, <2>7, KVAssumption DEF Bounded
<1>2. TypeInv /\ Bounded(tier, call) /\ [Next]_vars => Bounded(tier, call)'
  BY BoundedNext
<1>3. Bounded(tier, call) => OvercommitBounded
  BY BoundedIsOvercommit
<1> QED
  BY <1>1, <1>2, <1>3, TypeInvAlways, PTL DEF Spec
=============================================================================
