----------------------------- MODULE UMAPolicy ------------------------------
(***************************************************************************)
(* UMAPolicy.place of umallm/policy.py: the residency tier of each block   *)
(* of a sequence, from the blocks ranked by score, the policy's budgets    *)
(* and the memory-pressure level.                                          *)
(*                                                                         *)
(* A ranking lists the blocks hottest first; ties between scores, which    *)
(* the code leaves to the sort, are not modelled.  A policy is a record    *)
(* [nActive, nSink, nWindow, gpu, whole, compressUnderWarn,                *)
(*  swapUnderCritical]; gpu_frac is gpu/whole.                             *)
(***************************************************************************)
EXTENDS Integers, Sequences, FiniteSets, SequencesExt

NORMAL == 0
WARN == 1
CRITICAL == 2

(* Mutated form: the trailing window is not kept.                          *)
KeepSinksOnly(p, n) == { i \in 1..n : i <= p.nSink }

Keep(p, n) == { i \in 1..n : i <= p.nSink \/ i > n - p.nWindow }

UpTo(s, k) == SubSeq(s, 1, IF k < Len(s) THEN k ELSE Len(s))

(* The rest of the active budget goes to the hottest of the others.        *)
Picks(p, ranking) ==
  LET keep == Keep(p, Len(ranking)) IN
  UpTo(SelectSeq(ranking, LAMBDA i : i \notin keep),
       IF p.nActive > Cardinality(keep) THEN p.nActive - Cardinality(keep) ELSE 0)

OnGpu(p, ranking) ==
  LET picks == Picks(p, ranking) IN
  ToSet(UpTo(picks, (p.gpu * Len(picks)) \div p.whole))

(* The active blocks that are not the GPU's, coldest first.                *)
CpuColdest(p, ranking) ==
  Reverse(SelectSeq(Picks(p, ranking), LAMBDA i : i \notin OnGpu(p, ranking)))

(* Pressure takes the lower half of them, or all.                          *)
Squeezed(p, ranking, pressure) ==
  LET t1 == CpuColdest(p, ranking) IN
  IF pressure = NORMAL \/ ~p.compressUnderWarn THEN {}
  ELSE ToSet(UpTo(t1, IF pressure = WARN THEN Len(t1) \div 2 ELSE Len(t1)))

Compressed(p, ranking, pressure) ==
  ((1..Len(ranking)) \ (Keep(p, Len(ranking)) \cup ToSet(Picks(p, ranking))))
     \cup Squeezed(p, ranking, pressure)

(* Under CRITICAL a quarter of the compressed blocks is swapped.           *)
Swapped(p, ranking, pressure) ==
  LET cold == Compressed(p, ranking, pressure)
      t2   == Reverse(SelectSeq(ranking, LAMBDA i : i \in cold))
  IN  IF pressure = CRITICAL /\ p.swapUnderCritical
      THEN ToSet(UpTo(t2, Len(t2) \div 4)) ELSE {}

Place(p, ranking, pressure) ==
  LET keep == Keep(p, Len(ranking))
      gpu  == OnGpu(p, ranking)
      cold == Compressed(p, ranking, pressure)
      swap == Swapped(p, ranking, pressure)
  IN  [i \in 1..Len(ranking) |->
         CASE i \in keep \cup gpu -> "T0"
           [] i \in swap          -> "T3"
           [] i \in cold \ swap   -> "T2"
           [] OTHER               -> "T1"]
=============================================================================
