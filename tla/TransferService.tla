-------------------------- MODULE TransferService ---------------------------
(***************************************************************************)
(* What the governor promises to the engine, without threads, polling or   *)
(* budgets: one line of submissions per issuing device, served strictly in *)
(* order, at most one of them under a grant, every grant worth at least    *)
(* MinRate, and nothing finished while it still holds its grant.           *)
(***************************************************************************)
EXTENDS Integers, Sequences

CONSTANTS Transfers, Sources, Issuer, MinRate

VARIABLES line,      (* source -> submissions not yet finished, in order   *)
          granted,   (* transfer -> rate, for those under a grant          *)
          finished   (* transfers finished since they were last submitted  *)

vars == <<line, granted, finished>>

Init ==
  /\ line = [k \in Sources |-> << >>]
  /\ granted = [t \in {} |-> 0]
  /\ finished = {}

Waiting(t) == \E k \in Sources : \E i \in DOMAIN line[k] : line[k][i] = t

First(t) == /\ line[Issuer[t]] # << >>
            /\ Head(line[Issuer[t]]) = t

Submit(t) ==
  /\ ~Waiting(t)
  /\ line' = [line EXCEPT ![Issuer[t]] = Append(@, t)]
  /\ finished' = finished \ {t}
  /\ UNCHANGED granted

SameBut(t) ==
  \A u \in (DOMAIN granted \cup DOMAIN granted') \ {t} :
    /\ u \in DOMAIN granted \cap DOMAIN granted'
    /\ granted'[u] = granted[u]

Grant(t) ==
  /\ First(t)
  /\ t \notin DOMAIN granted
  /\ t \in DOMAIN granted'
  /\ granted'[t] >= MinRate
  /\ SameBut(t)
  /\ UNCHANGED <<line, finished>>

(* The rate of a running transfer follows the victim.                      *)
Rescale(t) ==
  /\ t \in DOMAIN granted \cap DOMAIN granted'
  /\ SameBut(t)
  /\ UNCHANGED <<line, finished>>

GiveBack(t) ==
  /\ t \in DOMAIN granted
  /\ granted' = [u \in DOMAIN granted \ {t} |-> granted[u]]
  /\ UNCHANGED <<line, finished>>

(* Served, failed or cancelled: the engine hears of it.                    *)
Finish(t) ==
  /\ First(t)
  /\ t \notin DOMAIN granted
  /\ line' = [line EXCEPT ![Issuer[t]] = Tail(@)]
  /\ finished' = finished \cup {t}
  /\ UNCHANGED granted

Next ==
  \E t \in Transfers :
    Submit(t) \/ Grant(t) \/ Rescale(t) \/ GiveBack(t) \/ Finish(t)

Spec == Init /\ [][Next]_vars
=============================================================================
