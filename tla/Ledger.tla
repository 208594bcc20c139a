------------------------------- MODULE Ledger -------------------------------
(***************************************************************************)
(* The dual-ended rate ledger of umallm/governor/budget.py.                *)
(*                                                                         *)
(* A lease charges one delivered rate to both endpoints of a transfer: to  *)
(* the source's "holder" account and to the destination's "receiver"       *)
(* account.  Inside one route the rates add up and go through that route's *)
(* calibrated curve; across routes the costs add up.                       *)
(*                                                                         *)
(* Rates and costs are whole units.  A curve is the conservative upper     *)
(* envelope tabulated at 0..MaxRate, and a trim multiplier is a number of  *)
(* TrimUnit-ths.  Transfers carry no workload_hint: every account is       *)
(* priced on the "worst" curves.  The module declares the lease table and  *)
(* the operations on it; the threads that call them are in Governor.       *)
(***************************************************************************)
EXTENDS Integers, FiniteSets, FiniteSetsExt

CONSTANTS
  Devices,     (* GPUs                                                     *)
  Host,        (* the None endpoint: no GPU victim behind it               *)
  Routes,      (* "peer", "host"                                           *)
  Transfers,   (* transfers an engine may submit; a lease is named by its  *)
               (* transfer                                                 *)
  Request,     (* Request[t]: src, dst, route and number of chunks         *)
  MaxRate,     (* largest calibrated rate                                  *)
  UpperCost,   (* UpperCost[role][route][rate], for the calibrated routes  *)
  Eps,         (* Eps[role]: cost budget of an endpoint                    *)
  MinRate,     (* min_rate_gbs                                             *)
  LinkPeak,    (* LinkPeak[route], 0 when the calibration has none         *)
  TrimUnit     (* a multiplier of TrimUnit is 1.0                          *)

Roles == {"holder", "receiver"}

Endpoints == Devices \cup {Host}

ASSUME LedgerAssumption ==
  /\ Host \notin Devices
  /\ IsFiniteSet(Transfers)
  /\ MaxRate \in Nat
  /\ MinRate \in Nat \ {0}
  /\ TrimUnit \in Nat \ {0}
  /\ Eps \in [Roles -> Nat]
  /\ LinkPeak \in [Routes -> Nat]
  /\ \A t \in Transfers :
       /\ Request[t].src \in Endpoints
       /\ Request[t].dst \in Endpoints
       /\ {Request[t].src, Request[t].dst} # {Host}
       /\ Request[t].route \in Routes
       /\ Request[t].chunks \in Nat \ {0}

(* predict_upper() runs along the cumulative maximum of the measured       *)
(* slowdowns, each with its residual band on top: it never dips.           *)
ASSUME CurveAssumption ==
  \A role \in Roles :
    /\ IsFiniteSet(DOMAIN UpperCost[role])
    /\ \A route \in DOMAIN UpperCost[role] :
         /\ UpperCost[role][route] \in [0..MaxRate -> Nat]
         /\ \A r1, r2 \in 0..MaxRate :
              r1 <= r2 => UpperCost[role][route][r1] <= UpperCost[role][route][r2]

VARIABLE active   (* transfer -> rate of its lease, for the active leases  *)

-----------------------------------------------------------------------------
Calibrated(role, route) == route \in DOMAIN UpperCost[role]

(* The endpoint a transfer occupies in a role.                             *)
EndpointOf(t, role) ==
  IF role = "holder" THEN Request[t].src ELSE Request[t].dst

LeasesAt(leases, dev, role, route) ==
  { t \in DOMAIN leases :
      Request[t].route = route /\ EndpointOf(t, role) = dev }

TotalRate(leases, S) == SumFunctionOnSet(leases, S)

Allocated(leases, dev, role, route) ==
  TotalRate(leases, LeasesAt(leases, dev, role, route))

(* predict_upper clamps at the last calibrated rate.                       *)
PredictUpper(role, route, rate) ==
  UpperCost[role][route][IF rate > MaxRate THEN MaxRate ELSE rate]

(* Curve.invert: the largest calibrated rate whose cost fits the budget.   *)
Invert(role, route, budget) ==
  LET fits == { r \in 0..MaxRate : UpperCost[role][route][r] <= budget }
  IN  IF fits = {} THEN 0 ELSE Max(fits)

(* What the leases cost at an endpoint, route by route; a route without a  *)
(* lease is not priced.                                                    *)
RouteCost(role, route, rate) ==
  IF rate > 0 THEN PredictUpper(role, route, rate) ELSE 0

RouteCosts(leases, dev, role) ==
  [r \in DOMAIN UpperCost[role] |->
     RouteCost(role, r, Allocated(leases, dev, role, r))]

(* Mutated form: a route is priced as if it had the endpoint to itself.    *)
CostOfNoOtherRoute(leases, dev, role, route) == 0

(* What the other routes already charge to this endpoint.                  *)
CostOfOtherRoutes(leases, dev, role, route) ==
  SumFunctionOnSet(RouteCosts(leases, dev, role), DOMAIN UpperCost[role] \ {route})

(* Rate left at one endpoint; ambient and trim are what the caller read    *)
(* before it took the lock.                                                *)
EndpointCap(leases, dev, role, route, ambient, trim) ==
  LET spent  == CostOfOtherRoutes(leases, dev, role, route)
      left   == IF spent > Eps[role] THEN 0 ELSE Eps[role] - spent
      budget == (Invert(role, route, left) * trim[dev]) \div TrimUnit
  IN  budget - Allocated(leases, dev, role, route) - ambient[dev][role]

LinkUsed(leases, req) ==
  TotalRate(leases, { t \in DOMAIN leases :
                        /\ Request[t].route = req.route
                        /\ Request[t].src = req.src
                        /\ Request[t].dst = req.dst })

(* The host has no GPU victim and sets no cap.                             *)
Caps(leases, req, ambient, trim) ==
  { EndpointCap(leases, req.src, "holder", req.route, ambient, trim) :
      x \in {req.src} \ {Host} }
  \cup
  { EndpointCap(leases, req.dst, "receiver", req.route, ambient, trim) :
      x \in {req.dst} \ {Host} }
  \cup
  { LinkPeak[req.route] - LinkUsed(leases, req) :
      x \in {req.route} \ { r \in Routes : LinkPeak[r] = 0 } }

MaxAdmissible(leases, req, ambient, trim) ==
  Max({0, Min(Caps(leases, req, ambient, trim))})

(* curve() raises KeyError when a GPU endpoint has no curve for the route. *)
Priceable(req) ==
  /\ req.src # Host => Calibrated("holder", req.route)
  /\ req.dst # Host => Calibrated("receiver", req.route)

-----------------------------------------------------------------------------
LedgerInit == active = [t \in {} |-> 0]

(* admit(): compute and insert under one lock.                             *)
Admit(t, ambient, trim) ==
  LET rate == MaxAdmissible(active, Request[t], ambient, trim)
  IN  /\ Priceable(Request[t])
      /\ rate >= MinRate
      /\ active' = [u \in DOMAIN active \cup {t} |->
                      IF u = t THEN rate ELSE active[u]]

(* admit() returning None: the caller defers.                              *)
Defer(t, ambient, trim) ==
  /\ Priceable(Request[t])
  /\ MaxAdmissible(active, Request[t], ambient, trim) < MinRate
  /\ UNCHANGED active

(* Mutated form: update_rate() without its membership test.                *)
UpdateRateUnchecked(t, rate) ==
  active' = [u \in DOMAIN active \cup {t} |-> IF u = t THEN rate ELSE active[u]]

(* update_rate(): a lease already released stays released.                 *)
UpdateRate(t, rate) ==
  active' = IF t \in DOMAIN active THEN [active EXCEPT ![t] = rate] ELSE active

(* Mutated form: the lease is not found under the key release() uses.      *)
ReleaseMisses(t) == UNCHANGED active

(* release(): pop with a default, so releasing twice is harmless.          *)
Release(t) == active' = [u \in DOMAIN active \ {t} |-> active[u]]

-----------------------------------------------------------------------------
(* What the leases cost the victim at one endpoint: rates add inside a     *)
(* route, costs add across routes.                                         *)
EndpointCost(leases, dev, role) ==
  SumFunctionOnSet(RouteCosts(leases, dev, role), DOMAIN UpperCost[role])

WithinBudget(leases) ==
  \A dev \in Devices, role \in Roles :
    EndpointCost(leases, dev, role) <= Eps[role]
=============================================================================
