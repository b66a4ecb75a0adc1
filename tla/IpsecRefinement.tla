-------------------------- MODULE IpsecRefinement --------------------------
(***************************************************************************)
(* The IPsec overlay implements the abstract Reconciler twice: for the     *)
(* XFRM policies and, where host routes are synchronised, for the routes   *)
(* of protocol 186.  A pass is the time the overlay's mutex is held.       *)
(***************************************************************************)
EXTENDS IpsecConfigure

WantedRoutes == IF SyncRoutes THEN {RouteOf(e) : e \in RemoteEntries} ELSE routes

PolicyTable == INSTANCE Reconciler WITH
  Item <- Policy, desired <- Desired, installed <- policies, busy <- mu # Nobody, status <- last

RouteTable == INSTANCE Reconciler WITH
  Item <- Route, desired <- WantedRoutes, installed <- routes, busy <- mu # Nobody, status <- last

(* Every behaviour of the overlay, with failing calls, charon's deaths,    *)
(* restarts and competing callers, is one the abstract reconciler allows   *)
(* for the policies.  configure, ipsec.go:229-317.                         *)
PoliciesReconciled == PolicyTable!Spec

(* The same for the host routes.  syncHostRoutes, ipsec.go:836-899.        *)
RoutesReconciled == RouteTable!Spec

=============================================================================
