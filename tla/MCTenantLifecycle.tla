-------------------------- MODULE MCTenantLifecycle --------------------------
(* Instances of TenantLifecycle for TLC: which entry points a deployment has. *)
EXTENDS TenantLifecycle, TLC

\* Every entry point, at the hands of operators that may do anything.
AllOps == Operations
\* suspend does to the row what activate does, with another status.
AllButSuspend == Operations \ {"suspend"}
AnyStatus == Statuses \ {"absent"}

\* The recycle bin that empties itself.
PurgingOps == {"create", "install", "destroyKeep", "destroyDrop",
               "activate", "suspend", "purge", "doctor"}
ServedStatuses == {"active", "suspended"}

Symmetry == Permutations(Workers) \cup Permutations(Tenants)
=============================================================================
