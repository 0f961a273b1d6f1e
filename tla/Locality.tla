------------------------------ MODULE Locality ------------------------------
(***************************************************************************)
(* What a Router of router.py knows about its backends: which of them are  *)
(* on the device, from the backends that were declared, from the ids given *)
(* to __init__, or from hints in the names; and the deny_cloud guard.      *)
(***************************************************************************)
EXTENDS Policy

CONSTANTS
    LocalHinted,    \* the backend ids with a substring of _LOCAL_HINTS
    CloudHinted     \* the backend ids with a substring of _CLOUD_HINTS

ASSUME LocalityAssumption == LocalHinted \subseteq Backends /\ CloudHinted \subseteq Backends

BackendDescriptor == [backend_id : Backends, is_local : BOOLEAN]

RouterObject ==
    [policy         : PolicySpec,
     backends       : SUBSET BackendDescriptor,
     local_known    : BOOLEAN,
     local_backends : SUBSET Backends]

-----------------------------------------------------------------------------

(* local_backends is the argument when it is given, else the ids of the    *)
(* declared backends that are local, else None (local_known is FALSE).     *)
NewRouter(policy, backends, given, ids) ==
    [policy         |-> policy,
     backends       |-> backends,
     local_known    |-> given \/ backends # {},
     local_backends |-> IF given
                        THEN ids
                        ELSE {b.backend_id : b \in {d \in backends : d.is_local}}]

(* The backends known to be on the device, and those known not to be: the  *)
(* declared sets when there are any, else the naming hints, local first.   *)
LocalIds(r) == IF r.local_known THEN r.local_backends ELSE LocalHinted

CloudIds(r) ==
    IF r.local_known THEN Backends \ r.local_backends ELSE CloudHinted \ LocalHinted

BackendIsLocal(r, backend) ==
    IF backend \in LocalIds(r) THEN "local"
    ELSE IF backend \in CloudIds(r) THEN "cloud"
    ELSE "unknown"

(* Only a declared cloud backend is refused: the mutant of DeniesCloud.    *)
DeniesDeclaredCloud(r, decision, groups) ==
    /\ groups \cap DeniedGroups(r.policy) # {}
    /\ BackendIsLocal(r, decision.backend_id) = "cloud"
    /\ r.backends # {}

(* The deny_cloud guard refuses the decision: it would send a denied group *)
(* to a backend that is not local.  One that cannot be placed is refused   *)
(* when backends are declared, and let through with a warning when not.    *)
DeniesCloud(r, decision, groups) ==
    /\ groups \cap DeniedGroups(r.policy) # {}
    /\ LET is_local == BackendIsLocal(r, decision.backend_id)
       IN  is_local = "cloud" \/ (is_local = "unknown" /\ r.backends # {})

=============================================================================
