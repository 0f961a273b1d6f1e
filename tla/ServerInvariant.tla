-------------------------- MODULE ServerInvariant --------------------------
(***************************************************************************)
(* The inductive invariant of Server: what the dict of adapters is while   *)
(* it is being made and whenever it is used, over any number of starts.    *)
(***************************************************************************)
EXTENDS Server

Serving == {"up", "draining"}

(* A dict is what the first n backends of a configuration become: an entry *)
(* for each id, the first id first, and each with a client of the last     *)
(* backend of its id.                                                      *)
IsLast(backends, i, n) == \A j \in (i + 1)..n : backends[j].id # backends[i].id

ClientOf(client, id, backend) ==
    id = backend.id /\ client.id = backend.id /\ client.kind = backend.kind

MadeOf(dict, cs, backends, n) ==
    /\ \A i \in 1..n : CanBuild(backends[i]) /\ \E k \in DOMAIN dict : dict[k].id = backends[i].id
    /\ \A k \in DOMAIN dict : \E i \in 1..n :
          IsLast(backends, i, n) /\ ClientOf(cs[dict[k].client], dict[k].id, backends[i])
    /\ n > 0 => dict # <<>> /\ dict[1].id = backends[1].id

(* Which of the variables that outlive a start are set where.              *)
LoadOK ==
    /\ phase = "build" =>
          /\ config # None /\ adapters = None /\ at <= Len(config) + 1
          /\ MadeOf(built, clients, config, at - 1)
    /\ adapters # None => config # None /\ MadeOf(adapters, clients, config, Len(config))
    /\ phase \in {"policy", "closing"} \cup Serving => (adapters = None <=> config = None)
    /\ clients # <<>> => config # None

AppOK ==
    phase \in {"closing"} \cup Serving =>
        app.adapters = IF adapters = None THEN <<>> ELSE adapters

RequestOK ==
    \A r \in Requests : pc[r] \in InFlight =>
        /\ phase \in Serving
        /\ app.adapters # <<>> /\ target[r] = Pick(app.adapters, app.policy)

(* The adapters that this start made are open until the shutdown.          *)
OpenOK ==
    /\ phase = "load" => built = <<>> /\ at = 1
    /\ built # <<>> /\ phase \in {"policy"} \cup Serving => adapters = built
    /\ phase \in {"build", "policy"} \cup Serving => \A k \in DOMAIN built : Live(built[k])

CloseOK ==
    /\ phase # "closing" => closed = 0
    /\ phase = "closing" =>
          \A k \in 1..closed :
              HasAclose(clients[app.adapters[k].client]) => ~Live(app.adapters[k])
    /\ StopClosesAll

IInv == TypeOK /\ LoadOK /\ AppOK /\ RequestOK /\ OpenOK /\ CloseOK /\ HostsAllowed

=============================================================================
