------------------------------- MODULE Server -------------------------------
(***************************************************************************)
(* server/app.py: the app's lifespan (load the configuration, build the    *)
(* adapters, load the policy; close the adapters at the end) and the       *)
(* requests it serves.  What is nonlocal to the lifespan outlives a start  *)
(* of the app.  External: the ASGI server, which starts the app, accepts   *)
(* requests while it is up and lets them end, or cancels them, before the  *)
(* lifespan goes on to its shutdown; the clients, who may stop reading a   *)
(* streamed answer or leave; the providers; the files, which hold whatever *)
(* they hold when they are read.  What a stream consists of is in Stream.  *)
(***************************************************************************)
EXTENDS Adapters, SequencesExt, FiniteSets

CONSTANTS
    Requests,
    Configs,        \* the backends that a configuration may list
    Defaults,       \* the default_backend that a policy file may have
    MaxStarts       \* bound: how often the app is started

ASSUME ServerAssumption ==
    /\ Configs \subseteq Seq(BackendConfig)
    /\ Defaults \subseteq STRING
    /\ MaxStarts \in Nat
    /\ None \notin STRING /\ None \notin Address /\ None \notin Configs
    /\ None \notin Seq([id : STRING, client : Nat])

VARIABLES
    phase,      \* where the lifespan is
    config,     \* _resolved_config: its backends
    adapters,   \* _resolved_adapters: a dict, in its order
    policy,     \* _policy: its default_backend
    app,        \* app.state
    clients,    \* every adapter's client that was ever constructed
    built,      \* the dict that _build_adapters made in this start
    at,         \* the backend it is at
    closed,     \* how many adapters the shutdown is done with
    pc,         \* where each request is
    target,     \* the client of its adapter
    starts

lifespan == <<phase, config, adapters, policy, app, built, at, closed, starts>>
requests == <<pc, target>>
vars == <<lifespan, clients, requests>>

-----------------------------------------------------------------------------

Phases == {"down", "load", "build", "policy", "up", "draining", "closing", "failed"}

InFlight == {"chat", "stream", "stalled"}

Over == {"refused", "answered", "error", "cancelled"}

(* A list of pairs instead of a dict: a mutant.                            *)
PutAppending(dict, id, client) == Append(dict, [id |-> id, client |-> client])

(* dict[id] = client: an id keeps its first place and its last value.      *)
Put(dict, id, client) ==
    IF \E i \in DOMAIN dict : dict[i].id = id
    THEN [i \in DOMAIN dict |-> IF dict[i].id = id THEN [id |-> id, client |-> client] ELSE dict[i]]
    ELSE Append(dict, [id |-> id, client |-> client])

(* The first adapter, whatever the policy says: a mutant.                  *)
PickFirst(dict, default) == dict[1].client

(* The default backend's adapter, or the first one.                        *)
Pick(dict, default) ==
    IF \E i \in DOMAIN dict : dict[i].id = default
    THEN dict[CHOOSE i \in DOMAIN dict : dict[i].id = default].client
    ELSE dict[1].client

-----------------------------------------------------------------------------
(* The lifespan.                                                           *)

Start ==
    /\ phase \in {"down", "failed"}
    /\ starts < MaxStarts
    /\ phase' = "load" /\ starts' = starts + 1 /\ built' = <<>> /\ at' = 1
    /\ UNCHANGED <<config, adapters, policy, app, clients, closed, requests>>

(* The configuration is kept from an earlier start, or read from the file  *)
(* ROUTER_CONFIG names, if it is set; ConfigError becomes ServerError.     *)
LoadConfig ==
    /\ phase = "load"
    /\ \/ /\ config' \in IF config = None THEN Configs \cup {None} ELSE {config}
          /\ phase' = IF adapters = None /\ config' # None THEN "build" ELSE "policy"
       \/ config = None /\ phase' = "failed" /\ UNCHANGED config
    /\ UNCHANGED <<adapters, policy, app, clients, built, at, closed, requests, starts>>

Backend == config[at]

Construct ==
    /\ CanBuild(Backend)
    /\ clients' = Append(clients, NewClient(Backend))
    /\ built' = Put(built, Backend.id, Len(clients'))
    /\ at' = at + 1
    /\ UNCHANGED <<phase, adapters>>

(* The loop ends at the backend that fails, and the app comes up with the  *)
(* others: a mutant.                                                       *)
BuildAdapterLazily ==
    /\ phase = "build" /\ at <= Len(config)
    /\ \/ Construct
       \/ /\ ~CanBuild(Backend)
          /\ adapters' = built /\ phase' = "policy"
          /\ UNCHANGED <<clients, built, at>>
    /\ UNCHANGED <<config, policy, app, closed, requests, starts>>

(* The start waits until the backend can be built: a mutant.               *)
BuildAdapterWaiting ==
    /\ phase = "build" /\ at <= Len(config)
    /\ Construct
    /\ UNCHANGED <<config, policy, app, closed, requests, starts>>

(* One backend of _build_adapters; its exception ends the start.           *)
BuildAdapter ==
    /\ phase = "build" /\ at <= Len(config)
    /\ \/ Construct
       \/ ~CanBuild(Backend) /\ phase' = "failed" /\ UNCHANGED <<adapters, clients, built, at>>
    /\ UNCHANGED <<config, policy, app, closed, requests, starts>>

AdaptersBuilt ==
    /\ phase = "build" /\ at > Len(config)
    /\ adapters' = built /\ phase' = "policy"
    /\ UNCHANGED <<config, policy, app, clients, built, at, closed, requests, starts>>

(* The policy, or None if loading it fails in any way; then app.state is   *)
(* filled and the app is up.                                               *)
LoadPolicy ==
    /\ phase = "policy"
    /\ policy' \in IF config = None THEN {policy} ELSE Defaults \cup {None}
    /\ app' = [adapters |-> IF adapters = None THEN <<>> ELSE adapters, policy |-> policy']
    /\ phase' = "up"
    /\ UNCHANGED <<config, adapters, clients, built, at, closed, requests, starts>>

(* An exception of aclose ends the loop: a mutant.                         *)
CloseAdapterUnguarded ==
    /\ phase = "closing" /\ closed < Len(app.adapters)
    /\ LET c == app.adapters[closed + 1].client
       IN  \/ /\ clients' = IF HasAclose(clients[c]) /\ clients[c].life = "open"
                            THEN [clients EXCEPT ![c].life = "closed"] ELSE clients
              /\ closed' = closed + 1 /\ UNCHANGED phase
           \/ /\ HasAclose(clients[c]) /\ clients[c].life = "open"
              /\ clients' = [clients EXCEPT ![c].life = "broken"]
              /\ closed' = 0 /\ phase' = "down"
    /\ UNCHANGED <<config, adapters, policy, app, built, at, requests, starts>>

(* The loop waits for an aclose that does not raise: a mutant.             *)
CloseAdapterRetrying ==
    /\ phase = "closing" /\ closed < Len(app.adapters)
    /\ LET c == app.adapters[closed + 1].client
       IN  IF HasAclose(clients[c]) /\ clients[c].life = "open"
           THEN \E life \in {"closed", "broken"} :
                   /\ clients' = [clients EXCEPT ![c].life = life]
                   /\ closed' = IF life = "closed" THEN closed + 1 ELSE closed
           ELSE /\ clients[c].life # "broken"
                /\ closed' = closed + 1 /\ UNCHANGED clients
    /\ UNCHANGED <<phase, config, adapters, policy, app, built, at, requests, starts>>

(* One adapter of the shutdown loop.  A client whose aclose raised is      *)
(* closed for requests and keeps what it could not release; a second       *)
(* aclose does nothing.                                                    *)
CloseAdapter ==
    /\ phase = "closing" /\ closed < Len(app.adapters)
    /\ LET c == app.adapters[closed + 1].client
       IN  IF HasAclose(clients[c]) /\ clients[c].life = "open"
           THEN \E life \in {"closed", "broken"} : clients' = [clients EXCEPT ![c].life = life]
           ELSE UNCHANGED clients
    /\ closed' = closed + 1
    /\ UNCHANGED <<phase, config, adapters, policy, app, built, at, requests, starts>>

Stopped ==
    /\ phase = "closing" /\ closed = Len(app.adapters)
    /\ phase' = "down" /\ closed' = 0
    /\ UNCHANGED <<config, adapters, policy, app, clients, built, at, requests, starts>>

-----------------------------------------------------------------------------
(* Requests.                                                               *)

(* chat_completions, up to its call of the adapter, whose answer it waits  *)
(* for or streams: 503 without adapters.                                   *)
Receive(r) ==
    /\ phase = "up" /\ pc[r] = "idle"
    /\ \/ app.adapters = <<>> /\ pc' = [pc EXCEPT ![r] = "refused"] /\ UNCHANGED target
       \/ /\ app.adapters # <<>>
          /\ \E waiting \in {"chat", "stream"} : pc' = [pc EXCEPT ![r] = waiting]
          /\ target' = [target EXCEPT ![r] = Pick(app.adapters, app.policy)]
    /\ UNCHANGED <<lifespan, clients>>

(* The adapter is closed after its call (async with adapter): a mutant.    *)
AnswerAndClose(r) ==
    /\ pc[r] = "chat"
    /\ pc' = [pc EXCEPT ![r] = "answered"]
    /\ clients' = [clients EXCEPT ![target[r]].life = "closed"]
    /\ UNCHANGED <<lifespan, target>>

(* _blocking_response: the provider answers or the call fails, which with  *)
(* a closed client it always does.                                         *)
Answer(r) ==
    /\ pc[r] = "chat"
    /\ \/ clients[target[r]].life = "open" /\ pc' = [pc EXCEPT ![r] = "answered"]
       \/ pc' = [pc EXCEPT ![r] = "error"]
    /\ UNCHANGED <<lifespan, clients, target>>

(* generate, in _stream_response, runs to its end while the client reads,  *)
(* or the call fails.                                                      *)
AnswerStream(r) ==
    /\ pc[r] = "stream"
    /\ \/ clients[target[r]].life = "open" /\ pc' = [pc EXCEPT ![r] = "answered"]
       \/ pc' = [pc EXCEPT ![r] = "error"]
    /\ UNCHANGED <<lifespan, clients, target>>

(* The client of a stream does not read on, and generate waits at a yield  *)
(* for as long; reads again; or leaves, whereupon generate is cancelled.   *)
Stall(r) ==
    /\ pc[r] = "stream" /\ pc' = [pc EXCEPT ![r] = "stalled"]
    /\ UNCHANGED <<lifespan, clients, target>>

Resume(r) ==
    /\ pc[r] = "stalled" /\ pc' = [pc EXCEPT ![r] = "stream"]
    /\ UNCHANGED <<lifespan, clients, target>>

Leave(r) ==
    /\ pc[r] \in {"stream", "stalled"} /\ pc' = [pc EXCEPT ![r] = "cancelled"]
    /\ UNCHANGED <<lifespan, clients, target>>

-----------------------------------------------------------------------------
(* The ASGI server: it stops accepting, lets requests end and then resumes *)
(* the lifespan.  One that was given a timeout cancels what takes longer;  *)
(* serve gives uvicorn none.                                               *)

Stop ==
    /\ phase = "up" /\ phase' = "draining"
    /\ UNCHANGED <<config, adapters, policy, app, clients, built, at, closed, requests, starts>>

Cancel(r) ==
    /\ phase = "draining" /\ pc[r] \in InFlight
    /\ pc' = [pc EXCEPT ![r] = "cancelled"]
    /\ UNCHANGED <<lifespan, clients, target>>

Drained ==
    /\ phase = "draining" /\ \A r \in Requests : pc[r] \notin InFlight
    /\ phase' = "closing"
    /\ UNCHANGED <<config, adapters, policy, app, clients, built, at, closed, requests, starts>>

(* The app is not started again.                                           *)
Ended == phase \in {"down", "failed"} /\ starts = MaxStarts /\ UNCHANGED vars

-----------------------------------------------------------------------------

Init ==
    /\ phase = "down"
    /\ config \in Configs \cup {None}
    /\ adapters = None /\ policy = None
    /\ app = [adapters |-> <<>>, policy |-> None]
    /\ clients = <<>> /\ built = <<>> /\ at = 1 /\ closed = 0
    /\ pc = [r \in Requests |-> "idle"]
    /\ target = [r \in Requests |-> None]
    /\ starts = 0

Lifespan == LoadConfig \/ BuildAdapter \/ AdaptersBuilt \/ LoadPolicy \/ CloseAdapter \/ Stopped

Next ==
    \/ Start \/ Lifespan \/ Stop \/ Drained
    \/ \E r \in Requests :
          \/ Receive(r) \/ Answer(r) \/ AnswerStream(r)
          \/ Stall(r) \/ Resume(r) \/ Leave(r) \/ Cancel(r)
    \/ Ended

(* The lifespan runs on, adapters' calls and streams end (their clients    *)
(* have timeouts) while somebody reads them, and the ASGI server resumes   *)
(* the lifespan when it may.  Nobody has to start or stop the app, to send *)
(* a request, to read on, to leave or to cancel anything.                  *)
Fairness ==
    /\ WF_vars(Lifespan) /\ WF_vars(Drained)
    /\ \A r \in Requests : WF_vars(Answer(r)) /\ WF_vars(AnswerStream(r))

Spec == Init /\ [][Next]_vars /\ Fairness

-----------------------------------------------------------------------------
(* Properties.                                                             *)

Ids == {config[i].id : i \in DOMAIN config}

Live(e) == clients[e.client].life = "open"

Hosts ==
    LoopbackHosts \cup UNION {EffectiveAllowlist(kind) \cup {SdkHosts[kind]} : kind \in CloudKinds}

Client ==
    [id : STRING, kind : LocalKinds \cup CloudKinds, host : Hosts,
     life : {"open", "closed", "broken"}]

(* A dict's entries are of different ids and each refers to a client.      *)
Entries(n) == [id : STRING, client : 1..n]

DictOK(dict, n) ==
    /\ dict \in Seq(Entries(n))
    /\ \A i, j \in DOMAIN dict : dict[i].id = dict[j].id => i = j

(* Every variable holds values of the kind the code puts there; the dicts  *)
(* refer to clients that exist and have one entry per id.                  *)
TypeOK ==
    /\ phase \in Phases
    /\ config \in Configs \cup {None}
    /\ policy \in Defaults \cup {None}
    /\ \A dict \in {app.adapters, built} \cup ({adapters} \ {None}) :
          DictOK(dict, Len(clients))
    /\ clients \in Seq(Client)
    /\ at \in Nat \ {0}
    /\ closed \in 0..Len(app.adapters)
    /\ pc \in [Requests -> {"idle"} \cup InFlight \cup Over]
    /\ target \in [Requests -> DOMAIN clients \cup {None}]
    /\ starts \in 0..MaxStarts

(* "Construction is eager so any misconfiguration fails at startup rather  *)
(* than on the first request" (_build_adapters): an app that is up has an  *)
(* adapter for every backend, also after a start that failed.              *)
StartIsAllOrNothing ==
    phase = "up" /\ config # None =>
        \A i \in DOMAIN config :
            /\ CanBuild(config[i])
            /\ \E e \in ToSet(app.adapters) : e.id = config[i].id

(* A request is sent to the last backend that was configured under the     *)
(* policy's default id or, if there is none, under the first id, whatever  *)
(* was built, failed and started before (chat_completions).                *)
DefaultServes ==
    \A r \in Requests : pc[r] \in InFlight =>
        LET id == IF app.policy \in Ids THEN app.policy ELSE config[1].id
            last == config[Max({i \in DOMAIN config : config[i].id = id})]
            client == clients[target[r]]
        IN  client.id = id /\ client.kind = last.kind

(* While the start that built them lasts, requests find their adapters     *)
(* open: nothing but the shutdown closes one, after the last request.      *)
ServedByOpenAdapters ==
    \A r \in Requests : pc[r] \in InFlight /\ built # <<>> => clients[target[r]].life = "open"

(* A stopped app has closed every adapter of app.state that can be closed, *)
(* also after one whose aclose raised ("best-effort cleanup").             *)
StopClosesAll ==
    phase = "down" =>
        \A e \in ToSet(app.adapters) : HasAclose(clients[e.client]) => ~Live(e)

(* The host was left to the SDK: router.yaml gives the backend no base_url.*)
LeftToSdk(client, backends) ==
    \E b \in ToSet(backends) : b.id = client.id /\ b.kind = client.kind /\ b.base_url = None

HostAllowed(client, backends) ==
    IF client.kind \in LocalKinds THEN client.host \in LoopbackHosts
    ELSE \/ client.host \in EffectiveAllowlist(client.kind)
         \/ client.host = SdkHosts[client.kind] /\ LeftToSdk(client, backends)

(* "Local adapters reject any non-loopback host", and a cloud adapter's    *)
(* host is allowed for its own kind, unless it was left to the SDK, which  *)
(* is the one case that _validate_host lets pass unchecked.                *)
HostsAllowed == \A i \in DOMAIN clients : HostAllowed(clients[i], config)

(* A start comes up or fails.                                              *)
StartEnds == phase = "load" ~> phase \in {"up", "failed"}

(* Every client of a stream reads on in the end, or leaves.                *)
ReadOn == \A r \in Requests : <>[](pc[r] # "stalled")

(* A stop ends, whatever aclose does, provided that no client of a stream  *)
(* stalls for good: uvicorn.run (cli/main.py:165) has no graceful timeout, *)
(* so it waits for as long as one does.                                    *)
StopEnds == ReadOn => (phase = "draining" ~> phase = "down")

(* README: "Fail-closed. Classifier/policy failures refuse the call."      *)
PolicyFailureRefuses ==
    \A r \in Requests : pc[r] \in InFlight => app.policy # None

(* app.py: the lifespan "closes any httpx clients on shutdown".            *)
NoClientLeftOpen ==
    phase = "down" => \A i \in DOMAIN clients : HasAclose(clients[i]) => clients[i].life # "open"

(* app.py: the lifespan "constructs adapters once at boot", so an app that *)
(* was booted has adapters that are open.                                  *)
BootedWithOpenAdapters == phase = "up" => \A e \in ToSet(app.adapters) : Live(e)

=============================================================================
