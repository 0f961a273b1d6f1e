---------------------------- MODULE ServerProofs ----------------------------
(***************************************************************************)
(* The safety properties of Server, proved for every set of requests, list *)
(* of backends, policy file and number of starts.  First what one backend  *)
(* adds to the dict of adapters, then the inductive invariant.             *)
(***************************************************************************)
EXTENDS ServerInvariant, SequenceTheorems, TLAPS

-----------------------------------------------------------------------------
(* Backends, clients and dicts.                                            *)

(* An adapter that is built connects to a host that is allowed for it, or  *)
(* has none and takes its SDK's.                                           *)
LEMMA HostIsAllowed ==
    ASSUME NEW b \in BackendConfig, CanBuild(b)
    PROVE  /\ IF b.kind \in LocalKinds THEN HostOf(b) \in LoopbackHosts
              ELSE \/ HostOf(b) \in EffectiveAllowlist(b.kind)
                   \/ HostOf(b) = SdkHosts[b.kind] /\ b.base_url = None
           /\ HostOf(b) \in Hosts
<1>1. CASE b.kind \in LocalKinds
    <2>1. HostOf(b) \in LoopbackHosts
        BY <1>1 DEF CanBuild, ValidateLocalhost, HostOf, LoopbackHosts
    <2>. QED
        BY <1>1, <2>1 DEF Hosts
<1>2. CASE b.kind \notin LocalKinds
    <2>1. b.kind \in CloudKinds
        BY <1>2 DEF BackendConfig
    <2>2. ValidateHost(b.base_url, b.kind)
        BY <1>2 DEF CanBuild
    <2>3. \/ HostOf(b) \in EffectiveAllowlist(b.kind)
          \/ HostOf(b) = SdkHosts[b.kind] /\ b.base_url = None
        BY <1>2, <2>2 DEF ValidateHost, HostOf
    <2>. QED
        BY <1>2, <2>1, <2>3 DEF Hosts
<1>. QED
    BY <1>1, <1>2

LEMMA NewClientType ==
    ASSUME NEW b \in BackendConfig, CanBuild(b)
    PROVE  /\ NewClient(b) \in Client
           /\ NewClient(b).id = b.id /\ NewClient(b).kind = b.kind
           /\ NewClient(b).life = "open" /\ NewClient(b).host = HostOf(b)
BY HostIsAllowed DEF NewClient, Client, BackendConfig

(* What an assignment to a key does to a dict.                             *)
IsUpdate(put, dict, id, client) ==
    /\ put # <<>> /\ \E k \in DOMAIN put : put[k].id = id
    /\ put[1].id = IF dict = <<>> THEN id ELSE dict[1].id
    /\ \A k \in DOMAIN dict : k \in DOMAIN put /\ put[k].id = dict[k].id
    /\ \A k \in DOMAIN put :
          \/ put[k] = [id |-> id, client |-> client]
          \/ k \in DOMAIN dict /\ put[k] = dict[k] /\ dict[k].id # id

LEMMA PutMeans ==
    ASSUME NEW n \in Nat, NEW dict, DictOK(dict, n), NEW id \in STRING
    PROVE  /\ DictOK(Put(dict, id, n + 1), n + 1)
           /\ IsUpdate(Put(dict, id, n + 1), dict, id, n + 1)
<1>. DEFINE put == Put(dict, id, n + 1)
            new == [id |-> id, client |-> n + 1]
<1>1. dict \in Seq(Entries(n)) /\ \A i, j \in DOMAIN dict : dict[i].id = dict[j].id => i = j
    BY DEF DictOK
<1>2. dict \in Seq(Entries(n + 1)) /\ new \in Entries(n + 1)
    <2>1. Entries(n) \subseteq Entries(n + 1)
        BY DEF Entries
    <2>2. new \in Entries(n + 1)
        BY DEF Entries
    <2>. QED
        BY <1>1, <2>1, <2>2
<1>3. CASE \E i \in DOMAIN dict : dict[i].id = id
    <2>1. put = [i \in DOMAIN dict |-> IF dict[i].id = id THEN new ELSE dict[i]]
        BY <1>3 DEF Put
    <2>2. put \in Seq(Entries(n + 1)) /\ DOMAIN put = DOMAIN dict
        <3>. HIDE DEF new
        <3>. QED
            BY <1>2, <2>1
    <2>3. \A k \in DOMAIN dict : put[k].id = dict[k].id
        BY <1>2, <2>1
    <2>4. DictOK(put, n + 1)
        BY <1>1, <2>2, <2>3 DEF DictOK
    <2>. HIDE DEF put
    <2>5. dict # <<>> /\ 1 \in DOMAIN dict /\ put # <<>>
        BY <1>1, <1>3, <2>2
    <2>6. \A k \in DOMAIN put : put[k] = new \/ (put[k] = dict[k] /\ dict[k].id # id)
        BY <2>1, <2>2
    <2>. QED
        BY <1>3, <2>2, <2>3, <2>4, <2>5, <2>6 DEF put, IsUpdate
<1>4. CASE \A i \in DOMAIN dict : dict[i].id # id
    <2>1. put = Append(dict, new)
        BY <1>4 DEF Put
    <2>2. /\ put \in Seq(Entries(n + 1)) /\ Len(put) = Len(dict) + 1
          /\ \A k \in 1..Len(dict) : put[k] = dict[k]
          /\ put[Len(put)] = new
        BY <1>2, <2>1
    <2>. HIDE DEF put
    <2>3. DOMAIN dict = 1..Len(dict) /\ DOMAIN put = 1..Len(put) /\ Len(dict) \in Nat
        BY <1>1, <2>2
    <2>4. \A k \in DOMAIN put : k = Len(put) \/ k \in DOMAIN dict
        BY <2>2, <2>3
    <2>5. \A i, j \in DOMAIN put : put[i].id = put[j].id => i = j
        BY <1>1, <1>4, <2>2, <2>3, <2>4
    <2>6. DictOK(put, n + 1)
        BY <2>2, <2>5 DEF DictOK
    <2>7. put # <<>> /\ Len(put) \in DOMAIN put
        BY <2>2, <2>3
    <2>8. put[1].id = IF dict = <<>> THEN id ELSE dict[1].id
        <3>1. CASE dict = <<>>
            BY <2>2, <3>1
        <3>2. CASE dict # <<>>
            BY <1>1, <2>2, <3>2
        <3>. QED
            BY <3>1, <3>2
    <2>. QED
        BY <1>4, <2>2, <2>3, <2>4, <2>6, <2>7, <2>8 DEF put, IsUpdate
<1>. QED
    BY <1>3, <1>4

(* Dicts only refer to clients, which stay what they are but for their life. *)
SameClients(old, new) ==
    /\ Len(old) <= Len(new)
    /\ \A c \in 1..Len(old) :
          new[c].id = old[c].id /\ new[c].kind = old[c].kind /\ new[c].host = old[c].host

LEMMA DictKept ==
    ASSUME NEW m \in Nat, NEW n \in Nat, m <= n, NEW dict, DictOK(dict, m)
    PROVE  DictOK(dict, n)
<1>1. Entries(m) \subseteq Entries(n)
    BY DEF Entries
<1>. QED
    BY <1>1 DEF DictOK

LEMMA MadeKept ==
    ASSUME NEW old \in Seq(Client), NEW new \in Seq(Client), SameClients(old, new),
           NEW dict, DictOK(dict, Len(old)), NEW backends, NEW n \in Nat,
           MadeOf(dict, old, backends, n)
    PROVE  MadeOf(dict, new, backends, n)
<1>1. ASSUME NEW k \in DOMAIN dict, NEW b, ClientOf(old[dict[k].client], dict[k].id, b)
      PROVE  ClientOf(new[dict[k].client], dict[k].id, b)
    <2>1. dict[k] \in Entries(Len(old))
        BY DEF DictOK
    <2>. QED
        BY <1>1, <2>1 DEF Entries, SameClients, ClientOf
<1>. QED
    BY <1>1 DEF MadeOf

(* One more backend.                                                       *)
LEMMA MadeExtended ==
    ASSUME NEW backends \in Seq(BackendConfig), NEW n \in Nat, n < Len(backends),
           NEW old \in Seq(Client), NEW dict, DictOK(dict, Len(old)),
           MadeOf(dict, old, backends, n), NEW b, b = backends[n + 1], CanBuild(b),
           NEW put, put = Put(dict, b.id, Len(old) + 1),
           NEW new, new = Append(old, NewClient(b))
    PROVE  MadeOf(put, new, backends, n + 1)
<1>1. b \in BackendConfig /\ b.id \in STRING
    <2>1. b \in BackendConfig
        OBVIOUS
    <2>. QED
        BY <2>1 DEF BackendConfig
<1>2. /\ Len(old) \in Nat /\ Len(new) = Len(old) + 1 /\ new[Len(old) + 1] = NewClient(b)
      /\ \A c \in 1..Len(old) : new[c] = old[c]
    BY <1>1, NewClientType
<1>3. IsUpdate(put, dict, b.id, Len(old) + 1)
    BY <1>1, <1>2, PutMeans
<1>4. ASSUME NEW i \in 1..(n + 1)
      PROVE  CanBuild(backends[i]) /\ \E k \in DOMAIN put : put[k].id = backends[i].id
    <2>1. CASE i = n + 1
        BY <1>3, <2>1 DEF IsUpdate
    <2>2. CASE i \in 1..n
        <3>1. CanBuild(backends[i]) /\ \E k \in DOMAIN dict : dict[k].id = backends[i].id
            BY <2>2 DEF MadeOf
        <3>. QED
            BY <1>3, <3>1 DEF IsUpdate
    <2>. QED
        BY <2>1, <2>2
<1>5. ASSUME NEW k \in DOMAIN put
      PROVE  \E i \in 1..(n + 1) :
                IsLast(backends, i, n + 1) /\ ClientOf(new[put[k].client], put[k].id, backends[i])
    <2>1. CASE put[k] = [id |-> b.id, client |-> Len(old) + 1]
        <3>1. IsLast(backends, n + 1, n + 1)
            BY DEF IsLast
        <3>2. ClientOf(new[put[k].client], put[k].id, b)
            BY <1>1, <1>2, <2>1, NewClientType DEF ClientOf
        <3>3. n + 1 \in 1..(n + 1) /\ b = backends[n + 1]
            OBVIOUS
        <3>. QED
            BY <3>1, <3>2, <3>3
    <2>2. CASE k \in DOMAIN dict /\ put[k] = dict[k] /\ dict[k].id # b.id
        <3>1. PICK i \in 1..n : /\ IsLast(backends, i, n)
                                /\ ClientOf(old[dict[k].client], dict[k].id, backends[i])
            BY <2>2 DEF MadeOf
        <3>2. backends[i].id # b.id
            BY <2>2, <3>1 DEF ClientOf
        <3>3. IsLast(backends, i, n + 1)
            BY <3>1, <3>2 DEF IsLast
        <3>4. dict[k] \in Entries(Len(old))
            BY <2>2 DEF DictOK
        <3>5. ClientOf(new[put[k].client], put[k].id, backends[i])
            BY <1>2, <2>2, <3>1, <3>4 DEF Entries, ClientOf
        <3>6. i \in 1..(n + 1)
            OBVIOUS
        <3>. QED
            BY <3>3, <3>5, <3>6
    <2>. QED
        BY <1>3, <2>1, <2>2 DEF IsUpdate
<1>6. put[1].id = backends[1].id
    <2>1. CASE n = 0
        <3>1. dict = <<>>
            <4>1. ASSUME NEW k \in DOMAIN dict PROVE FALSE
                <5>1. \E i \in 1..n : TRUE
                    BY DEF MadeOf
                <5>. QED
                    BY <2>1, <5>1
            <4>2. dict \in Seq(Entries(Len(old)))
                BY DEF DictOK
            <4>3. DOMAIN dict = 1..Len(dict) /\ Len(dict) \in Nat
                BY <4>2, LenProperties
            <4>4. Len(dict) = 0
                <5>1. 1 \notin 1..Len(dict)
                    BY <4>1, <4>3
                <5>. QED
                    BY <4>3, <5>1
            <4>. QED
                BY <4>2, <4>4, EmptySeq
        <3>. QED
            BY <1>3, <2>1, <3>1 DEF IsUpdate
    <2>2. CASE n > 0
        BY <1>3, <2>2 DEF MadeOf, IsUpdate
    <2>. QED
        BY <2>1, <2>2
<1>. QED
    BY <1>3, <1>4, <1>5, <1>6 DEF MadeOf, IsUpdate

(* The adapter of a request is one of the dict.                            *)
LEMMA PickMeans ==
    ASSUME NEW n \in Nat, NEW dict, DictOK(dict, n), dict # <<>>, NEW default
    PROVE  \E k \in DOMAIN dict :
              /\ Pick(dict, default) = dict[k].client
              /\ IF \E i \in DOMAIN dict : dict[i].id = default THEN dict[k].id = default ELSE k = 1
<1>1. CASE \E i \in DOMAIN dict : dict[i].id = default
    BY <1>1 DEF Pick
<1>2. CASE ~\E i \in DOMAIN dict : dict[i].id = default
    <2>1. 1 \in DOMAIN dict
        <3>1. dict \in Seq(Entries(n))
            BY DEF DictOK
        <3>. QED
            BY <3>1, EmptySeq, LenProperties
    <2>. QED
        BY <1>2, <2>1 DEF Pick
<1>. QED
    BY <1>1, <1>2

LEMMA PickInClients ==
    ASSUME NEW n \in Nat, NEW dict, DictOK(dict, n), dict # <<>>, NEW default
    PROVE  Pick(dict, default) \in 1..n
<1>1. PICK k \in DOMAIN dict : Pick(dict, default) = dict[k].client
    BY PickMeans
<1>2. dict[k] \in Entries(n)
    BY DEF DictOK
<1>. QED
    BY <1>1, <1>2 DEF Entries

LEMMA EmptyDict == \A n \in Nat : DictOK(<<>>, n)
BY DEF DictOK

-----------------------------------------------------------------------------
(* A turn of a request that is in flight.                                  *)

Turn(r) == Answer(r) \/ AnswerStream(r) \/ Stall(r) \/ Resume(r) \/ Leave(r) \/ Cancel(r)

LEMMA TurnMeans ==
    ASSUME NEW r \in Requests, Turn(r)
    PROVE  /\ pc[r] \in InFlight /\ UNCHANGED <<lifespan, clients, target>>
           /\ \E how \in InFlight \cup Over : pc' = [pc EXCEPT ![r] = how]
BY DEF Turn, Answer, AnswerStream, Stall, Resume, Leave, Cancel, InFlight, Over

-----------------------------------------------------------------------------
(* What a step does to the clients: one more, or one that is closed.       *)

ClientsGo ==
    /\ clients \in Seq(Client) /\ clients' \in Seq(Client)
    /\ Len(clients) \in Nat /\ Len(clients') \in Nat
    /\ SameClients(clients, clients')
    /\ \A c \in 1..Len(clients) :
          \/ clients'[c] = clients[c]
          \/ phase = "closing" /\ clients'[c].life # "open"

LEMMA BackendType ==
    ASSUME IInv, phase = "build", at <= Len(config)
    PROVE  /\ config \in Seq(BackendConfig) /\ at \in 1..Len(config) /\ Len(config) \in Nat
           /\ Backend \in BackendConfig /\ Backend.id \in STRING
<1>1. config \in Seq(BackendConfig)
    BY ServerAssumption DEF IInv, TypeOK, LoadOK
<1>2. at \in 1..Len(config) /\ Len(config) \in Nat
    BY <1>1 DEF IInv, TypeOK
<1>3. Backend \in BackendConfig
    BY <1>1, <1>2 DEF Backend
<1>. QED
    BY <1>1, <1>2, <1>3 DEF BackendConfig

LEMMA SameStep ==
    ASSUME IInv, clients' = clients
    PROVE  ClientsGo
BY DEF IInv, TypeOK, ClientsGo, SameClients

LEMMA ConstructStep ==
    ASSUME IInv, phase = "build", at <= Len(config), Construct
    PROVE  /\ ClientsGo /\ Len(clients') = Len(clients) + 1
           /\ clients'[Len(clients')] = NewClient(Backend)
           /\ DictOK(built', Len(clients'))
           /\ IsUpdate(built', built, Backend.id, Len(clients'))
<1>1. clients \in Seq(Client) /\ Len(clients) \in Nat /\ DictOK(built, Len(clients))
    BY DEF IInv, TypeOK
<1>2. NewClient(Backend) \in Client /\ Backend.id \in STRING
    BY BackendType, NewClientType DEF Construct
<1>3. /\ clients' \in Seq(Client) /\ Len(clients') = Len(clients) + 1
      /\ clients'[Len(clients')] = NewClient(Backend)
      /\ \A c \in 1..Len(clients) : clients'[c] = clients[c]
    BY <1>1, <1>2 DEF Construct
<1>4. built' = Put(built, Backend.id, Len(clients) + 1)
    BY <1>3 DEF Construct
<1>5. ClientsGo
    BY <1>1, <1>3 DEF ClientsGo, SameClients
<1>. QED
    BY <1>1, <1>2, <1>3, <1>4, <1>5, PutMeans

LEMMA CloseStep ==
    ASSUME IInv, CloseAdapter
    PROVE  ClientsGo /\ LET c == app.adapters[closed + 1].client
                        IN  c \in DOMAIN clients /\ (HasAclose(clients[c]) => clients'[c].life # "open")
<1>. DEFINE c == app.adapters[closed + 1].client
<1>1. clients \in Seq(Client) /\ Len(clients) \in Nat /\ DictOK(app.adapters, Len(clients))
    BY DEF IInv, TypeOK
<1>2. closed + 1 \in DOMAIN app.adapters
    <2>1. app.adapters \in Seq(Entries(Len(clients)))
        BY <1>1 DEF DictOK
    <2>. QED
        BY <2>1 DEF IInv, TypeOK, CloseAdapter
<1>3. c \in 1..Len(clients)
    <2>1. app.adapters[closed + 1] \in Entries(Len(clients))
        BY <1>1, <1>2 DEF DictOK
    <2>. QED
        BY <2>1 DEF Entries
<1>. HIDE DEF c
<1>4. CASE HasAclose(clients[c]) /\ clients[c].life = "open"
    <2>1. PICK life \in {"closed", "broken"} : clients' = [clients EXCEPT ![c].life = life]
        BY <1>4 DEF CloseAdapter, c
    <2>2. /\ clients' \in Seq(Client) /\ Len(clients') = Len(clients)
          /\ \A d \in 1..Len(clients) :
                clients'[d] = IF d = c THEN [clients[c] EXCEPT !.life = life] ELSE clients[d]
        <3>1. clients[c] \in Client
            BY <1>1, <1>3
        <3>2. [clients[c] EXCEPT !.life = life] \in Client
            BY <3>1 DEF Client
        <3>. QED
            BY <1>1, <1>3, <2>1, <3>2
    <2>3. /\ clients'[c].life = life /\ clients'[c].id = clients[c].id
          /\ clients'[c].kind = clients[c].kind /\ clients'[c].host = clients[c].host
        <3>1. clients[c] \in Client
            BY <1>1, <1>3
        <3>. QED
            BY <1>3, <2>2, <3>1 DEF Client
    <2>4. ClientsGo
        <3>1. phase = "closing" /\ life # "open"
            BY DEF CloseAdapter
        <3>2. \A d \in 1..Len(clients) : d = c \/ clients'[d] = clients[d]
            BY <2>2
        <3>3. SameClients(clients, clients')
            BY <1>3, <2>2, <2>3, <3>2 DEF SameClients
        <3>4. \A d \in 1..Len(clients) :
                 \/ clients'[d] = clients[d]
                 \/ phase = "closing" /\ clients'[d].life # "open"
            <4>1. phase = "closing" /\ clients'[c].life # "open"
                BY <2>3, <3>1
            <4>. QED
                BY <3>2, <4>1
        <3>. QED
            BY <1>1, <2>2, <3>3, <3>4 DEF ClientsGo
    <2>. QED
        BY <1>1, <1>3, <2>3, <2>4 DEF c
<1>5. CASE ~(HasAclose(clients[c]) /\ clients[c].life = "open")
    <2>1. clients' = clients
        BY <1>5 DEF CloseAdapter, c
    <2>. QED
        BY <1>1, <1>3, <1>5, <2>1, SameStep DEF c
<1>. QED
    BY <1>4, <1>5

LEMMA ClientsStep ==
    ASSUME IInv, [Next]_vars
    PROVE  ClientsGo
<1>1. CASE BuildAdapter
    BY <1>1, SameStep, ConstructStep DEF BuildAdapter
<1>2. CASE CloseAdapter
    BY <1>2, CloseStep
<1>3. CASE ~BuildAdapter /\ ~CloseAdapter
    <2>1. clients' = clients
        BY <1>3 DEF Next, vars, Start, Lifespan, LoadConfig, AdaptersBuilt, LoadPolicy, Stopped,
            Stop, Drained, Receive, Answer, AnswerStream, Stall, Resume, Leave, Cancel, Ended
    <2>. QED
        BY <2>1, SameStep
<1>. QED
    BY <1>1, <1>2, <1>3

LEMMA SameLength ==
    ASSUME IInv, [Next]_vars, ~(BuildAdapter /\ Construct)
    PROVE  Len(clients') = Len(clients)
<1>1. CASE CloseAdapter
    <2>1. clients \in Seq(Client)
        BY DEF IInv, TypeOK
    <2>. QED
        BY <1>1, <2>1 DEF CloseAdapter
<1>2. CASE ~CloseAdapter
    <2>1. clients' = clients
        BY <1>2 DEF Next, vars, Start, Lifespan, LoadConfig, BuildAdapter, AdaptersBuilt,
            LoadPolicy, Stopped, Stop, Drained, Receive, Answer, AnswerStream, Stall, Resume,
            Leave, Cancel, Ended
    <2>. QED
        BY <2>1
<1>. QED
    BY <1>1, <1>2

-----------------------------------------------------------------------------
(* Types.                                                                  *)

LEMMA InvariantInit == Init => IInv
<1>. SUFFICES ASSUME Init PROVE IInv
    OBVIOUS
<1>1. clients \in Seq(Client) /\ Len(clients) = 0
    BY EmptySeq DEF Init
<1>2. TypeOK
    BY <1>1, EmptyDict, ServerAssumption DEF Init, TypeOK, Phases, Over
<1>3. LoadOK /\ AppOK /\ RequestOK /\ OpenOK
    BY DEF Init, LoadOK, AppOK, RequestOK, OpenOK, Serving, InFlight
<1>4. CloseOK /\ HostsAllowed
    BY <1>1 DEF Init, CloseOK, StopClosesAll, HostsAllowed, ToSet
<1>. QED
    BY <1>2, <1>3, <1>4 DEF IInv

LEMMA DictsStep ==
    ASSUME IInv, [Next]_vars,
           NEW dict \in {app'.adapters, built'} \cup ({adapters'} \ {None})
    PROVE  DictOK(dict, Len(clients'))
<1>1. /\ Len(clients) \in Nat /\ Len(clients') \in Nat /\ Len(clients) <= Len(clients')
      /\ \A d \in {app.adapters, built} \cup ({adapters} \ {None}) : DictOK(d, Len(clients))
    BY ClientsStep DEF ClientsGo, SameClients, IInv, TypeOK
<1>2. \A d \in {<<>>, app.adapters, built} \cup ({adapters} \ {None}) : DictOK(d, Len(clients'))
    BY <1>1, EmptyDict, DictKept
<1>3. DictOK(built', Len(clients'))
    <2>1. CASE BuildAdapter /\ Construct
        BY <2>1, ConstructStep DEF BuildAdapter
    <2>2. CASE ~(BuildAdapter /\ Construct)
        <3>1. built' \in {built, <<>>}
            BY <2>2 DEF Next, vars, lifespan, Start, Lifespan, LoadConfig, BuildAdapter,
                AdaptersBuilt, LoadPolicy, CloseAdapter, Stopped, Stop, Drained, Receive,
                Answer, AnswerStream, Stall, Resume, Leave, Cancel, Ended
        <3>. QED
            BY <1>2, <3>1
    <2>. QED
        BY <2>1, <2>2
<1>4. adapters' # None => DictOK(adapters', Len(clients'))
    <2>1. adapters' \in {adapters, built}
        BY DEF Next, vars, lifespan, Start, Lifespan, LoadConfig, BuildAdapter, Construct,
            AdaptersBuilt, LoadPolicy, CloseAdapter, Stopped, Stop, Drained, Receive, Answer,
            AnswerStream, Stall, Resume, Leave, Cancel, Ended
    <2>. QED
        BY <1>2, <2>1
<1>5. DictOK(app'.adapters, Len(clients'))
    <2>1. app'.adapters \in {<<>>, app.adapters} \cup ({adapters} \ {None})
        <3>1. CASE LoadPolicy
            BY <3>1 DEF LoadPolicy
        <3>2. CASE ~LoadPolicy
            <4>1. app' = app
                BY <3>2 DEF Next, vars, lifespan, Start, Lifespan, LoadConfig, BuildAdapter,
                    AdaptersBuilt, CloseAdapter, Stopped, Stop, Drained, Receive, Answer,
                    AnswerStream, Stall, Resume, Leave, Cancel, Ended
            <4>. QED
                BY <4>1
        <3>. QED
            BY <3>1, <3>2
    <2>. QED
        BY <1>2, <2>1
<1>. QED
    BY <1>3, <1>4, <1>5

LEMMA RequestTypeStep ==
    ASSUME IInv, [Next]_vars
    PROVE  /\ pc' \in [Requests -> {"idle"} \cup InFlight \cup Over]
           /\ target' \in [Requests -> DOMAIN clients' \cup {None}]
<1>1. /\ pc \in [Requests -> {"idle"} \cup InFlight \cup Over]
      /\ target \in [Requests -> 1..Len(clients') \cup {None}]
      /\ DOMAIN clients' = 1..Len(clients')
    <2>1. /\ DOMAIN clients = 1..Len(clients) /\ Len(clients) \in Nat
          /\ DOMAIN clients' = 1..Len(clients') /\ Len(clients') \in Nat
          /\ Len(clients) <= Len(clients')
        BY ClientsStep DEF ClientsGo, SameClients
    <2>2. 1..Len(clients) \subseteq 1..Len(clients')
        BY <2>1
    <2>. QED
        BY <2>1, <2>2 DEF IInv, TypeOK
<1>2. CASE \E r \in Requests : Receive(r)
    <2>1. PICK r \in Requests : Receive(r)
        BY <1>2
    <2>2. CASE app.adapters = <<>>
        BY <1>1, <2>1, <2>2 DEF Receive, Over
    <2>3. CASE app.adapters # <<>>
        <3>1. clients' = clients
            BY <2>1 DEF Receive
        <3>2. DictOK(app.adapters, Len(clients)) /\ Len(clients) \in Nat
            BY DEF IInv, TypeOK
        <3>3. Pick(app.adapters, app.policy) \in 1..Len(clients')
            BY <2>3, <3>1, <3>2, PickInClients
        <3>4. /\ \E waiting \in InFlight : pc' = [pc EXCEPT ![r] = waiting]
              /\ target' = [target EXCEPT ![r] = Pick(app.adapters, app.policy)]
            BY <2>1, <2>3 DEF Receive, InFlight
        <3>. HIDE DEF Pick
        <3>. QED
            BY <1>1, <3>3, <3>4
    <2>. QED
        BY <2>2, <2>3
<1>3. CASE \E r \in Requests : Turn(r)
    <2>1. PICK r \in Requests, how \in InFlight \cup Over : pc' = [pc EXCEPT ![r] = how]
        BY <1>3, TurnMeans
    <2>2. target' = target
        BY <1>3, TurnMeans
    <2>. QED
        BY <1>1, <2>1, <2>2
<1>4. CASE ~\E r \in Requests : Receive(r) \/ Turn(r)
    <2>1. UNCHANGED requests
        BY <1>4 DEF Next, Turn, vars, Start, Lifespan, LoadConfig, BuildAdapter, AdaptersBuilt,
            LoadPolicy, CloseAdapter, Stopped, Stop, Drained, Ended
    <2>. QED
        BY <1>1, <2>1 DEF requests
<1>. QED
    BY <1>2, <1>3, <1>4

LEMMA TypeStep ==
    ASSUME IInv, [Next]_vars
    PROVE  TypeOK'
<1>. USE DEF IInv
<1>1. phase' \in Phases
    BY DEF TypeOK, Phases, Next, vars, lifespan, Start, Lifespan, LoadConfig, BuildAdapter,
        Construct, AdaptersBuilt, LoadPolicy, CloseAdapter, Stopped, Stop, Drained, Receive,
        Answer, AnswerStream, Stall, Resume, Leave, Cancel, Ended
<1>2. config' \in Configs \cup {None} /\ policy' \in Defaults \cup {None}
    BY DEF TypeOK, Next, vars, lifespan, Start, Lifespan, LoadConfig, BuildAdapter,
        AdaptersBuilt, LoadPolicy, CloseAdapter, Stopped, Stop, Drained, Receive, Answer,
        AnswerStream, Stall, Resume, Leave, Cancel, Ended
<1>3. at' \in Nat \ {0} /\ starts' \in 0..MaxStarts
    BY ServerAssumption DEF TypeOK, Next, vars, lifespan, Start, Lifespan, LoadConfig,
        BuildAdapter, Construct, AdaptersBuilt, LoadPolicy, CloseAdapter, Stopped, Stop,
        Drained, Receive, Answer, AnswerStream, Stall, Resume, Leave, Cancel, Ended
<1>4. closed' \in 0..Len(app'.adapters)
    <2>1. app.adapters \in Seq(Entries(Len(clients))) /\ closed \in 0..Len(app.adapters)
        BY DEF TypeOK, DictOK
    <2>2. CASE LoadPolicy
        <3>1. closed = 0 /\ closed' = closed
            BY <2>2 DEF LoadPolicy, CloseOK
        <3>2. DictOK(app'.adapters, Len(clients'))
            BY DictsStep
        <3>. QED
            BY <3>1, <3>2, LenProperties DEF DictOK
    <2>3. CASE ~LoadPolicy
        <3>1. app' = app
            BY <2>3 DEF Next, vars, lifespan, Start, Lifespan, LoadConfig, BuildAdapter,
                AdaptersBuilt, CloseAdapter, Stopped, Stop, Drained, Receive, Answer,
                AnswerStream, Stall, Resume, Leave, Cancel, Ended
        <3>2. \/ closed' \in {closed, 0}
              \/ closed' = closed + 1 /\ closed < Len(app.adapters)
            BY <2>3 DEF Next, vars, lifespan, Start, Lifespan, LoadConfig, BuildAdapter,
                AdaptersBuilt, CloseAdapter, Stopped, Stop, Drained, Receive, Answer,
                AnswerStream, Stall, Resume, Leave, Cancel, Ended
        <3>. QED
            BY <2>1, <3>1, <3>2
    <2>. QED
        BY <2>2, <2>3
<1>. QED
    BY <1>1, <1>2, <1>3, <1>4, DictsStep, RequestTypeStep, ClientsStep DEF TypeOK, ClientsGo

-----------------------------------------------------------------------------
(* The other parts of the invariant.                                       *)

LEMMA LoadStep ==
    ASSUME IInv, [Next]_vars
    PROVE  LoadOK'
<1>0. LoadOK /\ TypeOK /\ OpenOK
    BY DEF IInv
<1>a. /\ clients \in Seq(Client) /\ clients' \in Seq(Client) /\ Len(clients) \in Nat
      /\ SameClients(clients, clients')
    BY ClientsStep DEF ClientsGo
<1>b. config # None => config \in Seq(BackendConfig) /\ Len(config) \in Nat
    BY <1>0, ServerAssumption DEF TypeOK
<1>c. adapters # None => MadeOf(adapters, clients', config, Len(config))
    <2>1. adapters # None => DictOK(adapters, Len(clients)) /\ config # None
                             /\ MadeOf(adapters, clients, config, Len(config))
        BY <1>0 DEF LoadOK, TypeOK
    <2>. QED
        BY <1>a, <1>b, <2>1, MadeKept
<1>d. clients' # <<>> => config' # None
    <2>1. CASE BuildAdapter
        BY <1>0, <2>1 DEF BuildAdapter, LoadOK
    <2>2. CASE ~BuildAdapter
        <3>1. Len(clients') = Len(clients)
            BY <2>2, SameLength
        <3>2. clients' # <<>> => clients # <<>>
            BY <1>a, <3>1, EmptySeq
        <3>3. config # None => config' = config
            BY <2>2 DEF Next, vars, lifespan, Start, Lifespan, LoadConfig,
                AdaptersBuilt, LoadPolicy, CloseAdapter, Stopped, Stop, Drained, Receive, Answer,
                AnswerStream, Stall, Resume, Leave, Cancel, Ended
        <3>. QED
            BY <1>0, <3>2, <3>3 DEF LoadOK
    <2>. QED
        BY <2>1, <2>2
<1>1. CASE LoadConfig
    <2>1. CASE phase' = "build"
        <3>1. at = 1 /\ built = <<>> /\ UNCHANGED <<at, built, adapters, clients>>
            BY <1>0, <1>1 DEF LoadConfig, OpenOK
        <3>2. adapters = None /\ config' # None /\ config' \in Configs
            BY <1>0, <1>1, <2>1 DEF LoadConfig, TypeOK
        <3>3. config' \in Seq(BackendConfig)
            BY <3>2, ServerAssumption
        <3>4. Len(config') \in Nat
            BY <3>3
        <3>5. MadeOf(<<>>, clients, config', 0)
            BY DEF MadeOf
        <3>6. at' <= Len(config') + 1 /\ at' - 1 = 0
            BY <3>1, <3>4
        <3>. QED
            BY <1>d, <2>1, <3>1, <3>2, <3>5, <3>6 DEF LoadOK, Serving
    <2>2. CASE phase' # "build"
        <3>1. phase' \in {"policy", "failed"} /\ UNCHANGED <<adapters, clients>>
            BY <1>1, <2>2 DEF LoadConfig
        <3>2. adapters # None => config' = config
            BY <1>0, <1>1 DEF LoadConfig, LoadOK
        <3>3. phase' = "policy" => (adapters = None => config' = None)
            BY <1>1 DEF LoadConfig
        <3>4. adapters # None => config # None
            BY <1>0 DEF LoadOK
        <3>. QED
            BY <1>d, <1>c, <3>1, <3>2, <3>3, <3>4 DEF LoadOK, Serving
    <2>. QED
        BY <2>1, <2>2
<1>2. CASE BuildAdapter
    <2>1. /\ phase = "build" /\ at <= Len(config) /\ adapters = None /\ config # None
          /\ MadeOf(built, clients, config, at - 1) /\ UNCHANGED <<config, adapters>>
        BY <1>0, <1>2 DEF BuildAdapter, Construct, LoadOK
    <2>2. CASE Construct
        <3>1. at \in 1..Len(config) /\ config \in Seq(BackendConfig) /\ Len(config) \in Nat
            BY <2>1, BackendType
        <3>2. built' = Put(built, Backend.id, Len(clients) + 1)
            <4>1. Len(clients') = Len(clients) + 1
                BY <2>1, <2>2, ConstructStep
            <4>. QED
                BY <2>2, <4>1 DEF Construct
        <3>3. DictOK(built, Len(clients))
            BY <1>0 DEF TypeOK
        <3>4. at - 1 \in Nat /\ at - 1 < Len(config) /\ (at - 1) + 1 = at /\ at' = at + 1
            BY <2>2, <3>1 DEF Construct
        <3>5. CanBuild(Backend) /\ clients' = Append(clients, NewClient(Backend)) /\ Backend = config[at]
            BY <2>2 DEF Construct, Backend
        <3>6. MadeOf(built', clients', config, at)
            <4>. HIDE DEF Backend, Put, CanBuild
            <4>. DEFINE n == at - 1
            <4>1. n \in Nat /\ n < Len(config) /\ Backend = config[n + 1] /\ n + 1 = at
                BY <3>4, <3>5
            <4>2. MadeOf(built, clients, config, n)
                BY <2>1
            <4>. HIDE DEF n
            <4>3. MadeOf(built', clients', config, n + 1)
                BY <1>a, <3>1, <3>2, <3>3, <3>5, <4>1, <4>2, MadeExtended
            <4>. QED
                BY <4>1, <4>3
        <3>7. phase' = "build" /\ at' - 1 = at /\ at' <= Len(config) + 1
            BY <2>1, <2>2, <3>1, <3>4 DEF Construct
        <3>. QED
            BY <1>d, <2>1, <3>6, <3>7 DEF LoadOK, Serving
    <2>3. CASE ~Construct
        BY <1>d, <1>2, <2>1, <2>3 DEF BuildAdapter, LoadOK, Serving
    <2>. QED
        BY <2>2, <2>3
<1>3. CASE AdaptersBuilt
    <2>1. /\ config # None /\ at <= Len(config) + 1 /\ at > Len(config)
          /\ MadeOf(built, clients, config, at - 1) /\ phase' = "policy"
          /\ adapters' = built /\ UNCHANGED <<config, clients>>
        BY <1>0, <1>3 DEF AdaptersBuilt, LoadOK
    <2>2. at - 1 = Len(config)
        BY <1>0, <1>b, <2>1 DEF TypeOK
    <2>3. built # None
        <3>1. built \in Seq(Entries(Len(clients)))
            BY <1>0 DEF TypeOK, DictOK
        <3>2. Entries(Len(clients)) \subseteq [id : STRING, client : Nat]
            BY <1>a DEF Entries
        <3>3. ASSUME NEW S, NEW T, S \subseteq T PROVE Seq(S) \subseteq Seq(T)
            BY <3>3
        <3>4. Seq(Entries(Len(clients))) \subseteq Seq([id : STRING, client : Nat])
            BY <3>2, <3>3
        <3>. QED
            BY <3>1, <3>4, ServerAssumption, Zenon
    <2>. QED
        BY <1>d, <2>1, <2>2, <2>3 DEF LoadOK, Serving
<1>4. CASE ~LoadConfig /\ ~BuildAdapter /\ ~AdaptersBuilt
    <2>1. UNCHANGED <<config, adapters>>
        BY <1>4 DEF Next, vars, lifespan, Start, Lifespan, LoadPolicy, CloseAdapter, Stopped,
            Stop, Drained, Receive, Answer, AnswerStream, Stall, Resume, Leave, Cancel, Ended
    <2>2. phase' = "build" => UNCHANGED <<phase, at, built, clients>>
        BY <1>4 DEF Next, vars, lifespan, Start, Lifespan, LoadPolicy, CloseAdapter, Stopped,
            Stop, Drained, Receive, Answer, AnswerStream, Stall, Resume, Leave, Cancel, Ended
    <2>3. phase' \in {"policy", "closing"} \cup Serving => phase \in {"policy", "closing"} \cup Serving
        BY <1>4 DEF Next, vars, lifespan, Start, Lifespan, LoadPolicy, CloseAdapter, Stopped,
            Stop, Drained, Receive, Answer, AnswerStream, Stall, Resume, Leave, Cancel, Ended,
            Serving
    <2>4. phase' = "build" => /\ config' # None /\ adapters' = None /\ at' <= Len(config') + 1
                              /\ MadeOf(built', clients', config', at' - 1)
        BY <1>0, <2>1, <2>2 DEF LoadOK
    <2>5. adapters' # None => config' # None /\ MadeOf(adapters', clients', config', Len(config'))
        BY <1>0, <1>c, <2>1 DEF LoadOK
    <2>6. phase' \in {"policy", "closing"} \cup Serving => (adapters' = None <=> config' = None)
        BY <1>0, <2>1, <2>3 DEF LoadOK
    <2>. QED
        BY <1>d, <2>4, <2>5, <2>6 DEF LoadOK, Serving
<1>. QED
    BY <1>1, <1>2, <1>3, <1>4

LEMMA AppStep ==
    ASSUME IInv, [Next]_vars
    PROVE  AppOK'
<1>1. CASE LoadPolicy
    BY <1>1 DEF LoadPolicy, AppOK
<1>2. CASE ~LoadPolicy
    <2>1. /\ phase' \in {"closing"} \cup Serving => phase \in {"closing"} \cup Serving
          /\ phase' \in {"closing"} \cup Serving => UNCHANGED <<app, adapters>>
        BY <1>2 DEF Next, vars, lifespan, Start, Lifespan, LoadConfig, BuildAdapter, Construct,
            AdaptersBuilt, CloseAdapter, Stopped, Stop, Drained, Receive, Answer, AnswerStream,
            Stall, Resume, Leave, Cancel, Ended, Serving
    <2>. QED
        BY <2>1 DEF IInv, AppOK, Serving
<1>. QED
    BY <1>1, <1>2

LEMMA RequestStep ==
    ASSUME IInv, [Next]_vars
    PROVE  RequestOK'
<1>0. RequestOK /\ TypeOK
    BY DEF IInv
<1>1. CASE \E q \in Requests : Receive(q) \/ Turn(q)
    <2>1. PICK q \in Requests : Receive(q) \/ Turn(q)
        BY <1>1
    <2>2. UNCHANGED <<phase, app>> /\ pc \in [Requests -> {"idle"} \cup InFlight \cup Over]
          /\ target \in [Requests -> DOMAIN clients \cup {None}]
        BY <1>0, <2>1, TurnMeans DEF Receive, lifespan, TypeOK
    <2>3. ASSUME NEW r \in Requests, pc'[r] \in InFlight
          PROVE  \/ pc[r] \in InFlight /\ target'[r] = target[r]
                 \/ /\ phase = "up" /\ app.adapters # <<>>
                    /\ target'[r] = Pick(app.adapters, app.policy)
        <3>1. CASE Turn(q)
            BY <2>2, <2>3, <3>1, TurnMeans
        <3>2. CASE Receive(q)
            <4>. HIDE DEF Pick
            <4>1. "refused" \notin InFlight
                BY DEF InFlight
            <4>. QED
                BY <2>2, <2>3, <3>2, <4>1 DEF Receive
        <3>. QED
            BY <2>1, <3>1, <3>2
    <2>. QED
        BY <1>0, <2>2, <2>3 DEF RequestOK, Serving
<1>2. CASE ~\E q \in Requests : Receive(q) \/ Turn(q)
    <2>1. UNCHANGED requests
        BY <1>2 DEF Next, Turn, vars, Start, Lifespan, LoadConfig, BuildAdapter, AdaptersBuilt,
            LoadPolicy, CloseAdapter, Stopped, Stop, Drained, Ended
    <2>2. /\ phase \in Serving => phase' \in Serving \/ \A r \in Requests : pc[r] \notin InFlight
          /\ phase \in Serving => app' = app
        BY <1>2 DEF Next, Turn, vars, lifespan, Start, Lifespan, LoadConfig, BuildAdapter, AdaptersBuilt,
            LoadPolicy, CloseAdapter, Stopped, Stop, Drained, Ended, Serving
    <2>. QED
        BY <1>0, <2>1, <2>2 DEF RequestOK, requests, Serving
<1>. QED
    BY <1>1, <1>2

LEMMA OpenStep ==
    ASSUME IInv, [Next]_vars
    PROVE  OpenOK'
<1>0. OpenOK /\ TypeOK /\ LoadOK
    BY DEF IInv
<1>1. phase' = "load" => built' = <<>> /\ at' = 1
    BY <1>0 DEF OpenOK, Next, vars, lifespan, Start, Lifespan, LoadConfig, BuildAdapter,
        Construct, AdaptersBuilt, LoadPolicy, CloseAdapter, Stopped, Stop, Drained, Receive,
        Answer, AnswerStream, Stall, Resume, Leave, Cancel, Ended
<1>2. built' # <<>> /\ phase' \in {"policy"} \cup Serving => adapters' = built'
    BY <1>0 DEF OpenOK, Next, vars, lifespan, Start, Lifespan, LoadConfig, BuildAdapter,
        Construct, AdaptersBuilt, LoadPolicy, CloseAdapter, Stopped, Stop, Drained, Receive,
        Answer, AnswerStream, Stall, Resume, Leave, Cancel, Ended, Serving
<1>3. ASSUME phase' \in {"build", "policy"} \cup Serving, NEW k \in DOMAIN built'
      PROVE  clients'[built'[k].client].life = "open"
    <2>1. CASE BuildAdapter /\ Construct
        <3>1. /\ phase = "build" /\ ClientsGo /\ clients'[Len(clients')] = NewClient(Backend)
              /\ IsUpdate(built', built, Backend.id, Len(clients'))
            BY <2>1, ConstructStep DEF BuildAdapter
        <3>2. CASE built'[k] = [id |-> Backend.id, client |-> Len(clients')]
            BY <3>1, <3>2 DEF NewClient
        <3>3. CASE k \in DOMAIN built /\ built'[k] = built[k]
            <4>1. built[k] \in Entries(Len(clients))
                BY <1>0, <3>3 DEF TypeOK, DictOK
            <4>2. Live(built[k])
                BY <1>0, <3>1, <3>3 DEF OpenOK
            <4>. QED
                BY <3>1, <3>3, <4>1, <4>2 DEF Entries, ClientsGo, Live
        <3>. QED
            BY <3>1, <3>2, <3>3 DEF IsUpdate
    <2>2. CASE ~(BuildAdapter /\ Construct)
        <3>1. /\ built' = <<>> \/ phase \in {"build", "policy"} \cup Serving
              /\ phase # "closing" => clients' = clients
              /\ built' = <<>> \/ built' = built
            BY <1>0, <1>3, <2>2 DEF OpenOK, Next, vars, lifespan, Start, Lifespan, LoadConfig,
                BuildAdapter, AdaptersBuilt, LoadPolicy, CloseAdapter, Stopped, Stop, Drained,
                Receive, Answer, AnswerStream, Stall, Resume, Leave, Cancel, Ended, Serving
        <3>2. built' # <<>>
            BY <1>3
        <3>3. built' = built /\ clients' = clients /\ phase \in {"build", "policy"} \cup Serving
            BY <3>1, <3>2 DEF Serving
        <3>. QED
            BY <1>0, <1>3, <3>3 DEF OpenOK, Live
    <2>. QED
        BY <2>1, <2>2
<1>. QED
    BY <1>1, <1>2, <1>3 DEF OpenOK, Live, Serving

LEMMA ShutdownStep ==
    ASSUME IInv, [Next]_vars
    PROVE  CloseOK'
<1>0. CloseOK /\ TypeOK
    BY DEF IInv
<1>1. CASE CloseAdapter
    <2>1. /\ phase = "closing" /\ phase' = "closing" /\ app' = app /\ closed' = closed + 1
          /\ closed < Len(app.adapters)
        BY <1>1 DEF CloseAdapter
    <2>2. ClientsGo /\ closed \in Nat
        BY <1>0, <1>1, CloseStep DEF TypeOK
    <2>3. ASSUME NEW k \in 1..(closed + 1), HasAclose(clients'[app.adapters[k].client])
          PROVE  clients'[app.adapters[k].client].life # "open"
        <3>1. app.adapters[k].client \in 1..Len(clients)
            <4>1. app.adapters \in Seq(Entries(Len(clients)))
                BY <1>0 DEF TypeOK, DictOK
            <4>2. app.adapters[k] \in Entries(Len(clients))
                BY <2>1, <2>2, <4>1
            <4>. QED
                BY <4>2 DEF Entries
        <3>2. HasAclose(clients[app.adapters[k].client])
            BY <2>2, <2>3, <3>1 DEF HasAclose, ClientsGo, SameClients
        <3>3. CASE k = closed + 1
            BY <1>1, <3>2, <3>3, CloseStep
        <3>4. CASE k \in 1..closed
            <4>1. clients[app.adapters[k].client].life # "open"
                BY <1>0, <2>1, <3>2, <3>4 DEF CloseOK, Live
            <4>. QED
                BY <2>2, <3>1, <4>1 DEF ClientsGo
        <3>. QED
            BY <2>2, <3>3, <3>4
    <2>. QED
        BY <2>1, <2>3 DEF CloseOK, StopClosesAll, Live
<1>2. CASE Stopped
    <2>1. phase = "closing" /\ phase' = "down" /\ closed = Len(app.adapters) /\ closed' = 0
          /\ UNCHANGED <<app, clients>>
        BY <1>2 DEF Stopped
    <2>2. DOMAIN app.adapters = 1..closed
        <3>1. app.adapters \in Seq(Entries(Len(clients)))
            BY <1>0 DEF TypeOK, DictOK
        <3>. QED
            BY <2>1, <3>1
    <2>. QED
        BY <1>0, <2>1, <2>2 DEF CloseOK, StopClosesAll, Live, ToSet
<1>3. CASE Drained
    BY <1>0, <1>3 DEF Drained, CloseOK, StopClosesAll
<1>4. CASE ~CloseAdapter /\ ~Stopped /\ ~Drained
    <2>1. /\ phase' = "closing" => UNCHANGED <<phase, closed, app, clients>>
          /\ phase' = "down" => UNCHANGED <<phase, app, clients>>
          /\ phase' # "closing" => closed' = closed /\ phase # "closing"
        BY <1>4 DEF Next, vars, lifespan, Start, Lifespan, LoadConfig, BuildAdapter, Construct,
            AdaptersBuilt, LoadPolicy, Stop, Receive, Answer, AnswerStream, Stall, Resume,
            Leave, Cancel, Ended
    <2>. QED
        BY <1>0, <2>1 DEF CloseOK, StopClosesAll, Live
<1>. QED
    BY <1>1, <1>2, <1>3, <1>4

LEMMA HostsStep ==
    ASSUME IInv, [Next]_vars
    PROVE  HostsAllowed'
<1>0. /\ ClientsGo /\ HostsAllowed /\ DOMAIN clients = 1..Len(clients)
      /\ DOMAIN clients' = 1..Len(clients')
    BY ClientsStep DEF IInv, ClientsGo
<1>1. ASSUME NEW i \in 1..Len(clients) PROVE HostAllowed(clients'[i], config')
    <2>1. /\ clients'[i].id = clients[i].id /\ clients'[i].kind = clients[i].kind
          /\ clients'[i].host = clients[i].host /\ HostAllowed(clients[i], config)
        BY <1>0 DEF ClientsGo, SameClients, HostsAllowed
    <2>2. config' = config
        <3>1. clients # <<>>
            BY <1>0
        <3>2. config # None
            BY <3>1 DEF IInv, LoadOK
        <3>. QED
            BY <3>2 DEF Next, vars, lifespan, Start, Lifespan, LoadConfig, BuildAdapter,
                AdaptersBuilt, LoadPolicy, CloseAdapter, Stopped, Stop, Drained, Receive, Answer,
                AnswerStream, Stall, Resume, Leave, Cancel, Ended
    <2>. HIDE DEF EffectiveAllowlist
    <2>. QED
        BY <2>1, <2>2 DEF HostAllowed, LeftToSdk
<1>2. CASE BuildAdapter /\ Construct
    <2>1. /\ Len(clients') = Len(clients) + 1 /\ clients'[Len(clients')] = NewClient(Backend)
          /\ Backend \in BackendConfig /\ CanBuild(Backend) /\ config' = config
        BY <1>2, ConstructStep, BackendType DEF BuildAdapter, Construct
    <2>2. ASSUME NEW i \in 1..Len(clients')
          PROVE  i \in 1..Len(clients) \/ i = Len(clients')
        BY <1>0, <2>1 DEF ClientsGo
    <2>3. HostAllowed(NewClient(Backend), config)
        <3>1. /\ NewClient(Backend).kind = Backend.kind /\ NewClient(Backend).id = Backend.id
              /\ NewClient(Backend).host = HostOf(Backend)
              /\ IF Backend.kind \in LocalKinds THEN HostOf(Backend) \in LoopbackHosts
                 ELSE \/ HostOf(Backend) \in EffectiveAllowlist(Backend.kind)
                      \/ HostOf(Backend) = SdkHosts[Backend.kind] /\ Backend.base_url = None
            BY <2>1, NewClientType, HostIsAllowed
        <3>2. Backend \in ToSet(config)
            BY <1>2, BackendType DEF BuildAdapter, Backend, ToSet
        <3>. HIDE DEF NewClient, HostOf, EffectiveAllowlist, Backend
        <3>. QED
            BY <2>1, <3>1, <3>2 DEF HostAllowed, LeftToSdk
    <2>. HIDE DEF NewClient, HostAllowed
    <2>. QED
        BY <1>0, <1>1, <2>1, <2>2, <2>3 DEF HostsAllowed
<1>3. CASE ~(BuildAdapter /\ Construct)
    <2>1. Len(clients') = Len(clients)
        BY <1>3, SameLength
    <2>. HIDE DEF HostAllowed
    <2>. QED
        BY <1>0, <1>1, <2>1 DEF HostsAllowed
<1>. QED
    BY <1>2, <1>3

LEMMA InvariantStep == IInv /\ [Next]_vars => IInv'
BY TypeStep, LoadStep, AppStep, RequestStep, OpenStep, ShutdownStep, HostsStep DEF IInv

-----------------------------------------------------------------------------
(* What follows from the invariant.                                        *)

(* While the app is up its dict of adapters is complete.                   *)
LEMMA UpMeans ==
    ASSUME IInv, phase \in Serving, config # None
    PROVE  /\ config \in Seq(BackendConfig) /\ Len(config) \in Nat /\ DOMAIN config = 1..Len(config)
           /\ app.adapters = adapters /\ DictOK(app.adapters, Len(clients)) /\ Len(clients) \in Nat
           /\ MadeOf(app.adapters, clients, config, Len(config))
<1>1. config \in Seq(BackendConfig)
    BY ServerAssumption DEF IInv, TypeOK
<1>2. adapters # None
    BY DEF IInv, LoadOK
<1>3. app.adapters = adapters
    BY <1>2 DEF IInv, AppOK
<1>4. MadeOf(adapters, clients, config, Len(config))
    BY <1>2 DEF IInv, LoadOK
<1>. QED
    BY <1>1, <1>3, <1>4 DEF IInv, TypeOK

LEMMA InvariantAllOrNothing == IInv => StartIsAllOrNothing
<1>. SUFFICES ASSUME IInv, phase = "up", config # None, NEW i \in DOMAIN config
              PROVE  CanBuild(config[i]) /\ \E e \in ToSet(app.adapters) : e.id = config[i].id
    BY DEF StartIsAllOrNothing
<1>1. i \in 1..Len(config) /\ MadeOf(app.adapters, clients, config, Len(config))
    BY UpMeans DEF Serving
<1>. QED
    BY <1>1 DEF MadeOf, ToSet

LEMMA InvariantDefault == IInv => DefaultServes
<1>. SUFFICES ASSUME IInv, NEW r \in Requests, pc[r] \in InFlight
              PROVE  LET id == IF app.policy \in Ids THEN app.policy ELSE config[1].id
                         last == config[Max({i \in DOMAIN config : config[i].id = id})]
                         client == clients[target[r]]
                     IN  client.id = id /\ client.kind = last.kind
    BY DEF DefaultServes
<1>. DEFINE id == IF app.policy \in Ids THEN app.policy ELSE config[1].id
            same == {i \in DOMAIN config : config[i].id = id}
            dict == app.adapters
<1>1. phase \in Serving /\ dict # <<>> /\ target[r] = Pick(dict, app.policy)
    BY DEF IInv, RequestOK
<1>2. config # None
    <2>1. adapters # None
        BY <1>1 DEF IInv, AppOK
    <2>. QED
        BY <2>1 DEF IInv, LoadOK
<1>. DEFINE n == Len(config)
<1>3. /\ n \in Nat /\ DOMAIN config = 1..n /\ DictOK(dict, Len(clients)) /\ Len(clients) \in Nat
      /\ MadeOf(dict, clients, config, n)
    BY <1>1, <1>2, UpMeans
<1>. HIDE DEF dict, n
<1>4. PICK k \in DOMAIN dict :
          /\ target[r] = dict[k].client
          /\ IF \E i \in DOMAIN dict : dict[i].id = app.policy THEN dict[k].id = app.policy ELSE k = 1
    BY <1>1, <1>3, PickMeans
<1>5. PICK i \in 1..n : IsLast(config, i, n) /\ ClientOf(clients[dict[k].client], dict[k].id, config[i])
    BY <1>3 DEF MadeOf
<1>6. dict[k].id = id
    <2>1. app.policy \in Ids <=> \E j \in DOMAIN dict : dict[j].id = app.policy
        <3>1. ASSUME app.policy \in Ids PROVE \E j \in DOMAIN dict : dict[j].id = app.policy
            <4>1. PICK l \in 1..n : config[l].id = app.policy
                BY <1>3, <3>1 DEF Ids
            <4>2. \E j \in DOMAIN dict : dict[j].id = config[l].id
                BY <1>3 DEF MadeOf
            <4>. QED
                BY <4>1, <4>2
        <3>2. ASSUME NEW j \in DOMAIN dict, dict[j].id = app.policy PROVE app.policy \in Ids
            <4>1. PICK l \in 1..n : ClientOf(clients[dict[j].client], dict[j].id, config[l])
                BY <1>3 DEF MadeOf
            <4>2. config[l].id = app.policy /\ l \in DOMAIN config
                BY <1>3, <3>2, <4>1 DEF ClientOf
            <4>. QED
                BY <4>2 DEF Ids
        <3>. QED
            BY <3>1, <3>2
    <2>2. n > 0 => dict[1].id = config[1].id
        BY <1>3 DEF MadeOf
    <2>3. n > 0
        BY <1>3
    <2>. QED
        BY <1>4, <2>1, <2>2, <2>3
<1>. HIDE DEF id
<1>7. i \in same /\ \A j \in same : j <= i
    <2>1. config[i].id = id
        BY <1>5, <1>6 DEF ClientOf
    <2>2. ASSUME NEW j \in 1..n, config[j].id = id PROVE j <= i
        BY <1>3, <1>5, <2>1, <2>2 DEF IsLast
    <2>. QED
        BY <1>3, <2>1, <2>2
<1>8. Max(same) = i
    <2>1. \A j \in same : j \in Nat
        BY <1>3
    <2>2. i \in Nat
        OBVIOUS
    <2>3. \A j \in same : (\A l \in same : j >= l) => j = i
        BY <1>7, <2>1, <2>2
    <2>4. \A l \in same : i >= l
        BY <1>7, <2>1, <2>2
    <2>. HIDE DEF same
    <2>. QED
        BY <1>7, <2>3, <2>4 DEF Max
<1>9. clients[target[r]].id = id /\ clients[target[r]].kind = config[Max(same)].kind
    BY <1>4, <1>5, <1>6, <1>8 DEF ClientOf
<1>. QED
    BY <1>9 DEF id

LEMMA InvariantOpen == IInv => ServedByOpenAdapters
<1>. SUFFICES ASSUME IInv, NEW r \in Requests, pc[r] \in InFlight, built # <<>>
              PROVE  clients[target[r]].life = "open"
    BY DEF ServedByOpenAdapters
<1>1. phase \in Serving /\ app.adapters # <<>> /\ target[r] = Pick(app.adapters, app.policy)
    BY DEF IInv, RequestOK
<1>2. adapters = built /\ \A k \in DOMAIN built : Live(built[k])
    BY <1>1 DEF IInv, OpenOK
<1>3. app.adapters = built
    BY <1>1, <1>2 DEF IInv, AppOK
<1>4. DictOK(built, Len(clients)) /\ Len(clients) \in Nat
    BY DEF IInv, TypeOK
<1>5. PICK k \in DOMAIN built : target[r] = built[k].client
    BY <1>1, <1>3, <1>4, PickMeans
<1>. QED
    BY <1>2, <1>5 DEF Live

-----------------------------------------------------------------------------
(* The theorems.                                                           *)

(* The invariant holds in every reachable state: what the lifespan leaves  *)
(* in the variables that outlive it, over any number of starts.            *)
THEOREM LifespanInvariance == Spec => []IInv
BY InvariantInit, InvariantStep, PTL DEF Spec

(* The dicts of server/app.py have an entry per id and refer to clients    *)
(* that were constructed.                                                  *)
THEOREM LifespanTypeCorrect == Spec => []TypeOK
<1>1. IInv => TypeOK
    BY DEF IInv
<1>. QED
    BY <1>1, LifespanInvariance, PTL

(* An app that is up has an adapter for every backend (_build_adapters),   *)
(* also when an earlier start failed half way.                             *)
THEOREM AllOrNothing == Spec => []StartIsAllOrNothing
BY InvariantAllOrNothing, LifespanInvariance, PTL

(* A request goes to the last backend that was configured under the        *)
(* default id or, without one, under the first id: what the assignments to *)
(* the dict and its lookup in chat_completions amount to.                  *)
THEOREM LastBackendServes == Spec => []DefaultServes
BY InvariantDefault, LifespanInvariance, PTL

(* In the start that built them adapters are open for every request.       *)
THEOREM OpenWhileServing == Spec => []ServedByOpenAdapters
BY InvariantOpen, LifespanInvariance, PTL

(* The shutdown loop closes every adapter that has an aclose, also after   *)
(* one that raised.                                                        *)
THEOREM ShutdownClosesAll == Spec => []StopClosesAll
<1>1. IInv => StopClosesAll
    BY DEF IInv, CloseOK
<1>. QED
    BY <1>1, LifespanInvariance, PTL

(* Every client ever constructed connects to a host that is allowed for    *)
(* its kind (_validate_localhost, _validate_host), or to the one its SDK   *)
(* takes for a backend that has no base_url, wherever that leads.          *)
THEOREM HostsAreAllowed == Spec => []HostsAllowed
<1>1. IInv => HostsAllowed
    BY DEF IInv
<1>. QED
    BY <1>1, LifespanInvariance, PTL

=============================================================================
