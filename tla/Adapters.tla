------------------------------ MODULE Adapters ------------------------------
(***************************************************************************)
(* adapters/: what a backend entry of router.yaml becomes.  An address is  *)
(* its scheme and its host; ports, paths and models are left out.          *)
(***************************************************************************)
EXTENDS Naturals, Sequences

CONSTANTS
    None,           \* Python's None
    SetVars,        \* the environment variables that are set
    ExtraHosts,     \* OGENTIC_ROUTER_ALLOWED_..._HOSTS, for each cloud kind
    SdkHosts,       \* where its SDK connects to when it is given no base_url
    Installed       \* which optional dependencies are installed

LocalKinds == {"ollama", "llamacpp"}
CloudKinds == {"openai", "anthropic"}

ASSUME AdaptersAssumption ==
    /\ ExtraHosts \in [CloudKinds -> SUBSET STRING]
    /\ SdkHosts \in [CloudKinds -> STRING]
    /\ Installed \subseteq {"cloud", "local"}

Address == [scheme : STRING, host : STRING \cup {None}]

BackendConfig ==
    [id : STRING, kind : LocalKinds \cup CloudKinds, api_key_env : STRING \cup {None},
     base_url : Address \cup {None}]

LoopbackHosts == {"localhost", "127.0.0.1", "::1", "[::1]"}

AllowedHosts == [openai |-> {"api.openai.com"}, anthropic |-> {"api.anthropic.com"}]

(* The variables extend the defaults, they do not replace them.            *)
EffectiveAllowlist(kind) == AllowedHosts[kind] \cup ExtraHosts[kind]

(* Without a base_url there is nothing to validate: it is left to the SDK. *)
ValidateHost(address, kind) == address # None => address.host \in EffectiveAllowlist(kind)

(* A local adapter without an endpoint uses localhost.                     *)
ValidateLocalhost(address) ==
    address # None => address.scheme \in {"http", "https"} /\ address.host \in LoopbackHosts

ResolvesApiKey(backend) == backend.api_key_env \in SetVars \cup {None}

(* One check for all kinds, against everything that is allowed: a mutant.  *)
CanBuildShared(backend) ==
    /\ ResolvesApiKey(backend)
    /\ \/ \E kind \in CloudKinds : ValidateHost(backend.base_url, kind)
       \/ ValidateLocalhost(backend.base_url)
    /\ (IF backend.kind \in LocalKinds THEN "local" ELSE "cloud") \in Installed

(* resolve_api_key and build_adapter return; otherwise one of them raises  *)
(* ConfigError, AdapterConfigError, LocalhostOnlyError or                  *)
(* AdapterImportError.                                                     *)
CanBuild(backend) ==
    /\ ResolvesApiKey(backend)
    /\ IF backend.kind \in LocalKinds
       THEN ValidateLocalhost(backend.base_url) /\ "local" \in Installed
       ELSE ValidateHost(backend.base_url, backend.kind) /\ "cloud" \in Installed

(* Where its client connects to.  An SDK that is given no base_url looks   *)
(* for one in the environment (OPENAI_BASE_URL, ANTHROPIC_BASE_URL) before *)
(* it takes its own, and nobody validates what it finds.                   *)
HostOf(backend) ==
    IF backend.base_url # None THEN backend.base_url.host
    ELSE IF backend.kind \in LocalKinds THEN "localhost"
    ELSE SdkHosts[backend.kind]

(* The adapter's client, constructed with it and held for its life.        *)
NewClient(backend) ==
    [id |-> backend.id, kind |-> backend.kind, host |-> HostOf(backend), life |-> "open"]

(* The SDKs' clients are not closed: the cloud adapters have no aclose.    *)
HasAclose(client) == client.kind \in LocalKinds

=============================================================================
