------------------------------ MODULE MCServer ------------------------------
(***************************************************************************)
(* Instances of Server for TLC: backends that can and cannot be built, in  *)
(* lists with and without an id that occurs twice.                         *)
(***************************************************************************)
EXTENDS Server

At(scheme, host) == [scheme |-> scheme, host |-> host]

Entry(id, kind, key, url) ==
    [id |-> id, kind |-> kind, api_key_env |-> key, base_url |-> url]

Ollama == Entry("local", "ollama", None, At("http", "127.0.0.1"))
LlamaCpp == Entry("local2", "llamacpp", None, None)
OllamaAgain == Entry("local", "llamacpp", None, At("http", "localhost"))
OpenAI == Entry("cloud", "openai", "KEY", None)
Proxied == Entry("cloud", "anthropic", "KEY", At("https", "proxy"))
NoKey == Entry("cloud", "openai", "OTHER_KEY", None)
WrongKind == Entry("local2", "ollama", None, At("http", "proxy"))
WrongScheme == Entry("local2", "llamacpp", None, At("ftp", "localhost"))
NoHost == Entry("cloud", "openai", "KEY", At("", None))

MCExtraHosts == [openai |-> {}, anthropic |-> {"proxy"}]

(* OPENAI_BASE_URL is set.                                                 *)
MCSdkHosts == [openai |-> "elsewhere", anthropic |-> "api.anthropic.com"]

MCConfigs ==
    {<<>>, <<OpenAI, Ollama>>, <<Ollama, LlamaCpp, Proxied>>, <<Ollama, OpenAI, OllamaAgain>>,
     <<Ollama, NoKey>>, <<Proxied, WrongKind>>, <<WrongScheme, OpenAI>>, <<LlamaCpp, NoHost>>}

UniqueConfigs == {<<OpenAI, Ollama>>}
RepeatedConfigs == {<<Ollama, OpenAI, OllamaAgain>>}
=============================================================================
