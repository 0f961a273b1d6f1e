# ogentic-router in TLA+

This directory holds a verification development of ogentic-router, the
privacy-aware LLM router under `src/`.  It contains TLA+ modules translated
from the Python source, TLC configurations that model-check them on small
instances, and TLAPS proofs of the properties that matter most, for every value
of the parameters.  `PROJECT.json` maps each definition to the lines it models
and lists the runs, hazards, findings and theorems.  Paths below are relative to
`src/src/ogentic_router/`.

## The system

A prompt goes through `Router.route`: a cost check, a classification by
ogentic-shield, a first-match policy, a guard that keeps regulated content off
cloud backends, and an audit row.  What calls it is a command line, an MCP
server or a program; an HTTP server offers an OpenAI-shaped endpoint over a set
of provider adapters.

| Component | State | Operations | Interacts with |
|---|---|---|---|
| Router (`router.py`) | fixed policy, backends and local ids; `_shield`, filled lazily | `__init__`, `from_config`, `from_yaml`, `classify`, `route` | calls Policy, Cost, Shield; hands one row per call to a sink |
| Policy (`policy/`) | a validated, immutable `PolicySpec` | `from_yaml`, `from_dict`, `evaluate`, `effective_ceiling`, `denied_groups` | called by Router, the command line, the HTTP server |
| Cost (`cost.py`) | a constant price table | `estimate_cost` | called by `route` |
| Audit (`audit/`) | a log file and its lock file, shared by threads and processes | `safe_emit`, the sinks' `emit`, `compute_request_id` | called in `route`'s finally block |
| Errors (`errors.py`, ...) | none | two unrelated hierarchies, RouterError and PolicyError, plus AdapterError | decide what each caller catches |
| Command line (`cli/main.py`) | one process per call: its Router, the backends it reads again for `--execute` | `serve`, `route [--execute]`, `policies ...` | Router, adapters, the two files |
| HTTP server (`server/`) | the configuration, the adapters and the policy of the app's lifespan | start, stop, four handlers | adapters; not Router |
| Streaming (`server/_normalize.py`, `adapters/_sse.py`, ...) | one stream per request | parse lines, translate events, frame chunks | adapters, HTTP clients |
| Adapters (`adapters/`) | one HTTP client each | build (allowlist, loopback check), `chat`, `aclose` | providers (external) |
| MCP server (`mcp/`) | one Router for its life | four tools | Router, `Shield.redact` |

What makes each correct, and what is hard about it:

* **Router.**  One row per route call on every path out, saying what the caller
  saw; no denied group leaves for a backend that is not local, whatever the
  rules; no Shield work for a call over its budget; no call with a missing
  Shield although the lazy initialisation is a race.  Hard: threads, exceptions
  from every step, Ctrl-C, the finally block.
* **Policy and Cost.**  First match wins; thresholds and prefixes at their
  boundaries; shadowed rules.
* **Audit.**  Lines of several processes never mix; a row whose `emit` returned
  survives crashes; a stuck or dead lock holder does not stop the others.
* **Command line, server, adapters, streams.**  Which error ends where; what was
  decided is what is dispatched; adapters are closed once and not used after; the
  client sees a prefix of the provider's events, in order, and knows when it is
  all of them.

## The modules

| Module | Content |
|---|---|
| `Policy` | the policy DSL as data, `Matches`, `Evaluate`, the ceiling and the denied groups |
| `Cost` | the price lookup and the estimate |
| `Locality` | what a Router knows about its backends, the deny_cloud guard: EXTENDS Policy |
| `Router` | `route` and `classify` among concurrent calls: EXTENDS Locality and Cost |
| `RouterInvariant` | the inductive invariant of Router |
| `AuditLog` | the abstract specification: what an audit log promises |
| `Selection` | the elements of a sequence in a set, and a field of them: what a reader sees of a file or a stream |
| `LocalFileSink` | `LocalFileSink.emit` under `safe_emit`; implements AuditLog |
| `LocalFileSinkInvariant` | the inductive invariant of LocalFileSink |
| `Adapters` | which backend entries become an adapter, the hosts that pass, the adapter's client |
| `Dispatch` | one process of the command line or an MCP server: composes Locality, Cost and Adapters |
| `DispatchInvariant` | the inductive invariant of Dispatch |
| `Server` | the HTTP server's lifespan and requests: EXTENDS Adapters |
| `ServerInvariant` | the inductive invariant of Server |
| `Normalize` | the translation of a provider's response and of its events |
| `Completion` | the abstract specification: what a streamed completion promises |
| `Stream` | streamed chat from the provider's lines to the client's frames: EXTENDS Normalize; implements Completion |
| `StreamInvariant` | the inductive invariant of Stream |
| `PolicyProofs`, `RouterProofs`, `LocalFileSinkProofs`, `DispatchProofs`, `ServerProofs`, `StreamProofs` | theorems |
| `LocalFileSinkRefinement` | the theorem that LocalFileSink implements AuditLog |
| `SelectionProofs` | lemmas about `Selection` |
| `MCRouter`, `MCLocalFileSink`, `MCDispatch`, `MCServer`, `MCStream` | instances for TLC |

### Policy, Cost and Locality

A `WhenClause` is a record without options.  Validation forbids empty lists and bounds
the scores, so an unset predicate and the neutral value of its domain (the empty set, 0,
MaxScore + 1) mean the same and cannot both be written. `Evaluate` picks the rule of
least index that matches: the loop of `Policy.evaluate`.  `reasoning` is wording and is
left out.  A model name is a sequence of segments.  Costs are floats, rounded as Python
rounds them: a float is counted in units of the least one, so it is an integer;
neighbouring floats are a power of two apart (`Spacing`), and `DividedBy` rounds a
quotient, or the product of two floats, to the nearest one, halves to even.
`EstimateCost` rounds where `estimate_cost` does: `len / 4.0`, `/ 1_000_000.0` and `*
price`.  A ceiling may be NaN, which click and YAML accept as a float, and no cost
exceeds it (`Exceeds`). Left out: infinity, which as a ceiling is one above every cost.
`Locality` is `Router.__init__` as far as it concerns the backends, `_backend_is_local`
and `_enforce_deny_cloud`; `Router` and `Dispatch` share it.

### Router

One Router object and a set `Calls` of calls, each in a thread of its own.  `pc`
is where a call is, and `request`, `found`, `decided`, `error` are its
arguments and locals (`found` is both `projection` and the entities).  Actions
and lines of `router.py`:

| Action | Code |
|---|---|
| `Invoke` | a caller calls `route` or `classify` with any of `Requests` |
| `Enter` | 414-432, up to the `try`; the fingerprint encodes the prompt and may raise |
| `CheckBudget` | 433-441 |
| `CheckShield`, `ConstructShield`, `AssignShield`, `ReadShield` | `_ensure_shield`, 479-482, one action per access to `self._shield` |
| `Analyze` | `shield.analyze` and `_project`, 444-456; in `classify` the call returns here |
| `EvaluatePolicy`, `EnforceDenyCloud` | 457-459, with `_enforce_deny_cloud` and `_backend_is_local` |
| `EmitAudit` | the finally block, 463-473: one row to the sink, kept or dropped, then the call ends |
| `Interrupt` | KeyboardInterrupt, at any point of a call in the main thread |

What separates two actions is an access to shared state or a point that may
fail; the code between is one action.  `Raise` is the `except Exception` of
`route`: it notes the class name and goes on to the finally block.  External, so
nondeterministic: what Shield reports or raises (`Analyses`), whether the sink
takes the row, which thread runs.  `log` is what the sink took and `dropped` the
calls whose row it failed on; with a `NoopSink` a row it "took" goes nowhere.

### LocalFileSink and AuditLog

Threads of several processes emit rows to one file.  A line is two pieces, a
head and a tail with the newline, because a write may stop between bytes.
`file` is what the kernel has, its first `synced` pieces are on the disk, `left`
is what is still in a thread's buffer.

| Action | Code (`audit/sinks.py`) |
|---|---|
| `Emit` | `safe_emit` called, the line formatted (86) |
| `Acquire`, `LockTimeout` | `with self._lock` (87), timeout 10 s (77), swallowed by `safe_emit` |
| `OpenFile`, `Flush`, `Close`, `Fsync` | 88-91; each may raise OSError; a failed flush leaves its rest for `close` |
| `Release` | the end of the `with`; emit returns or its error is swallowed |
| `Kill`, `PowerLoss`, `Restart`, `Hang` | external: processes die, the kernel frees their lock, unsynced data may go; a process is stopped for good |

`AuditLog` is what its users rely on: a row is begun, added at the end at most
once, then acknowledged or dropped; a crash may take back the end of the log but
no acknowledged row.  The refinement mapping sends the file to the rows with a
complete line, in order.

### Dispatch

A process of the command line, or an MCP server, from its arguments to its exit.
`files` is what `router.yaml` and `policy.yaml` hold, which somebody may edit at any
step (`Edit`); a file that cannot be loaded is None.  `router` is the Router the
process made, `query` the arguments of its call, `config` and `backend` are what
`_dispatch` read and chose, `sent` is what left the process, `shown` and `status`
are what its caller sees.

| Action | Code |
|---|---|
| `Start` | `main` reads the arguments |
| `LoadConfig` | `_load_router` of `cli/main.py`, `build_server` of `mcp/server.py`, with `Router.from_yaml` and `from_config` |
| `LoadPolicy` | `--policy`, `policies validate` and `policies dry-run`: `Policy.from_yaml` and a Router without backends |
| `NothingToLoad`, `ReadPrompt` | the early exits: no source, an empty prompt |
| `CallTool`, `StopServer` | external: an MCP client calls `classify_route` or `evaluate_dry`, somebody ends the server |
| `Enter`, `CheckBudget`, `Analyze`, `Guard` | `Router.route`, 414-459, as one call |
| `LookUpPrice` | one name of the loop of `_price_per_m` |
| `TryRule` | one turn of the loop of `Policy.evaluate`; `Fails` is `_matches`, in the order of its returns |
| `Deliver`, `Return` | the decision is printed, or returned by a tool, after a redaction that may fail |
| `Resolve` | `_dispatch` reads `router.yaml` again and takes the first backend of the decision's id |
| `BuildAdapter`, `Send`, `Receive` | `build_adapter`, the call of `adapter.chat`, its end |

`Raise` is what becomes of an exception: `Handlers` lists the except clauses around
each stage and the status each exits with; what none of them catches ends the
process with a traceback.  In a server an exception ends the tool's call and not the
server; the tools are coroutines without an await, so they run one at a time.  The
two loops run over a set of names and a list of rules, so that `best` and `decided`
are computed by the code's early exits and compared with the definitions
`PricePerM` and `Evaluate`, which Router uses.

### Adapters and Server

`Adapters` is `build_adapter` and what it calls: the key must be in the environment, a
local kind's address must be http(s) on a loopback host, a cloud kind's host must be
allowed for that kind, the optional dependency must be installed.  A local adapter
without an address uses localhost.  For a cloud backend without a `base_url` there is
nothing to check (`ValidateHost`, `_allowlist.py:77`) and its SDK chooses: it looks at
`OPENAI_BASE_URL` or `ANTHROPIC_BASE_URL` before it takes its own endpoint, so
`SdkHosts` is any host.  Only the local adapters have an `aclose`.

`Server` is one app.  `config`, `adapters` and `policy` are the lifespan's nonlocal
variables, which outlive a start; `app` is `app.state`; `clients` numbers every
client that was ever constructed, so that one can be out of everybody's reach.
A dict is a sequence of entries in its order; `Put` is the assignment to a key: a
repeated id keeps its first place and its last value.  `built` is the dict that
`_build_adapters` fills, `at` the backend it is at.

| Action | Code (`server/app.py`) |
|---|---|
| `Start` | the lifespan is entered, 141 |
| `LoadConfig` | 143-150 and `load_router_config` |
| `BuildAdapter`, `AdaptersBuilt` | one backend of `_build_adapters` (95-102), then its result (103, 154) |
| `LoadPolicy` | 156-168, with the broad except, and `yield` |
| `Receive` | `chat_completions`, up to the call of the adapter, streamed or not (278-281) |
| `Answer` | `_blocking_response`; an exception becomes a 500 |
| `AnswerStream` | `_stream_response`: `generate` runs to its end, or its call fails |
| `Stall`, `Resume`, `Leave` | external: the client of a streamed answer stops reading, reads on, disconnects |
| `CloseAdapter`, `Stopped` | the shutdown loop, 172-178 |
| `Stop`, `Cancel`, `Drained` | external: the ASGI server stops accepting, lets requests end or, if it has a timeout, cancels them, and resumes the lifespan; `serve` runs uvicorn without one (`cli/main.py:165`) |

What a streamed answer consists of is the subject of `Stream`; here it is an answer that
takes as long as its client does.  What a file holds when it is read is chosen then.
The configuration may also be given to `create_app`; adapters that are given to it (for
tests) are left out.

### Stream, Normalize and Completion

A streamed answer runs through two generators: `generate` of `_stream_response`
pulls from the adapter's `_stream_chat`, which pulls from `aiter_sse_deltas`.
The provider's answer is a sequence `said` of items (a piece of text, a piece that
is not JSON, a reason to stop, another event, a line that is no event, `[DONE]` or
`message_stop`) of which `pos` were read; `held` is the chunk at `generate`'s yield
and `frames` what the client received.  `connected` is who holds a connection of
the adapter's pool.

| Action | Code |
|---|---|
| `Begin` | the response starts to iterate over `generate` (`app.py:350`) |
| `Connect`, `CheckStatus` | `async with client.stream(...)`, `raise_for_status` (`_stream_chat`) |
| `ReadSkip`, `ReadEvent`, `ReadDone`, `ReadBad`, `ReadEnd`, `ReadFails` | one way each that the loop of `aiter_sse_deltas` goes on or ends, up to `generate`'s yield |
| `Write`, `WriteDone` | the yields of `generate` |
| `Cancel` | external: the client is gone and the task is cancelled; in an await of the adapter its `async with` is left, at the yield of `generate` it is not |
| `Finalize` | external: Python finalizes the abandoned generator, which closes the connection |
| `Say`, `Hangup`, `Stall`, `Disconnect` | external: the provider and the client |

`Completion` says what a client relies on: it hears the pieces said to it, in order
and each once, and is told "complete" only when it heard them all; else the
stream breaks off.  The mapping takes the pieces said before the first `[DONE]`,
the pieces in the frames, and the `[DONE]` frame.

`Normalize` keeps the two tables of finish reasons apart as the code does:
`ResponseFinishReasons` of `_translate_anthropic_message` and `ChunkFinishReasons` of
`_translate_anthropic_chunk`, with their different treatment of None.

## The runs

| Run | Shows | Bounds |
|---|---|---|
| `router` | the ten properties of Router hold | two calls, of which one can be interrupted; seven Routers; five requests; three reports of Shield: 636,096 states |
| `file_sink` | the eight properties of LocalFileSink hold, and it implements AuditLog | three threads in two processes, four rows, one crash, one process that may stop: 260,244 states |
| `dispatch` | the six properties of Dispatch hold | 23 command lines (`route --execute` with every combination of `--config`, `--policy` and the environment; ceilings; an empty prompt; `dry-run`, `validate` and the two servers), six contents of `router.yaml`, four of `policy.yaml`, five reports of Shield, two edits, two tool calls: 279,154 states |
| `server` | the eight properties of Server hold | three starts, two requests, eight configurations of up to three backends (three build, one of them with an id twice; four do not), four outcomes of loading the policy; requests streamed or not: 46,420 states |
| `stream` | five properties of Stream hold, and it implements Completion | a local backend, two requests, one connection, two items said to one and one to the other, whose client may stall: 392,952 states |
| `stream_anthropic` | three properties of Stream over Anthropic events | one request, five items, two reasons that are translated, one that is not in the tables, and none: 398,565 states |
| `unredacted` | violation: a prompt is sent as it was read although the decision says `shield_redact` | one command |
| `no_row` | violation: a call that leaves no row | one call |
| `torn_line` | violation: an acknowledged row that shares its line with a torn one | two threads, no crash |
| `policy_lost` | violation: a request is dispatched although the policy failed to load | one start |
| `client_left` | violation: a client is still open after the shutdown | one start, an id twice |
| `second_start` | violation: an app is up with closed adapters | two starts |

Why the bounds are enough.  Calls share only `_shield` and the log, and the invariant of
the proofs constrains one call at a time, so two calls show every race in
`_ensure_shield`: check-check-assign-assign, an assignment between the other's check and
read, a failed construction beside a successful one.  The seven Routers cover the four
ways locality can be known (hinted, declared, given, given over declared) and policies
that keep PHI local, shadow the rule that would, opt out, or have no rule.  The five
requests give a cost below, above and without a ceiling, a model known by its longest
prefix, a prompt that cannot be encoded and a `classify`.  The score, groups and
categories of the three reports tell every predicate the policies use apart.  In the
sink, two threads of one process and one of another make both kinds of competition for
the lock; the third thread emits a second row, so that a row follows a failed or dropped
one of the same thread and is emitted after a restart; one crash may fall between any
two steps.  In `dispatch`, a process reads each file at most twice, so two edits give
every pair of contents it can see, and a server that outlives an edit; the second tool
call follows one that failed or returned.  The price table has two names of which one is
a prefix of the other, and the models are known, have both as prefixes, are unknown,
empty or absent; the estimates lie below, on and one above the ceilings, which include
0, NaN and none.  Floats have four bits of mantissa (`Mantissa` 16), 1.0 is 64 units
(`One`), the nine spacings reach beyond every cost, and a price is for ten tokens
(`PriceUnit`): two tokens of `gpt-4o` cost 14.4 units and are estimated at 15, so a cost
next to its ceiling is decided by the rounding.  The scores 0, 1 and 2 meet every bound
of the rules from both sides.  One `router.yaml` lists an id twice, first cloud and then
local, and one calls a cloud backend by the name of a local one, so that
`DispatchStaysLocal` fails without either of its conditions; one backend's key is not
set and one local backend's address is not on the loopback; one file only the stricter
loader of `_dispatch` refuses.  In `server`, three starts give a failed start and a
retry, a stop and a second start, or both; two requests give one in flight, or stalled,
while another ends or is cancelled; the OpenAI SDK is told another host by its
environment and the Anthropic SDK is not; every reason for which a backend is refused
occurs in a list, at the second backend or at the first.  In `stream`, requests share
only the pool, so two with one connection show every contention for it; two items are
enough for something after `[DONE]`, a broken piece after a good one and a yield with
more to read; the longer answers, with events that have no chunk between those that do,
are in `stream_anthropic`.

The properties of `router`: `OneRowPerCall`, `RowTellsTheTruth` (the row and the outcome
agree), `DeniedStaysLocal` and `LogShowsDeniedLocal` (the deny_cloud guarantee, seen by
the caller and by the reader of the log), `CorrectPolicyNeverDenied` (the guard is only
a backstop), `BudgetBeforeShield`, `ShieldUsable` and `ShieldSettles` (what the unlocked
lazy initialisation still guarantees), and `EveryRouteRecorded` (liveness).  Of
`file_sink`: `OneWriterAtATime`, `RowsNeverInterleave`, `AckedIsDurable`,
`DiskOnlyGrows`, the liveness properties `EmitEnds` and `LockFreed`, and
`ImplementsAuditLog`. Of `dispatch`: `EvaluatesFirstMatch` (the loops with their early
exits against the definition, with their boundaries), `BudgetKept` (refused if and only
if the rounded estimate is more than the ceiling that is meant, and never the wrong way
when the exact cost is further from the ceiling than rounding reaches),
`DispatchStaysLocal` (the deny_cloud guarantee from the prompt to the socket, through a
configuration that is read twice), `StatusTellsTheTruth` (what a script learns from
status and output about what was decided and sent) and the liveness property `CallEnds`.
Of `server`: `StartIsAllOrNothing`, `DefaultServes` (who serves, whatever was built and
replaced before), `ServedByOpenAdapters`, `StopClosesAll`, `HostsAllowed` (no host that
is neither on its kind's list nor left to an SDK by a missing `base_url`), and the
liveness properties `StartEnds` and `StopEnds`.  Of the two stream runs: `DoneIsTheEnd`,
`ConnectionsInUse`, `StreamAgreesWithResponse` (a finished stream told the finish reason
of the other translation, from the other table, and no other), the liveness properties
`StreamEnds` and `ConnectionFreed`, and `ImplementsCompletion`. Each property has a
mutant in `PROJECT.json`, a plausible bug that TLC finds with it; the mutants stand
beside the definitions they change.

### Findings

* `no_row`: `_fingerprint(prompt)` at `router.py:427` is before the `try`.  A
  prompt with a lone surrogate cannot be encoded, `route` raises and no row is
  emitted; `audit/base.py:3-5` promises one "including on error paths".
* `unredacted`: `_dispatch` (`cli/main.py:309`) sends the prompt it was given and
  never looks at `decision.transform`; `docs/POLICY_REFERENCE.md:119` says of
  `shield_redact` that "the dispatcher applies `Shield.redact()` before sending".
  `evaluate_dry` of the MCP server does redact.
* `torn_line`: after a write that failed half way, the next `emit` appends to
  the unfinished line and returns: the file no longer has one JSON line per row
  (`audit/sinks.py:55`), and both rows are unreadable to a line-based reader.
* `policy_lost`: the lifespan swallows every exception of `Policy.from_yaml`
  (`server/app.py:162`) and requests go to the first backend, where the
  repository's README (line 284) says that policy failures refuse the call.
* `client_left`: nothing forbids two backends of one id; the first one's client
  is constructed, replaced in the dict and never closed, although the lifespan
  "closes any httpx clients on shutdown" (`server/app.py:21-23`).  A start that
  fails at a later backend forgets the earlier ones in the same way.
* `second_start`: the nonlocal `_resolved_adapters` outlives the shutdown, so a second
  start of the same app (an embedding program, a test client entered twice)
  builds nothing and serves with closed local adapters.

What the passing runs show and a reader should know:

* A cost that is exactly the ceiling may be refused and one that is above it may pass,
  by as much as the roundings of `estimate_cost` come to: with `o3-mini` at 1.1 and
  400,000 characters the estimate is 0.11000000000000001, more than the ceiling 0.11.
  `BudgetKept` says how far from the ceiling this can happen.  A ceiling of NaN
  switches the check off.
* `adapters/_allowlist.py:64-65` says that without a `base_url` "the SDK uses its
  built-in default endpoint, which is always on the allow-list".  The SDKs take
  `OPENAI_BASE_URL` and `ANTHROPIC_BASE_URL` first, so a variable that is set leads
  past the list.  `HostsAllowed` shows that this is the only way past it; that the
  SDKs do so is knowledge about them and not of this code, so no run reports it.
* `StopEnds` needs its condition `ReadOn`: without it TLC shows a shutdown that waits
  for a client that stopped reading its streamed answer.

* `_ensure_shield` takes no lock, so concurrent first calls may construct a Shield
  each, although `router.py:366-368` speaks of one.  The race is harmless for the
  result (`ShieldUsable`) and ends (`ShieldSettles`).
* `DispatchStaysLocal` needs its two conditions.  If `router.yaml` lists an id first for
  a cloud backend and then for a local one, the guard takes the id for local and
  `_dispatch` takes the first entry.  If `--policy` is given and the environment
  names a `router.yaml`, or the file is edited between the two reads, the guard decides
  about other backends than `_dispatch` sends to.  Dropping either condition, TLC
  shows a prompt with a denied group going to a cloud kind.
* `_load_router` promises a "clean message on any load error"; a PolicyError is not a
  RouterError, so `route` with a broken policy ends with a traceback (`Handlers`).  No
  property holds it to the promise.

## Fairness

`Router`: weak fairness of each call's own steps.  A thread that can run is
scheduled, Shield answers or raises, the sink answers (LocalFileSink does:
`EmitEnds`).  Nothing is assumed of `Invoke` or `Interrupt`.  `LocalFileSink`: weak
fairness of each thread's steps while its process is not stopped.  FileLock polls
until its timeout, so a waiting thread always has a step; which one is not
assumed.  Kills, crashes and restarts are not fair: nothing has to happen.
`Dispatch`: weak fairness of the process's own steps: it is scheduled, Shield
answers or raises, a provider's call ends (its client has a timeout).  Nobody has to
start it, call a tool, stop a server or edit a file.
`Server`: weak fairness of the lifespan's steps (it has no waits but `aclose`), of
each request's answer and of a stream that its client reads (the adapters' clients
have timeouts), and of the ASGI server's resumption of the lifespan.  Nobody has to
start or stop the app, to read on, to leave or to cancel a request.
`Stream`: weak fairness of each request's steps: the event loop resumes a task
whose wait is over, httpx ends every wait for the provider or the pool by a
timeout, a task whose client left is cancelled or runs on, and Python finalizes
abandoned generators.  Neither the provider nor the client has to do anything,
so the liveness properties except a client that stops reading.

## The proofs

All proofs are checked by tlapm with its default backends.  The assumptions are
the named ASSUMEs of `Policy`, `Cost`, `Locality`, `Adapters`, `Router`,
`LocalFileSink`, `Dispatch`, `Server` and `Stream` and nothing else: constants have
their types, and None and the sentinels are not among the values they stand beside
(in `Stream`, None is neither a number, a chunk nor a finish reason).  `Cost` assumes
of floats that their spacings are 1 and its doubles up to a largest one.

`PolicyProofs`: `FirstMatchFires` (if a rule matches, a first one does, from the
well-ordering of the naturals), `LaterRulesIgnored` (what follows a rule that matches
changes nothing), `EvaluateType`, and `DeniedEvaluatesLocal`: with a
rule that catches every denied group, local like all rules before it, every
prompt with a denied group is sent to a local backend.

`SelectionProofs` is what the other proofs need to know of a selection: it grows
with its sequence (`OnlyAppend`, `ColumnAppend`) and a prefix's selection is a prefix
(`OnlyPrefix`, `ColumnPrefix`).  `Only` is a recursive function, of which the provers
know nothing until it is shown to exist and to be determined (`KeepsExists`,
`KeepsAgree`).  The library's induction over sequences takes an operator and cannot be
used; `SequencesGrow` says the same of a set: if it holds the empty sequence and with a
sequence all that append one element, it holds every sequence, since a shortest
counterexample (`LeastOf`) would end in an element.

`RouterProofs` proves eight of the run's invariants and `ShieldSettles` for every
set of calls, policy, and table of prices.  The safety properties speak of calls
that are over and of rows, so none is inductive.  `IInv` (`RouterInvariant`) adds
what a call carries on its way: which locals are set where (`PhaseOK`), that no
call over its budget is past the check (`BudgetOK`), that a held Shield exists
(`ShieldOK`), that a call without an error at the end has passed the guard
(`DecisionOK`), how a call may have ended (`EndOK`), and that each row is
that of a call that is over, made from locals that no longer change (`LogOK`).
The step proof splits by clause, then by "the acting call or another one": a step
leaves the other calls' locals alone (`Frame`) and the log gains at most the
acting call's row (`LogFrame`).  Each property then follows from `IInv` without
looking at the actions; `CorrectPolicyNeverDenied` combines `DecisionOK`
with `DeniedEvaluatesLocal`.

`LocalFileSinkProofs` proves the run's four invariants and `DiskOnlyGrows` for every
number of threads, processes, rows and crashes.  `OneWriterAtATime` is nearly
inductive alone.  The other two speak of the file, and whether the next piece
may be appended depends on where the writing thread is, so `IInv`
(`LocalFileSinkInvariant`) ties the two together: what is in the buffer where
(`BufferOK`), how much of the line is in the file (`LineOK`: nothing before the
first write, the head at the very end after it, the tail at the very end before
the fsync, the tail on the disk when an emit that did not fail releases the
lock), and which rows have no piece in the file or are on the disk (`FateOK`).
The argument has two halves.  `FileStep` says everything a step may do to the
file: one thread's pieces at the end, a sync, or a loss of unsynced pieces; from it
follow `DiskStep`, `InterleaveStep` and `NoPieceStep`.  `ThreadStep` says what a
step means to one thread: it acts, is killed or restarted, or nothing of it
changes.  Mutual exclusion is where they meet: the end of the file belongs to the
lock's holder (`EndOfFile`).

`LocalFileSinkRefinement` proves `ImplementsAuditLog` step by step.  A row is in the
log when the last piece of its line is in the file, so `Flush` and `Close` append a
row or stutter (`GrowsAdds`: the row is pending, and by `FreshPieces` its last piece is
not in the file yet), `Release` tells the caller "ok" of a row that is in
the log (`ReleaseTells`: `AckedIsDurable` before its time, from `LineOK`), and a
kill or a power loss cuts the log to a prefix that keeps every acknowledged row
(`DieLoses`).  The other steps do not touch the log.

`DispatchProofs` proves the run's five invariants for every command line, policy,
configuration, edit, price table and report.  First the rounding: a spacing divides
every float around it, so a rounded number is within half a spacing of the exact one
(`HalfEvenNear`, `RoundedNear`), an estimate is within `Slack` of the exact cost
(`EstimateNear`), and a cost that is clearly on one side of a ceiling is estimated on
that side (`ClearlyDecides`).  `CeilingIsKept` follows with `EstimateIsMeant`, for any
mantissa and any ceiling. Then the loops: a scan of the names that keeps the longest
prefix has `PricePerM` at its end (`ScanPrices`), and a scan of the rules that found no
match before rule `at` agrees with `Evaluate` when it stops (`ScanFinds`, `ScanEnds`);
`Fails` is the negation of `Matches`.  `IInv` (`DispatchInvariant`) then says what a
process holds where: which variables are set (`ProcessOK`), what the scans have
established (`PriceOK`, `RulesOK`), that its Router knows just the declared locality
(`LocalityOK`), what `_dispatch` chose (`TargetOK`), what is known of a prompt that has
left (`SentOK`) and of what was shown (`ShownOK`). `RaiseMeans` says once what an
exception does, `Frame` and `Arrival` which variables a step leaves alone and from where
a place is reached; the step lemmas go clause by clause.  `DispatchStaysLocal` combines
`SentOK` (the guard let the decision pass and the backend is the first of its id) with
`LocalityOK` and, for the address, `CanBuild`.

`ServerProofs` proves the run's six invariants for every set of requests, list of
backends, allowlist, policy and number of starts.  What they rest on is what a dict is
after n backends (`MadeOf`): an entry for each id so far, the first id first, each entry
with a client of the last backend of its id.  `PutMeans` says what one assignment does,
`MadeExtended` that it takes n backends to n + 1, `MadeKept` that later steps do not
disturb it, since clients change nothing but their life (`ClientsStep`).  `IInv`
(`ServerInvariant`) adds which variables that outlive a start are set where (`LoadOK`: a
start that fails leaves no dict behind), that `app.state` is what was resolved, which
adapter a request has, that the adapters of this start are open until the shutdown
(`OpenOK`) and which of them the loop has closed (`CloseOK`).  `HostsAllowed` is
inductive once it is known that clients come with a configuration that no longer changes
(`LoadOK`). `DefaultServes` is then `MadeOf` and the two cases of `Pick`.

`StreamProofs` proves the invariants of the two stream runs and `ImplementsCompletion`
for every number of requests and connections, answers of any length, every shape of
events and every set of reasons to stop. `IInv` (`StreamInvariant`) relates the two ends
of the chain of generators by way of what is between them: the frames of a client that
is there, with the chunk at the yield, tell what was read (`DeliveryOK`); nothing is
read past `[DONE]` (`SentinelOK`); who gets to write `[DONE]` has read it or everything
on a stream that was closed, and nothing follows the frame (`DoneOK`). "Tells" is
`Conveys`: the pieces heard are the pieces among the items, and the finish reasons told
are those of the reasons to stop. It follows an item that is not for the client
(`ConveysSilent`), an item with its chunk (`ConveysChunk`, from `ChunkOfEvent`, the
translation of one event) and `[DONE]` (`ConveysDone`). A step belongs to one request
and leaves the others alone (`OthersUntouched`), so each clause is proved for one
request, action by action. At the end of a stream, `AllIsRead` says that the pieces read
are those spoken before `[DONE]`; `StreamAgreesWithResponse` follows, once the two
tables are shown to agree on every reason that is given (`TablesAgree`). For the
refinement, what a request does is shown to be, for its client, a piece said, a piece
heard, the end, a break or nothing (`SayIsHeardOf`, `WriteIsHeardOf`,
`WriteDoneIsHeardOf`, `QuietStep`): a frame with text is the next piece to hear because
what was read of the pieces is a prefix of what is spoken (`ReadIsSpoken`).

The proof corrected the model once: the arms of the CASE in `ToOpenAIChunk` overlapped
for Anthropic's events, where TLA+ leaves the choice open and TLC takes the first;
the shape is now told apart before the event, as `to_openai_chunk` does.

Only model-checked: the liveness properties (`EveryRouteRecorded`, `EmitEnds`,
`LockFreed`, `CallEnds`, `StartEnds`, `StopEnds`, `StreamEnds`, `ConnectionFreed`), which
need fairness and ENABLED.  Every other property of a passing run is a theorem.

## Plan

Done: Router and its sink, Server, Stream, the loops of the policy and of the price
table, Dispatch, the proofs of all their safety properties and of the two
refinements.  Left, most important first:

1. `AuditTrail`: Router over LocalFileSink instead of an abstract sink, so that
   the promise of a row reaches the disk in one specification; its proof would
   combine the two invariants that exist.
2. The request's way to Anthropic (`extract_system_and_messages`) beside the response's.

## Not modelled

The server's read-only handlers and the MCP server's read-only tools, which return
fields of the configuration or the Router and change nothing; `policies show`, which
loads like `validate` and prints a table; `serve` without `--mcp`, which hands over to
uvicorn (its app is `Server`); the parsing of YAML and the validation messages: a file is
what it means, or None when loading it fails; the sink that `sink_from_config` makes, of
which `Dispatch` keeps whether it can be made; the extraction of system messages for
Anthropic and the usage figures of responses; adapters' parameters that are passed on;
timestamps, latency and the request id's HMAC, which nothing in the code reads again;
the wording of errors and `reasoning`; `NoopSink` (keeps nothing) and `OgenticAuditSink`
(its library is not published); Shield, filelock, httpx, FastAPI, the provider SDKs and
the MCP library, which are external and appear, where a module needs them, as
nondeterministic choices; re-exports and spelling suggestions.
