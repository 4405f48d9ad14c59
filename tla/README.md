# Specifications of AIGuardian

TLA+ models of the engine that decides whether an agent's tool calls may run, the TLC runs that check
them on small instances and the TLAPS proofs that hold for all of them. Paths below are those of the
repository, as this directory sees it: `src/` is the root of the checkout, so the engine itself is under
`src/src/` and `src/include/guardian/`.

## 1. The system

An agent asks a **Guardian** to execute a tool in a *session*. The Guardian looks up the session's history,
asks the **PolicyValidator** whether the tool may follow it, lets the **SandboxManager** run the tool and
appends the call to the history kept by the **SessionManager**. The policy is a graph: nodes stand for
tools and have a type (normal, sensitive source, data processor, external destination), edges say which
tool may follow which. An HTTP **gateway** serves this to many clients at once, from the pool of threads of the
vendored HTTP library. A program that brings its own session manager can use a **ToolInterceptor** instead of a Guardian.

### Inventory

| Component | State | Operations | What makes it correct |
|---|---|---|---|
| `SessionManager` (`session_manager.cpp`) | map from id to history and last activity; timeout; limit; one reader/writer lock | create, end, has, get_sequence, append, list, count, sweep, persist | the map is bounded; a dead session stays dead; expiry is the same for every caller although the map is swept lazily |
| `PolicyValidator` (`policy_validator.cpp`) | LRU cache of verdicts; cycle threshold; hit counters | validate, set_cycle_threshold, reset_cache_stats, read-only helpers | no approval breaks the policy; the cache changes nothing that matters |
| `LRUCache` (`policy_graph.hpp`) | list in order of use, map of iterators, mutex | get, put, clear, copy | list and map agree; capacity; the least recently used goes |
| `PolicyGraph` (`policy_graph.cpp`) | nodes, adjacency lists, index by tool name, edge cache | add and remove nodes and edges, lookups, path search, JSON and DOT in and out | edges join nodes; the index finds every tool; what is written reads back |
| `Guardian` (`guardian.cpp`) | the parts above, the configuration | execute_tool, validate_tool_call, create_session, end_session, update_config, visualisation | recorded histories keep the policy whatever the threads do |
| `SandboxManager` (`sandbox_manager.cpp`) | executors by tool (lock), configurations by tool (lock), runtime factory | load, unload, execute, set configurations | a call uses one module from start to end; the timeout is reported |
| `ToolInterceptor` (`tool_interceptor.cpp`) | none of its own | intercept, execute_if_valid | the history is what took effect, also when sessions expire in the middle of a call |
| Gateway (`gateway/main.cpp`) | last tool by session (mutex), list of subscribers (mutex), a queue per subscriber (mutex, condition variable) | the HTTP handlers, broadcast, subscribe, unsubscribe, event stream | every subscriber gets every event, in one order; the stream of a client that left ends |
| HTTP library (`gateway/httplib.h`) | queue of connections, threads, count of idle ones (one mutex, one condition variable) | enqueue, worker, shutdown, accept loop, chunked streams | no connection is lost or left waiting; a stream that ends is released |
| `Logger` (`logger.cpp`) | entries (mutex), level, file, format | log at a level, export, clear | every entry is exported |
| `Config` (`config.cpp`) | none | load, from_json, to_json | limits stay in range whatever a file says; what is written is read back |
| Visualisation, CLI, policy checker, demo, frontend, WASM tools | none shared | format and print | - |

### Interaction

* A Guardian calls its parts directly. Each part locks itself for the length of one call and no lock is held
  from one call to the next. `execute_tool` is therefore four critical sections and a run of the sandbox, and
  anything may happen between them.
* `validate` is `const` but keeps a cache: `get` and `put` are two critical sections with the checks in between.
  The threshold it compares with is a plain integer that `update_config` may overwrite at any time.
* The gateway calls one Guardian from all its threads. It keeps a second copy of the "last tool" of a session
  in a map of its own, updated after the Guardian has answered.
* Events go from the request handlers to the queues of subscribers and from there to the clients. A connection is a job
  of the server's pool: a dashboard's lasts, and holds its thread, for as long as the dashboard stays.
* A `ToolInterceptor` calls a validator and a session manager of which its owner may end sessions, and whose sessions may
  expire, between any two of its steps.

### What is hard

Interleavings inside `execute_tool` and `validate`; verdicts reused from a cache whose key is shorter than what
the verdict depends on; sessions that end under a call, or expire and are not swept yet; a tool that ran and is
not recorded, or is recorded and did not run; bounds (cache, sessions); the threshold at its boundary. `hazards`
in `PROJECT.json` lists them at their lines with the properties that cover them, and says which no property covers
and why. Around the engine: executors replaced while tools run, tools that never return, handlers that read and
write the gateway's map on both sides of a call, streams that wait, write and are dropped while events arrive, threads
that sleep, time out and are started while connections are queued, a server that shuts down under all of them; and in the graph, long sequences of additions and removals that could leave an edge or an index entry behind.

## 2. The modules

| Module | Models | State |
|---|---|---|
| `Policy` | graph, tool index, the checks of `validate` as predicates on a tool and a history | none |
| `SessionManager` | `session_manager.cpp`: one action per operation that writes, one state function per operation that reads | `sessions`, `allocated`, `clock` |
| `SessionClients` | any clients of a session manager, with the answer to each call | the same and `reply` |
| `ToolInterceptor` | `intercept` and `execute_if_valid` by any number of threads, over `PolicyValidator` and `SessionClients` | both, `request`, `effects` and `shared` |
| `EagerSessions` | abstract: sessions disappear the moment they expire | `live`, `allocated`, `clock`, `reply` |
| `PolicyValidator` | `validate` as four steps of a thread, the cache and its keys, the threshold | `cache`, `cycle_threshold`, `pc`, `job` |
| `ValidatorClients` | threads that ask the validator anything | the same |
| `Guardian` | `execute_tool` and `validate_tool_call` by any number of threads, over `PolicyValidator` and `SessionManager` | the same, `request` and `ran` |
| `WindowGuard` | abstract: a call is recorded in one step if the last calls of its session permit it | `history`, `used` |
| `PolicyLoops` | the loops of `detect_exfiltration` and `detect_cycle`, one call at a time | `calls`, `scan`, `run` |
| `PathSearch` | `find_path`: a graph, its search in breadth one edge at a time, the path put together | `edges`, `phase`, `ends`, `queue`, `front`, `near`, `parent`, `node`, `path` |
| `LRUCache` | `LRUCache`: the list in order of use and the map of iterators into it | `cache_list`, `cache_map`, `since` |
| `BoundedCache` | abstract: a bounded map that forgets one entry when it is full | `cache` |
| `PolicyGraph` | building and changing a graph, with the index of tool names | `graph` |
| `PolicyFiles` | JSON and DOT, written as a whole and read one entry at a time; a graph that is edited and loaded | the same and `file`, `pass`, `at`, `built` |
| `SandboxManager` | executors, configurations, calls that run tools, loads and unloads, by any number of threads | `executors`, `made`, `default_config`, `tool_configs`, `readers`, `pc`, `call`, `answer`, ... |
| `Gateway` | the handlers of `POST /session`, `POST /intercept`, `DELETE /session`, over the guard of `WindowGuard` | `history`, `used`, `session_last_tool`, `events`, `pc`, `request` |
| `EventBroadcaster` | the list of subscribers, their queues and the streams of `GET /events` | `list_mtx`, `subs`, `queue`, `stream`, `to_send`, ... |
| `ThreadPool` | the HTTP library's pool and the loop that accepts connections | `jobs`, `worker`, `running`, `listener` |
| `GatewayServer` | dashboards and requests as jobs of the pool: `EventBroadcaster` on `ThreadPool` | both |
| `Config` | configuration files read and written, and what a Guardian does with them | `file`, `config`, `threshold`, `sandbox_default` |
| `ValidatorProofs` | proofs: the policy's predicates, `PolicyValidator`, `ValidatorClients` | - |
| `GuardianProofs`, `InterceptorProofs` | proofs, over `ValidatorProofs`: `Guardian`; `ToolInterceptor` with `SessionClients` | - |
| `SandboxManagerProofs`, `GatewayProofs`, `GatewayServerProofs` | proofs: the module each is named for | - |
| `PolicyGraphProofs` | proofs: `PolicyGraph` and `PolicyFiles` | - |
| `PartsProofs` | proofs: `LRUCache`, `PolicyLoops`, `PathSearch` and `Config` | - |
| `MC...` | values for constants; `MCParts` puts `PolicyFiles`, `LRUCache`, `PolicyLoops`, `PathSearch` and `Config`, which share nothing, into one run | - |

The modules compose in four ways. `Guardian` extends `PolicyValidator` and `SessionManager`, whose actions are the
steps of its threads, and `ToolInterceptor` extends `PolicyValidator` and `SessionClients` in the same way.
`GatewayServer` extends `EventBroadcaster` and `ThreadPool`: a thread of the pool that runs a dashboard's job takes the
steps of its stream, and one that runs a request may broadcast before it is done. `Gateway` is written over the abstract `WindowGuard`, which `Guardian` is shown to implement, so
its state space has none of the engine's insides. `PolicyLoops` and `LRUCache` justify what the engine's model takes as
given: the predicates of `Policy` and a cache that forgets. `PolicyFiles` extends `PolicyGraph`, whose operations build what a reader reads.

How state and steps correspond to the code:

* A *tool call* is its tool's name. Parameters and time stamps take part in no check.
* `sessions[s]` is `sessions_[s]`, with `action_sequence` as `seq`. `allocated` remembers the ids ever handed out:
  ids are random in the code and are taken to be fresh.
* `clock` is the wall clock in seconds, running forward. Expiry is a function of it, as in `is_expired`.
* `cache` is what `validation_cache_` holds. `LRUCache::put` inserts and drops the least recently used entry when
  there are too many; here it drops any other one. That allows everything the code does and more, and no verdict
  depends on which entry it was.
* A name is a sequence of pieces (`NameText`), two of which are the separators. `KeyText` puts the names of a tool and of the calls of a
  context behind one another as `generate_cache_key` does, so that different questions may have one key. `KeysDistinct` says that none
  have. It is a hypothesis of what is claimed of cached verdicts, and not true of all names: TLC evaluates an example of each (`KeysAssumption`,
  `CollisionAssumption` in `MCGuardian`).
* `job[th]` are the local variables of the call of `validate` that thread `th` is in, `pc[th]` the point it has
  reached. `Lookup`, `Store` are the critical sections of the cache. `Examine` and `Decide` are the two reads of
  the threshold that can differ: `Examine` counts up to one value of it, `Decide` compares with another.
* `request[th]` is what the thread was asked to do. `Begin` is `has_session` (a dead session is refused, which
  changes nothing), `Fetch` is `get_sequence`, then the steps of `validate`, then `Answered` for a denial or a
  call of `validate_tool_call`, or `Run` (the sandbox) and `Record` (`append_tool_call`, or its exception).
* `ran` is a history variable: the tools the sandbox ran for each session that exists.
* A Guardian builds its `SessionManager` with no timeout and no limit, so `GuardianAssumption` fixes both at 0; the
  session manager is checked with both in `ToolInterceptor`.
* In `ToolInterceptor`, `Begin`, `Fetch`, the steps of `validate` and `Deny` are as in `Guardian`. `Run` is the sandbox,
  which succeeds or fails; without one the code takes it to succeed. `RecordCall` is `append_tool_call`: after the run in
  `intercept`, before the caller's function in `execute_if_valid`, and it throws when the session is gone. `Owner` is
  the program around it. Any number of calls may be in one session at once, as nothing in the code prevents it. Two history variables speak of the sessions
  that are in the map: `effects`, what ran with success in each, and `shared`, those in which a call began before another had returned.
* `OneCallPerSession` is what separates the two ways of using a Guardian: a client that waits for the answer to a
  call before it makes the next one in the same session (an agent's loop, the demo), or one that does not. It is
  a constant, not part of the code, and only `Begin` reads it.

* `graph` is `nodes_`, `adjacency_list_` and `tool_name_to_id_`. The operations are operators from graph to graph, as the
  readers of files build graphs with them; an operation that would throw is not enabled. The edges of a node are a
  set; the code goes through them in the order they were added, which is any.
* In `PolicyLoops` a step is an iteration, `scan` and `run` are the local variables of the two loops and what they would return if
  the sequence ended here. In `PathSearch` a step is one node taken from the queue, one of its edges, or one step back
  along `parent`; `queue`, `front` and `parent` are the code's, and `visited` is the domain of `parent`.
* A policy file is its entries: the members of two arrays in JSON, the lines of a DOT file. The writers go through
  unordered maps, so any order of the nodes and then any of the edges is a file of a graph. A reader is `pass` (which of its two
  loops it is in, or how it ended), `at` and `built`. Kept of the text are how a type is spelled, which lines the
  two patterns of `from_dot` match, and that it takes the label of an edge for the name of a tool (`Label`).
* In `LRUCache` an iterator is the entry it points to; one that points to no entry of the list is what
  `ListAndMapAgree` would find.
* In `SandboxManager`, `readers` are the calls that share `executors_mutex_`, from the lookup to the return of the
  tool; `Install` and `Unload` need it alone. `configs_mutex_` and the factory are single steps. An executor has a number,
  so that a replaced one is told from its successor, and the configuration its runtime was made with. `ToolReturns` is the
  tool's doing: it may never come. Its parameters are how the virtual machine ended the call (`Fate`: a return code or what
  a trap's message speaks of) and how long it took; `RuntimeResult` is what `WasmEdgeRuntime::execute` makes of the first,
  `Marked` what `WasmExecutor::execute` makes of the second, and `answer` what the caller gets. `FailToMake` is any of the
  ways a module cannot be loaded.
* In `Gateway` each critical section of a handler is a step. `interrupted` is a history variable: the sessions
  an operator deleted in the middle of a call. `session_last_tool` and `events` are the code's; a response is not
  modelled apart from the event.
* In `EventBroadcaster` the list's mutex is held over several steps (one push per subscriber), a queue's mutex never;
  a stream is about to call its content provider, waiting, writing or closing. A client that went away is noticed by
  the check before the provider is called or when a write fails.
* In `ThreadPool` a step is what a thread does under the mutex. `worker[w]` says where a thread is; `idle_thread_count_` is the
  number of those that wait *or were woken and have not locked the mutex yet*, as the code counts it. `Enqueue`
  and `NotifyOne` are the two halves of `enqueue`; `AcceptFails`, `NotifyAll` and `Join` are the end of `listen`. A thread
  that was started and left again is `off`, and may be started again: `finished_threads_` only keeps what is to be joined.
* In `GatewayServer` a job is a connection. A dashboard's ends with `CloseStream` (the response's destructor unsubscribes,
  the connection is closed, the thread is done) or, if it left before its request was read, with `HangUp`.
* `ConfigToJson` and `LoadConfig` are the code's `Config::to_json` and `Config::load`; `ToJson` and `Load` are of a graph, and `EdgeBetween` is its `has_edge`.
* In `Config` a file is a function from fields to JSON values, a JSON value its kind and content; integers have the widths
  `UInt32` and `UInt64`, and the cast of a float that does not fit, undefined in C++, gives any value of the type.

Operators whose comment starts with `SEEDED FAULT` are not part of any model: each is a definition the way a bug
would have written it, kept to show that a property notices.

## 3. The runs

| Run | Question | Instance | Distinct states |
|---|---|---|---|
| `interceptor` | Do histories, effects and expiry agree when sessions expire and end under a call? | 2 threads, in one session or in two, 2 ids of which one lives at a time, 2 tools, timeout 2, clock to 4, key of 2, 2 calls, up to symmetry | 1.3 million |
| `validator` | Are answers right whatever is cached, and is the cache transparent on short histories? | 1 thread, 3 tools, key of 2 calls, cache of 2, thresholds 1 and 2, histories to 3 | 975 thousand |
| `guardian` | Do histories keep the policy when calls interleave and verdicts of one session answer for another? | 2 threads, 2 sessions, 2 tools (one without a module), every edge but one, key of 2, cache of 1, histories to 4 | 628 thousand |
| `guardian_long` | Do they when an approval outlives the history it was computed for, and when source and destination are further apart? | 1 thread, 2 sessions, 3 tools with a call to log between the two others, key of 2, cache of 1, histories to 5 | 366 thousand |
| `parts` | Do edges and index stay right however a graph is changed, and is it read back as written; do list and map of the cache agree, do the loops find what they are to find, do limits hold whatever a file says? | graphs: 3 ids, 2 tools, 4 types, 4 edges, 5 files by hand, written files in every order; cache: 5 keys, 2 values, 3 places; loops: 5 tools, thresholds 0, 2 and 3, sequences to 5; search: 9 edges over 5 nodes, graphs to 6 edges, 4 pairs of ends; configuration: integers of 3 and 4 bits, 45 values of fields, one or two fields a file | 161 thousand |
| `server` | Is every event delivered once, in order, at last, and is everybody served who connects? | 2 handlers, 1 dashboard, 2 events, 1 to 3 threads | 80 thousand |
| `gateway` | Do events tell what happened in a session? | 2 agents, 1 operator, 2 sessions, 2 tools, 4 events, up to symmetry | 1.1 million |
| `sandbox_manager` | Is an executor kept while it runs and rightly configured, are answers right, and does everybody get one? | 2 callers, 1 loader, 1 tool, 2 timeouts, 3 executors, 3 calls | 47 thousand |

The properties, by what they are about:

* **Sessions.** `EagerlyExpired`: every answer is one that a store without lazy expiry could give (refinement of
  `EagerSessions`), so the limit counts live sessions and a dead one stays dead; the one difference callers see,
  `end_session` succeeding on an expired session, is in the abstract specification as a choice.
* **Interceptor.** The first three are about the sessions used one call at a time, whatever is done in others. `HistoriesPermitted`: although a session that expires between `has_session` and `get_sequence` reads as
  empty, so that any tool which may come first is approved, nothing is recorded that was not permitted. `RunsPermitted`: nor
  does the sandbox run such a call in a session that is still there. `EffectsRecorded`: a session's history is what took
  effect in it, in order, up to the call under way; a run that failed leaves no trace. `EffectsCounted` is about every session: with calls that overlap,
  orders may differ, but each tool is recorded as often as it took effect, up to the calls under way.
* **Cache.** `CacheSound`: a cached approval is right about the calls in its
  key, whichever longer history it was computed for. This is where the code could go wrong silently: the edge check
  looks at the last call, the repetition count and the exfiltration check at all calls, and each must give, on the
  shorter history, no answer stricter than on the longer one. `AnswersSound`: what a thread is told is right whichever
  way the answer came about. `ShortHistoriesExact`: on histories shorter than a key the cache changes nothing. All of it supposes
  `KeysDistinct`, and while the threshold changes nothing is promised of repetitions.
* **Guardian**, with one call at a time per session, but for `RunsRecorded`. The last calls permitted
  every call of a history, and the graph every step of it: `RecordedPermitted`, `PathsFollowEdges`, `NoNearExfiltration`, `RunsBounded`.
  `ImplementsWindowGuard`: all of it together (refinement of `WindowGuard`). `RunsRecorded`: what the sandbox ran and
  what the history says agree, up to the calls between the two.

* **Graph.** `EdgesJoinNodes`: no edge is left behind by a removal. `IndexSound`,
  `IndexKeepsUp`: the index leads to nodes of the tool, and a change takes no tool out of it but one a node of which was
  removed (when two nodes share a tool, removing either makes the tool unknown). `JsonRoundTrip`: a file gives back the
  graph, and every tool that has one node. `DotRoundTrip`: the same for DOT, unless an edge has conditions, and then
  reading fails rather than give another graph.
* **Loops.** `ScanFindsExfiltration`, `CyclesFound`, `ShortestPath`: each loop is equal to the property it looks for,
  with thresholds of 0 too, where `detect_cycle`, which begins at the second call, lets the first pass; and the pair that is reported for a leak is the one a reader of the report would name.
* **Configuration.** `LimitsHold`: whatever a file says, memory and time limits stay in the ranges `from_json` checks, in the
  configuration and in the sandbox manager, and the validator counts against the configured threshold. `ConfigRoundTrip`:
  what `to_json` writes of a configuration in use, `from_json` accepts and reads as it was.
* **LRU cache.** `ListAndMapAgree`, `LeastRecentlyUsedGoes` (stated with the history variable `since`: a key is there
  while fewer than `max_size_` others were used after it), and the refinement of `BoundedCache`.
* **Sandboxes.** `RunningIsPooled`: the lock keeps what runs alive. `LoadedAsConfigured`: although configuration and
  executor are guarded by different locks, a module gets a configuration its tool had while it was loaded. `AnswersTell`: success and timeout are told by the
  configuration of the call, whichever the module was loaded with, and lateness hides no violation.
  `EverybodyReturns`, if tools do.
* **Gateway.** `EventsFollowHistory`, `EventsChain`: with one call at a time per session, a dashboard can rebuild each
  session's history from its events, and each event reports the edge that was attempted, also when an operator ends
  sessions in the middle of calls. `TrackerForgets`: an operator who deletes a session in the middle of a call is all
  that leaves an entry in the tracker.
* **Server.** `EveryEventOnceInOrder`, `EventsArrive`, `GoneAreDropped`: the same for the way from the broadcast to the
  dashboard. `NoLostWakeup`: a queued connection has a thread on its way, or a notification to come and a sleeper to receive
  it, although dynamic threads time out and a notification may go to one that is about to. `StoppedMeansServed`: when
  `listen` returns, nothing that was accepted is left behind. `AnsweredInTheEnd`: a request is answered unless a
  dashboard stays for ever, which the pool, started lazily and shrinking again, does not promise by itself.

Four runs find a **violation**, each of a sentence of the documentation:

| Run | The documentation | The code |
|---|---|---|
| `exfiltration_beyond_key` | a source followed *eventually* by a destination is blocked (`docs/policy_guide.md:114`) | the cache answers for the last five calls; the run uses a key of two, to keep the counterexample short |
| `shared_session` | calls that do not follow the graph are blocked (`README.md:15`) | two calls at once in one session are checked against one history |
| `health` | `GET /health` answers while the gateway is up (`docs/api.md:243`); a thread is started if none is idle (`httplib.h:9794`) | a thread that was woken for a dashboard still counts as idle, so the next request starts none and waits for as long as the dashboard stays (`httplib.h:9795`). One base thread of two in the run, at least eight of thirty-two in the code |
| `policy_types` | `node_type` is one of `NORMAL`, `SENSITIVE_SOURCE`, ... (`docs/policy_guide.md:33`) | only the lower-case spellings are known; every other makes a normal node, in all files of `policies/` too |

`NoNearExfiltration` is the part of the first sentence that does hold, `PathsFollowEdges` in the run `guardian_long` (one call at
a time per session, distinct keys) that of the second, `AnsweredInTheEnd` that of `GET /health`.

Other places where code and documentation differ, met while modelling and not the subject of a run:

* Keys of the cache are names joined without escaping (`policy_validator.cpp:109`), and nothing restricts the names of tools: `a` after `b:c` and `a:b` after
  `c` have the key `a:b:c,`, and the approval of the first answers for the second, whether there is an edge or not. `CollisionAssumption`
  has TLC compute the two keys.
* With a threshold above five, the default of 10 included, the approval cached for the sixth call of a tool in a row
  answers all later ones (`policy_validator.cpp:112`; `README.md:48` says call n + 1 is blocked). `RunsBounded` holds for thresholds that
  fit in a key. `validate` also counts repetitions that are not consecutive, which `docs/policy_guide.md:108` denies.
* An edge with conditions, written as DOT, is read as a second definition of the node it leads to, and `from_dot` throws
  (`policy_graph.cpp:432`). `DotRoundTrip` says so.
* `is_valid_path` looks edges up by tool name, where the graph has node ids (`policy_validator.cpp:90`, `docs/api.md:109`).
* Decisions are logged to temporary loggers (`Logger()`), and `GET /audit/{id}` exports `Logger::instance()`, which holds
  "Initialization complete" and nothing else of a Guardian (`guardian.cpp:128`, `docs/api.md:335`). The logging section of
  a configuration is never applied; `README.md:228` calls `output_file` what the code calls `output`.
* A Guardian hands its validator the default threshold only (`guardian.cpp:67`): `per_tool_thresholds` of a configuration
  (`README.md:217`) are read by `detect_cycle`, which nobody calls.
* The sandbox section of the configuration file reaches `config_` but not the sandbox manager until `update_config`;
  `set_default_sandbox_config` never reaches it (the call is commented out, `guardian.cpp:212`).
* `config.hpp:41` promises safe defaults for missing and invalid values. A number too large for its field wraps first: a
  timeout of 2^32 + 100 is read as 100, a threshold of 2^32 as 0, which denies every call. A collection with a member of
  a wrong kind makes `from_json` throw.
* The two counters of `get_cache_hit_rate` are read one after the other, and a third time, so that the rate can exceed 1 while
  threads validate (`policy_validator.cpp:216`).
* The alternatives to an unknown tool are node ids, those to a missing edge are tool names (`policy_validator.cpp:139` and 155).
* After an error of `accept` the server joins its threads but no stream ends by itself: `listen` returns only once every dashboard has left.
* The time a tool took is looked at once it has returned, so a tool that does not return is never stopped
  (`sandbox_manager.cpp:122`, `docs/policy_guide.md:84`); of the configuration a call is given, only the timeout is used
  (`sandbox_manager.hpp:115`); and the test runtime's `call_count_` is incremented under a shared lock.

### Bounds, and why they are enough

`MaxHistory` (length of histories), `MaxCalls`, `MaxClock`, and the sizes of the sets. What a verdict depends on is
the last call, the calls in the key and, on a miss, the calls before them; a history one longer than the key has
all three. `validator` asks about any history of up to three calls with a key of two, reachable by a Guardian or not. In a Guardian a history must be reached by approved calls. With the two
tools of `guardian` and a threshold of two, nothing is approved after more than two calls unless the approval was computed for a shorter history: that run is about threads that
interleave, and its histories are short. `guardian_long` has one thread and a graph in which approvals are computed after three calls and served after
four, and in which the destination is attempted when the source is two calls back, as far as a key reaches.
In `interceptor` `MaxCalls` counts the calls recorded in a session and those under way; two are enough for two that overlap, and
for one before which another was recorded. The sessions of that run are in `shared` or not, and what is claimed of the order of calls is about the second kind.
Two threads are all a race on one entry or one session needs. A cache smaller than the number of keys in use forces
evictions. Two thresholds are a change; histories of three calls reach and pass both. The clock passes the timeout of a
session twice, with a sweep in between. Two tools, a source and a destination, and a third that may come between them are enough for a Guardian; processors are
looked at in `parts`. Three ids let an edge survive the removal of a third node or not; a search needs five nodes
and five edges before a path found first is not a shortest one, and a sixth may lead astray. Sequences of five calls are longer than twice a threshold.
Three places and five keys evict twice before a key is used again. Two events in `server` are one that was swapped away or is being written and one that waits or is being pushed; four in the gateway are a call before and a call after another session's, or a
deletion in between. `MaxExecutors` 3 is a module, the one that replaces it and another after that, `MaxCalls` 3 two calls at once and one after an
answer; of the two durations one is too long for one of the two timeouts. `MaxEvents`
and these two bound counters that grow without limit in the code. In `interceptor` one session lives at a time, so that creating the second needs the first to have expired or ended under a call.
In `server` a base thread and two dynamic ones are a stream, a request and one that sleeps or times out between them; one dashboard
that leaves and comes again is a subscriber with two lives. Two dashboards, two handlers and three threads (2.8 million states)
were checked once for safety and are too slow for liveness in a run that is to be repeated; the safety properties are proved for any number. Integers of three
and four bits in `parts` leave room below, in, above and beyond the ranges of both limits, so that wrapping into a range
and past it happen. The theorems of section 4 hold without these bounds
(`MaxHistory` is a parameter there).

### Fairness

The engine has none: a call of `execute_tool` waits for the sandbox, which the code never interrupts, so nothing in the
code makes a call return. Liveness is checked where the code gives a reason for it.

* `GatewayServer`: weak fairness of each thread of the pool and of the thread that accepts, as one action each: a thread
  that can go on does. The mutexes are held for bounded work, a wait on a condition variable ends by its timeout or
  by a notification the model contains, and what a thread does next is its code's choice, not the scheduler's. `Unsubscribe` waits for the
  list's mutex, and only events, of which a run has finitely many, could keep it from it. Nobody has to connect, leave or
  broadcast, `accept` need not fail, and a handler need not be fast: only finite. `AnsweredInTheEnd` assumes in its statement, not as fairness, that
  no dashboard stays for ever; `health` shows what happens if one does.
* `SandboxManager`: callers and loaders go on while they can. That tools return is an assumption about tools
  (`WellBehaved`), not about this code, which never stops one. A loader waits for the lock until nobody shares it,
  which is sure only because a run has finitely many calls: the code's lock does not promise more.

Deadlock is checked in every run except those that really stop: `parts` and `gateway` at their bounds, and `server` and `health`, where the server may shut down.

## 4. The proofs

The theorems hold for every value of the constants that the named `ASSUME`s of the modules allow: the graph is well formed, key
length and capacity are positive, a Guardian's sessions do not expire, ids of callers and loaders are distinct, and so
on. TLC evaluates each of these assumptions in the runs. What a theorem needs beyond them is a hypothesis of its statement. Each
safety invariant is proved from an inductive one: initially true, kept by every action, one lemma or one step per action.

| Theorem | States | Module |
|---|---|---|
| `TypeCorrect` | `GuardianTypeOK` | `GuardianProofs` |
| `CacheCorrect` | `CacheSound`, if `KeysDistinct` | |
| `SnapshotsStayCurrent` | `SnapshotsCurrent`, if `OneCallPerSession` | |
| `RecordedCorrect` | `RecordedPermitted`, if `OneCallPerSession` and `KeysDistinct` | |
| `PathsCorrect` | `PathsFollowEdges`, if `OneCallPerSession` and `KeysDistinct` | |
| `NearExfiltrationBlocked` | `NoNearExfiltration`, if `OneCallPerSession` and `KeysDistinct` | |
| `RepetitionsBlocked` | `RunsBounded`, if `OneCallPerSession` and `KeysDistinct` | |
| `GuardianImplementsWindowGuard` | `ImplementsWindowGuard`, if `OneCallPerSession` and `KeysDistinct` | |
| `RunsAlwaysRecorded` | `RunsRecorded` | |
| `AnswersAlwaysSound`, `ShortHistoriesAlwaysExact` | `AnswersSound`, `ShortHistoriesExact`, if `KeysDistinct` | `ValidatorProofs` |
| `InterceptorTypes` | `InterceptorTypeOK` | `InterceptorProofs` |
| `HistoriesAlwaysPermitted`, `RunsAlwaysPermitted` | `HistoriesPermitted`, `RunsPermitted`, if `KeysDistinct` | |
| `EffectsAlwaysRecorded`, `EffectsAlwaysCounted` | `EffectsRecorded`, `EffectsCounted` | |
| `SessionsExpireEagerly` | `EagerlyExpired` | |
| `EdgesAlwaysJoinNodes`, `EdgesAlwaysDistinct` | `EdgesJoinNodes`, `EdgesDistinct` | `PolicyGraphProofs` |
| `IndexAlwaysSound`, `IndexAlwaysKeepsUp` | `IndexSound`, `IndexKeepsUp` | |
| `LoadedGraphsSound`, `LoadedIndexKeepsUp` | all of these, with graphs read from files | |
| `JsonAlwaysRoundTrips`, `DotAlwaysRoundTrips` | `JsonRoundTrip`, `DotRoundTrip` | |
| `SandboxTypes`, `RunningStaysPooled` | `SandboxTypeOK`, `RunningIsPooled` | `SandboxManagerProofs` |
| `LoadedCorrectly`, `AnswersAlwaysTell` | `LoadedAsConfigured`, `AnswersTell` | |
| `GatewayTypes`, `TrackerAlwaysForgets` | `GatewayTypeOK`, `TrackerForgets` | `GatewayProofs` |
| `EventsAlwaysChain`, `EventsAlwaysFollow` | `EventsChain`, `EventsFollowHistory` | |
| `ServerTypes`, `NoWakeupIsLost` | `ServerTypeOK`, `NoLostWakeup` | `GatewayServerProofs` |
| `EventsInOrder`, `StoppedServed` | `EveryEventOnceInOrder`, `StoppedMeansServed` | |
| `LimitsAlwaysHold`, `ConfigTypes`, `ConfigsSurviveFiles` | `LimitsHold`, `ConfigTypeOK`, `ConfigRoundTrip` | `PartsProofs` |
| `CacheTypes`, `NoIteratorDangles` | `LRUTypeOK`, `ListAndMapAgree` | |
| `EvictsTheLeastRecentlyUsed`, `CacheIsABoundedMap` | `LeastRecentlyUsedGoes`, `ImplementsBoundedCache` | |
| `ScanAlwaysFindsExfiltration`, `CyclesAlwaysFound` | `ScanFindsExfiltration`, `CyclesFound` | |
| `PathsAlwaysShortest` | `ShortestPath` | |

Two hypotheses occur.

* `OneCallPerSession` is a hypothesis of six theorems about the Guardian, and the run `shared_session` shows that it cannot be dropped. `RunsAlwaysRecorded`, `CacheCorrect` and `TypeCorrect` do not
  need it. In `ToolInterceptor` it is no hypothesis: the properties about order are stated of the sessions that are not in `shared`.
* `KeysDistinct` is a hypothesis of ten: all that depends on an approval from the cache. Names that hold no separator grant
  it. TLC evaluates that on the instances (`KeysAssumption`); it is not proved, as the text of a key is the concatenation of
  a sequence of sequences, which is defined by recursion over it.

### The validator (`ValidatorProofs`)

1. *A key stands for its question* (`KeysDistinct`, the hypothesis), a tool and a context: what is known of the verdict under a key can be said of
   them. `ValidatorTypeOK` and all that is not about approvals does without.
2. *Shorter histories are judged no more strictly.* The context of a history is a suffix of it. Being a
   suffix with the same last call, it has the same answer to the edge check; it contains no more repetitions; and an
   exfiltration in it is one in the whole. So what is permitted after a history is permitted after its context.
3. *Verdicts are sound* (`VerdictsSound`). `CacheSound` is not inductive, since `Store` writes what a thread decided earlier.
   It is strengthened by `JobSound`: a thread that holds the verdict "approved" holds it for a call permitted after the
   context of its copy, and a thread about to decide has found the tool known and the edge there. With the
   threshold changing, the part about repetitions is claimed only for a constant threshold, the parameter of `VerdictsSound`.
   The lemmas on it are about the validator's steps alone, so that they serve the validator by itself (`WindowInv`), the
   Guardian (`CacheInv`) and the interceptor.
4. *Short histories* (`ShortInv`). With distinct keys the key of a history shorter than `ContextLength` tells the whole of it
   (`ShortKeys`), so the cache holds under such a key a verdict that was exact for the history asked about. A thread
   between `Examine` and `Decide` has its count from one threshold and compares it with another: both are named in what
   is called exact.

### The Guardian (`GuardianProofs`)

*The copy is the history* (`CopyInv`). At most one thread executes in a session (`OneCallInv`), and only that
thread's `Record` appends to it; the session may be ended and ids are never reused. So the copy is still the
history at `Record`. This needs nothing of the cache.

*What is recorded was permitted* (`HistoryInv`). Together with the cache (`CacheInv`), what was permitted after the context of the copy is permitted
after the context of the history. `RecordedPermitted` is preserved, and paths, near exfiltrations, runs of one tool and the
refinement follow from it.

*What ran is recorded* (`RunsInv`). With any number of calls at once the two counts are tied together by a third: a tool
has run in a session as often as the history says plus as many threads as are about to record it (`Recording`). That
the set of these threads is finite is part of the invariant, as nothing is assumed of `Thread`. `Run` adds
the thread to the set and `Record` takes it out; ids of ended sessions stay `allocated` and are not handed out again, so
the counts of a new session start at zero.

### The interceptor (`InterceptorProofs`)

*Histories* (`CallsInv`). In place of the session that cannot expire there is the record that checks: in a session that is not in `shared` there
are no two calls (`CallsApart`), and a thread's copy is the history *while the session is live*. The copy of a session that had expired
reads as empty, but it never lives again, so `append_tool_call`, which refuses an expired session, never appends to another
history than the one the approval is about. The soundness of approvals is that of the validator.

*Effects* (`EffectsInv`). By session that is not in `shared`: with no call between effect and record, history and `effects` are equal; with one that
is about to be recorded, `effects` is one longer, and with one that is about to take effect, the history is. A
session that is not allocated yet has no effects.

*Counts* (`CountInv`). By session and tool, with any number of calls: what was recorded and what waits to be, against what took effect and what is about
to. As in `RunsInv`, that the threads which wait (`Waiting`) are finitely many is part of the invariant; each step moves a thread into one of these sets, or out of it
and appends.

*Expiry* (`SessionsExpireEagerly`). Step by step under the refinement mapping: `live` are the sessions that are in the map and
have not expired. A sweep changes none of them, so that a creation with its sweep is a creation (`EagerCreate`), the
end of an expired session an end of nothing (`EagerEnd`), a tick an expiry of those whose time is up (`EagerWait`), and every
read answers from the live ones only.

### The graph (`PolicyGraphProofs`)

For any ids, tool names and types and every sequence of operations on a graph (`GraphSpec`). The invariants are proved together
and of a graph `g` that need not be the variable (`Sound`), because a reader of files builds one too. With the types they are
inductive: an added node has no edges because
`adjacency_list_` has an entry for nodes only; removing a node keeps the others' edges to nodes that remain; an
index entry that survives is of another tool, and so leads to a node other than the one removed. The two operations on
edges share one lemma, `EdgesChange`. `IndexKeepsUp` is an action property: as the index is sound, a lookup fails for exactly
the names without an entry (`LookupFails`), and the one operation that takes an entry away takes a node of its tool with it.

*Files* (`FilesInv`), for graphs of any size, files written in any order and any files written by hand (`FilesSpec`).

1. A written file holds the entries of the graph, each once, the nodes before the edges (`ListingsListed`). That each is there is
   counting: as many entries as a finite set has elements, all different, are all of them (`OrderedSet`). So that graphs are finite
   is part of `Sound`.
2. What was written of a node or an edge is read as the same node or edge (`NodesReadBack`, `EdgesReadBack`).
3. On its way through a file of `graph` a reader has built the part of the graph it has passed (`Reading`: the nodes seen, then all nodes and
   the edges seen, then all). A node entry is of a node not seen before, so `add_node` takes it (`NodeStep`); an edge joins
   nodes that are there, and by `EdgesDistinct` no edge read before joins the same two, so `add_edge` takes it (`EdgeStep`).
   In DOT a line with a label, met in the first pass, leads to a node already read, because nodes come first
   (`LabelStep`): the reader throws there, and gets past the first pass only if no edge has conditions.
4. A reader only adds, so its index has an entry for every tool (`IndexFull`). Loading its graph therefore loses no
   tool, and with one node for a tool the entry leads to it.

### Sandboxes (`SandboxManagerProofs`)

`TypesInv` holds the types, what the locals of a thread are at each place (`LocalsOK`), and that no more calls are entering than have
begun, which is why the bound on calls bounds the readers. `RunningIsPooled` is inductive with it: `Install` and `Unload` wait for a
time without readers, and who runs is a reader. `LoadedAsConfigured` is about one step, and what that step installs was decided three steps
earlier, under a lock long given back; `LoadsCurrent` carries it along: the configuration a loader holds, and the one that is
in force for its tool now, are both among those that were in force since the load began. `AnswersTell` follows from the types of the
one step it is about, by the ways a call can end.

### The gateway (`GatewayProofs`)

* `HandlersInv`: at each place of a handler, what its request says; no two agents are in one session; an operator who deletes
  has closed the session first.
* `TrackerInv` adds to `TrackerForgets` that the tool an agent is about to note belongs to a session that is open or was
  deleted in the middle of this call.
* `ChainInv`: the history, the tracker and the events tell the same place of a session (`SessionChain`), up to the agent whose
  handler is between the Guardian's answer, the tracker and the broadcast (`AgentChain`); the events so far form
  chains (`EventChain`). Each step of a handler moves one of the three.
* `FollowInv` counts: the number of an approved event among those of its session is the position of its call in the history, and the
  history is longer by one exactly while an event is to come (`EventToCome`). `EventsFollowHistory` is stated with these numbers,
  not with the subsequence of approved events, as a sequence that is selected by a predicate is a recursive definition.

### The server (`GatewayServerProofs`)

For any handlers and dashboards, any number of events and any numbers of threads with at least one
base thread, all from one inductive invariant, `ServerInv`:

* `PoolInv`: the types, `NoLostWakeup`, and `BaseThreadsStay`: no base thread is off before a shutdown, and every thread is off
  once `listen` has stopped. `NoLostWakeup` needs the second part: whoever enqueues finds the first base thread awake, or asleep
  with the notification still to come, and whoever was woken or is busy looks at the queue before it sleeps or leaves.
* `BroadcasterInv`: a stream that is off has nothing queued, to send or received; who is still to be given the current
  event has been there before it. With that the three sequences of a dashboard together grow by the event that is pushed,
  and every other step only moves an event from one to the next.
* `SubscribersServed` ties the two together: every subscriber's stream runs on a thread of the pool. When all threads are off
  there are no subscribers.

### Configuration, LRU cache, loops and search (`PartsProofs`)

*Limits*, for integers of any width, any ranges and any files. `LimitsHold` is inductive as it stands; the work is in `LimitsInRange`:
whatever `Converted` yields, also where the cast is undefined, `Limited` lies in the range or is the default, which
`ConfigAssumption` puts there.

*Round trip.* The type of each field is what from_json can make of it (`AcceptedFits`, by kinds of fields), and a value of that type is
written as a JSON value of the kind that is read, and is not changed by the conversion or given up for the default
(`WrittenIsReadBack`). So the type invariant, with "a file is a JSON document" beside it (`ConfigInv`), gives
`ConfigRoundTrip`; and as documents written by `to_json` are read again, the two are proved by one induction. `WordsAssumption` says that
the words for levels and formats are strings, which the provers do not find by themselves and TLC evaluates.

*LRU cache*, for any keys and values and any size (`LRUInv`). To the agreement of list and map are added: what was used since a key in the
list was used are exactly the keys before it (`Ordered`), and a key that is no longer there has `max_size_` others used after it
(`GoneForAReason`). The lemmas are about lists with distinct keys: as many keys stand before a place as the place says
(`CountKeysBefore`), and what moving a key to the front (`FrontedIs`, `FrontedOrdered`) and cutting the last (`CutLast`) do to that order. The
refinement needs the list only to know that one entry goes when one too many has come.

*Loops*, for any policy, any thresholds and sequences of any length, and so for every call of the two functions: a sequence is looked at from
left to right, and what the function would return after each call is compared with what it is to find. `ScanInv`: until a
pair is found there is no leak, and `active_sources` is empty exactly when no source is without a processor after it
(`Fresh`); else its front is the earliest of those. `RunInv`: the current run ends at the last call, is all of one tool and
goes back as far as it can, so the longest run that ends here is the one whose length is compared.

*Search*, in any finite graph, between any of its nodes, with the edges of a node in any order (`SearchInv`). There is a number for each visited node, its
distance from the start along `parent` (`Depths`). In the queue these numbers never fall and never exceed the current node's by more than one; whatever an
edge leads to that was looked at is visited and at most one deeper (`Searching`). So a way to the end that is no longer than the
current node is deep, or any way when the queue is used up, would stay among visited nodes, to which the end does not belong (`AlongTheWay`): the
first path found is a shortest one, and none is found only when there is none. `Tracing` follows `parent` back, one node for each edge of the depth. That
what passes from each node of a way to the next holds all along is induction over the way. The library's induction theorems take an operator,
which the provers cannot instantiate; its theorem on well-founded relations does not (`LeastNumber`), and gives the induction as an argument about the
first node that fails (`AllAlong`).

## 5. Only model-checked

Liveness under fairness: `EventsArrive`, `GoneAreDropped`, `AnsweredInTheEnd` and `EverybodyReturns`. The prover does not reason about
fairness.

Every other property of a passing run is proved. Types, and that a copy is current (`SnapshotsCurrent`), are proved rather than run (`GuardianTypeOK`, `InterceptorTypeOK`, `GraphTypeOK` within
`GraphInvariant`, `ServerTypeOK`, `SandboxTypeOK`, `GatewayTypeOK`, `ConfigTypeOK`, `LRUTypeOK`), and so is `EdgesDistinct`; no
configuration lists them, as the properties of section 3 fail when a type does.

## 6. Not modelled

See the `components` of `PROJECT.json`. In short:

* Text and files: visualisation, CLI and scenarios, policy checker, demo, frontend, `persist_session`.
* The HTTP library but for its pool, accept loop and streams. It is vendored third-party code, and four fifths of all lines
  of the repository: that is why most of its lines are in no model, while of the engine and the gateway most are.
* `Logger`: one list behind one mutex, to which every line is added by one locked append; the rest is formatting.
  `min_level_`, `output_file_` and `json_format_` are read outside that lock (`logger.cpp:81`), which only matters to a
  program that changes them while others log, and none in the repository does.
* Of the modelled parts: parameters and time stamps of calls; reasons and suggested alternatives of verdicts; the hit counters,
  `is_valid_path`, `check_transition` and `get_alternatives`, single look-ups; a tool's output, a runtime's `reload`, which only tests
  call, and the test runtime; `set_runtime_factory`; the random ids; `load_tool_module`, a stub; moving a Guardian, which
  leaves the validator with a reference into the Guardian that was moved from (`guardian.cpp:98`); the endpoints of the
  gateway that only read, and the start of a demo process.

## 7. Plan

1. The properties of the server that are about time need fairness and stay with TLC; what could still be proved is that the
   stages an event or a connection passes through only ever go forward, as action properties.
2. `SandboxManager` with `reload` and `set_runtime_factory`, if a caller for them appears in the engine.
3. A Guardian that shares its session manager with a `ToolInterceptor`, if the code comes to allow it.
