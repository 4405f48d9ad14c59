--------------------------- MODULE SandboxManager ---------------------------
(***************************************************************************)
(* SandboxManager, WasmExecutor and the runtimes they run                  *)
(* (src/src/sandbox_manager.cpp), used by several threads: callers of      *)
(* execute_tool, and threads that load and unload modules and set          *)
(* configurations.                                                         *)
(*                                                                         *)
(* configs_mutex_ is never held longer than one step of this model.        *)
(* executors_mutex_ is shared by every call for as long as its tool runs,  *)
(* and taken alone, for one step, to install or drop an executor.          *)
(*                                                                         *)
(* A tool is external code: it returns when it wants, or never.  The       *)
(* runtime is WasmEdgeRuntime, of which a call is modelled by how it ends. *)
(***************************************************************************)
EXTENDS Naturals, FiniteSets, Functions

CONSTANTS
  Tool, Caller, Loader,
  Config,       \* sandbox configurations
  Safe,         \* the one there is at first (safe_defaults)
  TimeoutOf,    \* timeout_ms of a configuration; 0 is none
  Duration,     \* how long tools may take
  None,         \* no executor, no configuration, no violation, no answer
  MaxExecutors, \* bound: the executors that are made
  MaxCalls      \* bound: the calls that run a tool

ASSUME SandboxAssumption ==
  /\ Safe \in Config
  /\ None \notin Config \cup Tool \cup {"TIMEOUT", "MEMORY_EXCEEDED",
                                       "NETWORK_DENIED", "FILE_ACCESS_DENIED"}
  /\ Caller \cap Loader = {} /\ IsFiniteSet(Caller)
  /\ MaxExecutors \in Nat /\ MaxCalls \in Nat
  /\ TimeoutOf \in [Config -> Nat] /\ Duration \subseteq Nat

VARIABLES
  executors,        \* executors_: tool -> executor
  made,             \* how many executors were ever made
  default_config,
  tool_configs,     \* tool_configs_: tool -> configuration
  readers,          \* the callers that share executors_mutex_
  pc, call,         \* where each thread is, and its locals
  answer,           \* what the step just made returned to a caller
  begun,            \* the calls that were begun and not refused
  effective         \* HISTORY: per loader, the configurations its tool had
                    \*          since it began
vars == <<executors, made, default_config, tool_configs, readers, pc, call,
          answer, begun, effective>>

Thread == Caller \cup Loader
ExecutorId == 1 .. MaxExecutors

(* An executor is known by its number, for it may be replaced by another   *)
(* for the same tool; its runtime keeps the limits on memory, files and    *)
(* environment it was made with.                                           *)
Executor == [id : ExecutorId, cfg : Config]

Local == [tool : Tool \cup {None}, cfg : Config \cup {None},
          executor : Executor \cup {None}]

(* How the virtual machine ends a call: the tool returns, or the message   *)
(* of a trap speaks of one of these things                                 *)
Fate == {"zero", "error code", "time", "memory", "socket", "file", "other trap"}
Violation == {"TIMEOUT", "MEMORY_EXCEEDED", "NETWORK_DENIED", "FILE_ACCESS_DENIED"}
SandboxResult == [success : BOOLEAN, violation : Violation \cup {None}]

Begun(t, cfg) == [tool |-> t, cfg |-> cfg, executor |-> None]
Idle == Begun(None, None)

SandboxTypeOK ==
  /\ DOMAIN executors \subseteq Tool
  /\ Range(executors) \subseteq Executor
  /\ DOMAIN tool_configs \subseteq Tool
  /\ Range(tool_configs) \subseteq Config /\ default_config \in Config
  /\ made \in 0 .. MaxExecutors
  /\ pc \in [Thread -> {"idle", "enter", "run", "make", "install"}]
  /\ call \in [Thread -> Local]
  /\ readers = {c \in Caller : pc[c] = "run"}
  /\ begun \in 0 .. MaxCalls
  /\ answer \in SandboxResult \cup {None}

Init ==
  /\ executors = [t \in {} |-> None] /\ made = 0
  /\ default_config = Safe /\ tool_configs = [t \in {} |-> None]
  /\ readers = {}
  /\ pc = [th \in Thread |-> "idle"] /\ call = [th \in Thread |-> Idle]
  /\ begun = 0 /\ answer = None
  /\ effective = [l \in Loader |-> {}]

Goto(th, label) == pc' = [pc EXCEPT ![th] = label]

configVars == <<default_config, tool_configs, effective>>
poolVars == <<executors, made>>

(* get_config_for_tool *)
ConfigFor(t) == IF t \in DOMAIN tool_configs THEN tool_configs[t] ELSE default_config

-----------------------------------------------------------------------------
(* execute_tool, with a configuration or, in its other form, with the      *)
(* stored one                                                              *)
Call(c, t) ==
  /\ pc[c] = "idle" /\ begun < MaxCalls /\ begun' = begun + 1
  /\ \E cfg \in Config \cup {ConfigFor(t)} :
       call' = [call EXCEPT ![c] = Begun(t, cfg)]
  /\ Goto(c, "enter")
  /\ answer' = None
  /\ UNCHANGED <<poolVars, configVars, readers>>

Failure(violation) == [success |-> FALSE, violation |-> violation]

(* WasmEdgeRuntime::execute *)
RuntimeResult(fate) ==
  CASE fate = "zero" -> [success |-> TRUE, violation |-> None]
    [] fate = "time" -> Failure("TIMEOUT")
    [] fate = "memory" -> Failure("MEMORY_EXCEEDED")
    [] fate = "socket" -> Failure("NETWORK_DENIED")
    [] fate = "file" -> Failure("FILE_ACCESS_DENIED")
    [] OTHER -> Failure(None)

Late(cfg, d) == TimeoutOf[cfg] > 0 /\ d > TimeoutOf[cfg]

(* SEEDED FAULT for Marked: a violation is replaced by the timeout. *)
MarkedAlways(result, cfg, d) ==
  IF Late(cfg, d) THEN Failure("TIMEOUT") ELSE result

(* WasmExecutor::execute marks a result that is late, unless the runtime   *)
(* has reported a violation.                                               *)
Marked(result, cfg, d) ==
  IF Late(cfg, d) /\ result.violation = None THEN Failure("TIMEOUT") ELSE result

(* SEEDED FAULT for Refuse: the lock is not given back. *)
RefuseLocked(c) ==
  /\ pc[c] = "enter" /\ call[c].tool \notin DOMAIN executors
  /\ readers' = readers \cup {c}
  /\ begun' = begun - 1 /\ answer' = Failure(None)
  /\ Goto(c, "idle") /\ call' = [call EXCEPT ![c] = Idle]
  /\ UNCHANGED <<poolVars, configVars>>

(* The executor is looked up under the shared lock, which is kept.  A call *)
(* for a tool without one, or with a runtime that is not loaded, answers   *)
(* with an error at once.                                                  *)
Refuse(c) ==
  /\ pc[c] = "enter" /\ call[c].tool \notin DOMAIN executors
  /\ begun' = begun - 1 /\ answer' = Failure(None)
  /\ Goto(c, "idle") /\ call' = [call EXCEPT ![c] = Idle]
  /\ UNCHANGED <<poolVars, configVars, readers>>

(* The tool begins to run, under the lock. *)
Enter(c) ==
  /\ pc[c] = "enter" /\ call[c].tool \in DOMAIN executors
  /\ readers' = readers \cup {c}
  /\ call' = [call EXCEPT ![c].executor = executors[call[c].tool]]
  /\ Goto(c, "run")
  /\ answer' = None
  /\ UNCHANGED <<poolVars, configVars, begun>>

(* The tool returns, the lock is given back and the caller has its answer. *)
ToolReturns(c, fate, d) ==
  /\ pc[c] = "run"
  /\ answer' = Marked(RuntimeResult(fate), call[c].cfg, d)
  /\ readers' = readers \ {c}
  /\ Goto(c, "idle") /\ call' = [call EXCEPT ![c] = Idle]
  /\ UNCHANGED <<poolVars, configVars, begun>>

-----------------------------------------------------------------------------
(* load_module: the configuration is read ... *)
BeginLoad(l, t) ==
  /\ pc[l] = "idle" /\ made < MaxExecutors
  /\ call' = [call EXCEPT ![l] = Begun(t, ConfigFor(t))]
  /\ effective' = [effective EXCEPT ![l] = {ConfigFor(t)}]
  /\ Goto(l, "make")
  /\ answer' = None
  /\ UNCHANGED <<poolVars, default_config, tool_configs, readers, begun>>

(* ... the factory makes a runtime and load_module an executor for it ...  *)
Make(l) ==
  /\ pc[l] = "make" /\ made < MaxExecutors
  /\ made' = made + 1
  /\ call' = [call EXCEPT ![l].executor = [id |-> made + 1, cfg |-> call[l].cfg]]
  /\ Goto(l, "install")
  /\ answer' = None
  /\ UNCHANGED <<executors, configVars, readers, begun>>

(* ... or throws: the file is missing, or is no module the machine loads,  *)
(* validates and instantiates ...                                          *)
FailToMake(l) ==
  /\ pc[l] = "make"
  /\ call' = [call EXCEPT ![l] = Idle] /\ Goto(l, "idle")
  /\ answer' = None
  /\ UNCHANGED <<poolVars, configVars, readers, begun>>

(* SEEDED FAULT for Install: the executor gets the default configuration. *)
InstallDefault(l) ==
  /\ pc[l] = "install" /\ readers = {}
  /\ executors' = [t \in DOMAIN executors \cup {call[l].tool} |->
                     IF t = call[l].tool
                     THEN [call[l].executor EXCEPT !.cfg = default_config]
                     ELSE executors[t]]
  /\ Goto(l, "idle") /\ call' = [call EXCEPT ![l] = Idle]
  /\ answer' = None
  /\ UNCHANGED <<made, configVars, readers, begun>>

(* SEEDED FAULT for Install: nobody is waited for. *)
InstallAtOnce(l) ==
  /\ pc[l] = "install"
  /\ executors' = [t \in DOMAIN executors \cup {call[l].tool} |->
                     IF t = call[l].tool THEN call[l].executor ELSE executors[t]]
  /\ Goto(l, "idle") /\ call' = [call EXCEPT ![l] = Idle]
  /\ answer' = None
  /\ UNCHANGED <<made, configVars, readers, begun>>

(* ... which replaces the one there was once nobody runs anything. *)
Install(l) ==
  /\ pc[l] = "install" /\ readers = {}
  /\ executors' = [t \in DOMAIN executors \cup {call[l].tool} |->
                     IF t = call[l].tool THEN call[l].executor ELSE executors[t]]
  /\ Goto(l, "idle") /\ call' = [call EXCEPT ![l] = Idle]
  /\ answer' = None
  /\ UNCHANGED <<made, configVars, readers, begun>>

(* unload_module *)
Unload(t) ==
  /\ readers = {} /\ t \in DOMAIN executors
  /\ executors' = [u \in DOMAIN executors \ {t} |-> executors[u]]
  /\ answer' = None
  /\ UNCHANGED <<made, configVars, readers, pc, call, begun>>

(* set_default_config and set_tool_config.  What a loader under way could  *)
(* have read changes with them.                                            *)
SetDefaultConfig(cfg) ==
  /\ default_config' = cfg
  /\ effective' = [l \in Loader |->
       IF pc[l] # "idle" /\ call[l].tool \notin DOMAIN tool_configs
       THEN effective[l] \cup {cfg} ELSE effective[l]]
  /\ answer' = None
  /\ UNCHANGED <<poolVars, tool_configs, readers, pc, call, begun>>

SetToolConfig(t, cfg) ==
  /\ tool_configs' = [u \in DOMAIN tool_configs \cup {t} |->
                        IF u = t THEN cfg ELSE tool_configs[u]]
  /\ effective' = [l \in Loader |->
       IF call[l].tool = t THEN effective[l] \cup {cfg} ELSE effective[l]]
  /\ answer' = None
  /\ UNCHANGED <<poolVars, default_config, readers, pc, call, begun>>

ToolAnswers(c) == \E fate \in Fate, d \in Duration : ToolReturns(c, fate, d)
CallerStep(c) == Refuse(c) \/ Enter(c)
LoaderStep(l) == Make(l) \/ FailToMake(l) \/ Install(l)

Next ==
  \/ \E c \in Caller :
       (\E t \in Tool : Call(c, t)) \/ CallerStep(c) \/ ToolAnswers(c)
  \/ \E l \in Loader : (\E t \in Tool : BeginLoad(l, t)) \/ LoaderStep(l)
  \/ \E t \in Tool : Unload(t) \/ \E cfg \in Config : SetToolConfig(t, cfg)
  \/ \E cfg \in Config : SetDefaultConfig(cfg)

(* Every thread goes on while it can.  What a tool does is not promised.   *)
Fairness ==
  /\ \A c \in Caller : WF_vars(CallerStep(c))
  /\ \A l \in Loader : WF_vars(LoaderStep(l))

Spec == Init /\ [][Next]_vars /\ Fairness

(* All tools return. *)
WellBehaved == Spec /\ \A c \in Caller : WF_vars(ToolAnswers(c))

-----------------------------------------------------------------------------
(* An executor is not freed while a call runs on it: whatever is loaded or *)
(* unloaded meanwhile, the executor a caller is inside of is still in the  *)
(* pool, under the tool it was called for (execute_tool, load_module,      *)
(* unload_module).                                                         *)
RunningIsPooled ==
  \A c \in Caller :
    pc[c] = "run" =>
      /\ call[c].tool \in DOMAIN executors
      /\ executors[call[c].tool] = call[c].executor

(* The configuration of a new executor is one its tool really had while it *)
(* was being loaded, although the lock on configurations is long given     *)
(* back when the executor is installed (load_module).                      *)
LoadedAsConfigured ==
  [][\A l \in Loader : Install(l) =>
       executors'[call[l].tool].cfg \in effective[l]]_vars

(* A success is one: the tool returned 0 in the time of the configuration  *)
(* it was called with, whichever its module was loaded with.  A timeout is *)
(* reported for every call that was too late, but never hides what else    *)
(* the runtime has found (WasmExecutor::execute).                          *)
AnswersTell ==
  [][\A c \in Caller, fate \in Fate, d \in Duration : ToolReturns(c, fate, d) =>
       LET late == d > TimeoutOf[call[c].cfg] /\ TimeoutOf[call[c].cfg] # 0
       IN  /\ answer'.success <=> (fate = "zero" /\ ~late)
           /\ answer'.violation = "TIMEOUT" <=>
                fate = "time" \/ (late /\ fate \notin {"memory", "socket", "file"})
           /\ fate = "memory" => answer'.violation = "MEMORY_EXCEEDED"]_vars

(* When tools return, whoever loads a module gets to install it or fails,  *)
(* and whoever calls a tool gets an answer: nobody waits for ever on the   *)
(* locks, as calls are bounded (executors_mutex_).                         *)
EverybodyReturns ==
  \A th \in Thread : pc[th] # "idle" ~> pc[th] = "idle"
=============================================================================
