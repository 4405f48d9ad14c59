------------------------ MODULE SandboxManagerProofs ------------------------
(***************************************************************************)
(* What holds of a SandboxManager for any tools, threads, configurations   *)
(* and timeouts, whatever the tools do and however long they run.          *)
(***************************************************************************)
EXTENDS SandboxManager, FiniteSetTheorems, TLAPS

(* The callers that wait at the door, each of which counts in begun *)
Entering == {c \in Caller : pc[c] = "enter"}

(* What a thread's locals hold at each place *)
LocalsOK ==
  /\ \A c \in Caller :
       /\ pc[c] \in {"idle", "enter", "run"}
       /\ pc[c] # "idle" => call[c].tool \in Tool /\ call[c].cfg \in Config
       /\ pc[c] = "run" => call[c].executor \in Executor
  /\ \A l \in Loader :
       /\ pc[l] \in {"idle", "make", "install"}
       /\ pc[l] # "idle" => call[l].tool \in Tool /\ call[l].cfg \in Config
       /\ pc[l] = "install" => call[l].executor \in Executor

TypesInv ==
  /\ SandboxTypeOK /\ LocalsOK
  /\ Cardinality(Entering) <= begun
  /\ effective \in [Loader -> SUBSET Config]

LEMMA RangeIs == \A f : Range(f) = {f[x] : x \in DOMAIN f}
BY DEF Range

LEMMA ThreadIs == Caller \subseteq Thread /\ Loader \subseteq Thread
BY DEF Thread

LEMMA ConfigForType ==
  ASSUME SandboxTypeOK, NEW t PROVE ConfigFor(t) \in Config
BY RangeIs DEF SandboxTypeOK, ConfigFor

LEMMA ResultType ==
  ASSUME NEW fate \in Fate, NEW cfg, NEW d
  PROVE  /\ RuntimeResult(fate) \in SandboxResult
         /\ Marked(RuntimeResult(fate), cfg, d) \in SandboxResult
BY DEF Fate, RuntimeResult, Failure, SandboxResult, Violation, Marked

(* One caller more or less at the door changes its count by one.           *)
LEMMA EnteringCount ==
  /\ IsFiniteSet(Entering)
  /\ Cardinality(Entering) \in Nat
  /\ \A c \in Entering : /\ Cardinality(Entering \ {c}) = Cardinality(Entering) - 1
                         /\ Cardinality(Entering) >= 1
  /\ \A c \in Caller \ Entering : Cardinality(Entering \cup {c}) = Cardinality(Entering) + 1
<1>1. IsFiniteSet(Entering)
  BY SandboxAssumption, FS_Subset DEF Entering
<1>2. Cardinality(Entering) \in Nat
  BY <1>1, FS_CardinalityType
<1>3. ASSUME NEW c \in Entering
      PROVE  /\ Cardinality(Entering \ {c}) = Cardinality(Entering) - 1
             /\ Cardinality(Entering) >= 1
  <2>1. Cardinality(Entering) # 0
    BY <1>1, FS_EmptySet
  <2>2. QED
    BY <1>1, <1>2, <2>1, FS_RemoveElement
<1>4. ASSUME NEW c \in Caller \ Entering
      PROVE  Cardinality(Entering \cup {c}) = Cardinality(Entering) + 1
  BY <1>1, FS_AddElement
<1>5. QED
  BY <1>1, <1>2, <1>3, <1>4

-----------------------------------------------------------------------------
(* Type correctness *)

LEMMA TypesInit == Init => TypesInv
<1> SUFFICES ASSUME Init PROVE TypesInv
  OBVIOUS
<1> USE SandboxAssumption, ThreadIs, RangeIs DEF Init
<1>1. Entering = {} /\ Cardinality(Entering) = 0
  BY FS_EmptySet DEF Entering
<1>2. Idle \in Local
  BY DEF Idle, Begun, Local
<1>3. SandboxTypeOK
  BY <1>2 DEF SandboxTypeOK
<1>4. QED
  BY <1>1, <1>3 DEF TypesInv, LocalsOK

(* What a thread leaves of the others, and where it goes                   *)
LEMMA CallStep ==
  ASSUME TypesInv, NEW c \in Caller, NEW t \in Tool, Call(c, t)
  PROVE  TypesInv'
<1> USE SandboxAssumption, ThreadIs DEF TypesInv, SandboxTypeOK, LocalsOK, Goto
<1>1. PICK cfg \in Config : call' = [call EXCEPT ![c] = Begun(t, cfg)]
  BY ConfigForType DEF Call
<1>2. Begun(t, cfg) = [tool |-> t, cfg |-> cfg, executor |-> None]
  BY DEF Begun
<1>3. call' \in [Thread -> Local] /\ call'[c].tool = t /\ call'[c].cfg = cfg
  BY <1>1, <1>2 DEF Local
<1>4. pc' \in [Thread -> {"idle", "enter", "run", "make", "install"}]
      /\ readers' = {d \in Caller : pc'[d] = "run"}
  BY DEF Call
<1>5. Entering' = Entering \cup {c} /\ c \in Caller \ Entering
  BY DEF Call, Entering
<1>6. Cardinality(Entering)' <= begun' /\ begun' \in 0 .. MaxCalls
  BY <1>5, EnteringCount DEF Call
<1>7. LocalsOK'
  BY <1>1, <1>3 DEF Call
<1>8. QED
  BY <1>3, <1>4, <1>6, <1>7, RangeIs DEF Call, poolVars, configVars

(* A step that ends with one thread idle and leaves the rest of the        *)
(* threads, the pool and the configurations as they were                   *)
LEMMA RefuseStep ==
  ASSUME TypesInv, NEW c \in Caller, Refuse(c)
  PROVE  TypesInv'
<1> USE SandboxAssumption, ThreadIs DEF TypesInv, SandboxTypeOK, LocalsOK, Goto
<1>1. call' = [call EXCEPT ![c] = Idle] /\ Idle \in Local
  BY DEF Refuse, Idle, Begun, Local
<1>2. pc' \in [Thread -> {"idle", "enter", "run", "make", "install"}]
      /\ readers' = {d \in Caller : pc'[d] = "run"}
  BY DEF Refuse
<1>3. Entering' = Entering \ {c} /\ c \in Entering
  BY DEF Refuse, Entering
<1>4. Cardinality(Entering)' <= begun' /\ begun' \in 0 .. MaxCalls
  <2>1. /\ begun' = begun - 1 /\ begun \in 0 .. MaxCalls /\ Cardinality(Entering) <= begun
        /\ Cardinality(Entering)' = Cardinality(Entering \ {c})
    BY <1>3 DEF Refuse
  <2>2. /\ Cardinality(Entering \ {c}) = Cardinality(Entering) - 1
        /\ Cardinality(Entering) \in Nat /\ Cardinality(Entering \ {c}) \in Nat
    BY <1>3, EnteringCount
  <2>3. QED
    BY ONLY <2>1, <2>2, SandboxAssumption
<1>5. Failure(None) \in SandboxResult
  BY DEF Failure, SandboxResult
<1>6. LocalsOK'
  BY <1>1 DEF Refuse
<1>7. SandboxTypeOK'
  <2>1. /\ UNCHANGED <<poolVars, configVars>> /\ answer' \in SandboxResult
        /\ call' \in [Thread -> Local]
    BY <1>1, <1>5 DEF Refuse
  <2>2. QED
    BY <1>2, <1>4, <2>1, RangeIs DEF poolVars, configVars
<1>8. QED
  BY <1>4, <1>6, <1>7 DEF Refuse, configVars

LEMMA EnterStep ==
  ASSUME TypesInv, NEW c \in Caller, Enter(c)
  PROVE  TypesInv'
<1> USE SandboxAssumption, ThreadIs DEF TypesInv, SandboxTypeOK, LocalsOK, Goto
<1>1. executors[call[c].tool] \in Executor
  BY RangeIs DEF Enter
<1>2. call' \in [Thread -> Local] /\ call'[c].executor \in Executor
      /\ call'[c].tool = call[c].tool /\ call'[c].cfg = call[c].cfg
  BY <1>1 DEF Enter, Local
<1>3. pc' \in [Thread -> {"idle", "enter", "run", "make", "install"}]
      /\ readers' = {d \in Caller : pc'[d] = "run"}
  BY DEF Enter
<1>4. Entering' = Entering \ {c} /\ c \in Entering
  BY DEF Enter, Entering
<1>5. Cardinality(Entering)' <= begun' /\ begun' \in 0 .. MaxCalls
  BY <1>4, EnteringCount DEF Enter
<1>6. LocalsOK'
  BY <1>2 DEF Enter
<1>7. QED
  BY <1>2, <1>3, <1>5, <1>6, RangeIs DEF Enter, poolVars, configVars

LEMMA ToolReturnsStep ==
  ASSUME TypesInv, NEW c \in Caller, NEW fate \in Fate, NEW d, ToolReturns(c, fate, d)
  PROVE  TypesInv'
<1> USE SandboxAssumption, ThreadIs DEF TypesInv, SandboxTypeOK, LocalsOK, Goto
<1>1. call' = [call EXCEPT ![c] = Idle] /\ Idle \in Local
  BY DEF ToolReturns, Idle, Begun, Local
<1>2. pc' \in [Thread -> {"idle", "enter", "run", "make", "install"}]
      /\ readers' = {e \in Caller : pc'[e] = "run"}
  BY DEF ToolReturns
<1>3. Entering' = Entering /\ begun' = begun
  BY DEF ToolReturns, Entering
<1>4. answer' \in SandboxResult
  BY ResultType DEF ToolReturns
<1>5. LocalsOK'
  BY <1>1 DEF ToolReturns
<1>6. QED
  BY <1>1, <1>2, <1>3, <1>4, <1>5, RangeIs DEF ToolReturns, poolVars, configVars

LEMMA LoadSteps ==
  ASSUME TypesInv, NEW l \in Loader,
         (\E t \in Tool : BeginLoad(l, t)) \/ LoaderStep(l)
  PROVE  TypesInv'
<1> USE SandboxAssumption, ThreadIs DEF TypesInv, SandboxTypeOK, LocalsOK, Goto
<1>1. /\ Entering' = Entering /\ begun' = begun /\ readers' = readers
      /\ pc' \in [Thread -> {"idle", "enter", "run", "make", "install"}]
      /\ \A c \in Caller : pc'[c] = pc[c] /\ call'[c] = call[c]
      /\ answer' = None
  BY DEF BeginLoad, LoaderStep, Make, FailToMake, Install, Entering
<1>2. readers' = {c \in Caller : pc'[c] = "run"}
  BY <1>1
<1>3. ASSUME NEW t \in Tool, BeginLoad(l, t)
      PROVE  TypesInv'
  <2>1. call' = [call EXCEPT ![l] = Begun(t, ConfigFor(t))] /\ ConfigFor(t) \in Config
    BY <1>3, ConfigForType DEF BeginLoad
  <2>2. Begun(t, ConfigFor(t)) \in Local
    BY <2>1 DEF Begun, Local
  <2>3. LocalsOK'
    BY <1>1, <1>3, <2>1 DEF BeginLoad, Begun
  <2>4. effective' \in [Loader -> SUBSET Config]
    BY <1>3, <2>1 DEF BeginLoad
  <2>5. SandboxTypeOK'
    <3>1. call' \in [Thread -> Local]
      BY <2>1, <2>2
    <3>2. UNCHANGED <<poolVars, default_config, tool_configs>>
      BY <1>3 DEF BeginLoad
    <3>3. QED
      BY <1>1, <1>2, <3>1, <3>2, RangeIs DEF poolVars
  <2>6. QED
    BY <1>1, <2>3, <2>4, <2>5
<1>4. CASE Make(l)
  <2>1. made + 1 \in ExecutorId /\ call[l].cfg \in Config
    BY <1>4 DEF Make, ExecutorId
  <2>2. [id |-> made + 1, cfg |-> call[l].cfg] \in Executor
    BY <2>1 DEF Executor
  <2>3. call' \in [Thread -> Local] /\ call'[l].executor \in Executor
        /\ call'[l].tool = call[l].tool /\ call'[l].cfg = call[l].cfg
    <3>1. PICK e \in Executor : call' = [call EXCEPT ![l].executor = e]
      BY <1>4, <2>2 DEF Make
    <3>2. call \in [Thread -> Local] /\ l \in Thread
      OBVIOUS
    <3>3. QED
      BY ONLY <3>1, <3>2 DEF Local
  <2>4. LocalsOK'
    BY <1>1, <1>4, <2>3 DEF Make
  <2>5. QED
    BY <1>1, <1>2, <1>4, <2>3, <2>4, RangeIs DEF Make, configVars
<1>5. CASE FailToMake(l)
  <2>1. Idle \in Local
    BY DEF Idle, Begun, Local
  <2>2. LocalsOK'
    BY <1>1, <1>5 DEF FailToMake
  <2>3. QED
    BY <1>1, <1>2, <1>5, <2>1, <2>2, RangeIs DEF FailToMake, poolVars, configVars
<1>6. CASE Install(l)
  <2>1. Idle \in Local
    BY DEF Idle, Begun, Local
  <2>2. LocalsOK'
    BY <1>1, <1>6 DEF Install
  <2>3. DOMAIN executors' \subseteq Tool /\ \A t \in DOMAIN executors' : executors'[t] \in Executor
    BY <1>6, RangeIs DEF Install
  <2>4. QED
    BY <1>1, <1>2, <1>6, <2>1, <2>2, <2>3, RangeIs DEF Install, configVars
<1>7. QED
  BY <1>3, <1>4, <1>5, <1>6 DEF LoaderStep

LEMMA ManageSteps ==
  ASSUME TypesInv,
         \/ \E t \in Tool : Unload(t) \/ \E cfg \in Config : SetToolConfig(t, cfg)
         \/ \E cfg \in Config : SetDefaultConfig(cfg)
         \/ UNCHANGED vars
  PROVE  TypesInv'
<1> USE SandboxAssumption, ThreadIs, RangeIs DEF TypesInv, SandboxTypeOK, LocalsOK
<1>1. ASSUME NEW t \in Tool, Unload(t) PROVE TypesInv'
  BY <1>1 DEF Unload, Entering, configVars
<1>2. ASSUME NEW t \in Tool, NEW cfg \in Config, SetToolConfig(t, cfg) PROVE TypesInv'
  <2>1. effective' \in [Loader -> SUBSET Config]
    BY <1>2 DEF SetToolConfig
  <2>2. DOMAIN tool_configs' \subseteq Tool /\ \A u \in DOMAIN tool_configs' : tool_configs'[u] \in Config
    BY <1>2 DEF SetToolConfig
  <2>3. QED
    BY <1>2, <2>1, <2>2 DEF SetToolConfig, Entering, poolVars
<1>3. ASSUME NEW cfg \in Config, SetDefaultConfig(cfg) PROVE TypesInv'
  <2>1. effective' \in [Loader -> SUBSET Config]
    BY <1>3 DEF SetDefaultConfig
  <2>2. QED
    BY <1>3, <2>1 DEF SetDefaultConfig, Entering, poolVars
<1>4. CASE UNCHANGED vars
  BY <1>4 DEF vars, Entering
<1>5. QED
  BY <1>1, <1>2, <1>3, <1>4

LEMMA TypesKept == TypesInv /\ [Next]_vars => TypesInv'
BY CallStep, RefuseStep, EnterStep, ToolReturnsStep, LoadSteps, ManageSteps
   DEF Next, CallerStep, ToolAnswers

(* Every variable keeps its type, in whatever order callers and loaders    *)
(* run and however the tools end.                                          *)
THEOREM SandboxTypes == Spec => []SandboxTypeOK
<1>1. TypesInv => SandboxTypeOK
  BY DEF TypesInv
<1>2. QED
  BY TypesInit, TypesKept, <1>1, PTL DEF Spec

-----------------------------------------------------------------------------
(* The executors *)

LEMMA PooledStep ==
  ASSUME TypesInv, RunningIsPooled, [Next]_vars
  PROVE  RunningIsPooled'
<1> USE SandboxAssumption, ThreadIs
    DEF TypesInv, SandboxTypeOK, LocalsOK, RunningIsPooled, Goto
<1>1. ASSUME UNCHANGED executors, NEW c \in Caller,
             \A d \in Caller \ {c} : pc'[d] = pc[d] /\ call'[d] = call[d],
             pc'[c] # "run"
      PROVE  RunningIsPooled'
  BY <1>1
<1>2. ASSUME NEW c \in Caller, NEW t \in Tool, Call(c, t)
      PROVE  RunningIsPooled'
  BY <1>1, <1>2 DEF Call, poolVars
<1>3. ASSUME NEW c \in Caller, Refuse(c) \/ ToolAnswers(c)
      PROVE  RunningIsPooled'
  BY <1>1, <1>3 DEF Refuse, ToolAnswers, ToolReturns, poolVars
<1>4. ASSUME NEW c \in Caller, Enter(c)
      PROVE  RunningIsPooled'
  <2>1. /\ executors' = executors
        /\ \A d \in Caller \ {c} : pc'[d] = pc[d] /\ call'[d] = call[d]
        /\ call'[c].tool = call[c].tool
        /\ call'[c].executor = executors[call[c].tool]
        /\ call[c].tool \in DOMAIN executors
    BY <1>4 DEF Enter, poolVars, Local
  <2>2. /\ call'[c].tool \in DOMAIN executors'
        /\ executors'[call'[c].tool] = call'[c].executor
    BY <2>1
  <2>3. ASSUME NEW d \in Caller \ {c}, pc'[d] = "run"
        PROVE  /\ call'[d].tool \in DOMAIN executors'
               /\ executors'[call'[d].tool] = call'[d].executor
    BY <2>1, <2>3
  <2>4. QED
    BY <2>2, <2>3
<1>5. ASSUME \A c \in Caller : pc'[c] = pc[c] /\ call'[c] = call[c],
             executors' = executors \/ readers = {}
      PROVE  RunningIsPooled'
  BY <1>5
<1>6. ASSUME NEW l \in Loader, (\E t \in Tool : BeginLoad(l, t)) \/ LoaderStep(l)
      PROVE  RunningIsPooled'
  <2>1. \A c \in Caller : pc'[c] = pc[c] /\ call'[c] = call[c]
    BY <1>6 DEF BeginLoad, LoaderStep, Make, FailToMake, Install
  <2>2. executors' = executors \/ readers = {}
    BY <1>6 DEF BeginLoad, LoaderStep, Make, FailToMake, Install, poolVars
  <2>3. QED
    BY <1>5, <2>1, <2>2
<1>7. ASSUME \/ \E t \in Tool : Unload(t) \/ \E cfg \in Config : SetToolConfig(t, cfg)
             \/ \E cfg \in Config : SetDefaultConfig(cfg)
             \/ UNCHANGED vars
      PROVE  RunningIsPooled'
  <2>1. (executors' = executors \/ readers = {}) /\ UNCHANGED <<pc, call>>
    BY <1>7 DEF Unload, SetToolConfig, SetDefaultConfig, vars, poolVars
  <2>2. QED
    BY <1>5, <2>1
<1>8. QED
  BY <1>2, <1>3, <1>4, <1>6, <1>7 DEF Next, CallerStep

(* The executor a call runs on is still the one of its tool in the pool,   *)
(* with any number of callers and loaders (execute_tool, load_module,      *)
(* unload_module).                                                         *)
THEOREM RunningStaysPooled == Spec => []RunningIsPooled
<1>1. Init => RunningIsPooled
  BY ThreadIs DEF Init, RunningIsPooled
<1>2. TypesInv /\ RunningIsPooled /\ [Next]_vars => RunningIsPooled'
  BY PooledStep
<1>3. QED
  BY TypesInit, TypesKept, <1>1, <1>2, PTL DEF Spec

(* LoadedAsConfigured is about one step; what that step installs was       *)
(* decided three steps earlier, under a lock long given back.              *)
LoadsCurrent ==
  \A l \in Loader :
    /\ pc[l] \in {"make", "install"} =>
         /\ call[l].cfg \in effective[l]
         /\ ConfigFor(call[l].tool) \in effective[l]
    /\ pc[l] = "install" => call[l].executor.cfg = call[l].cfg

LEMMA LoadsStep ==
  ASSUME TypesInv, LoadsCurrent, [Next]_vars
  PROVE  LoadsCurrent'
<1> USE SandboxAssumption, ThreadIs
    DEF TypesInv, SandboxTypeOK, LocalsOK, LoadsCurrent, Goto
<1>1. ASSUME UNCHANGED configVars, NEW th \in Thread,
             \A l \in Loader \ {th} : pc'[l] = pc[l] /\ call'[l] = call[l],
             th \in Loader => pc'[th] = "idle"
      PROVE  LoadsCurrent'
  BY <1>1 DEF configVars, ConfigFor
<1>2. ASSUME NEW c \in Caller, (\E t \in Tool : Call(c, t)) \/ CallerStep(c) \/ ToolAnswers(c)
      PROVE  LoadsCurrent'
  <2>1. UNCHANGED configVars /\ \A l \in Loader : pc'[l] = pc[l] /\ call'[l] = call[l]
    BY <1>2 DEF Call, CallerStep, Refuse, Enter, ToolAnswers, ToolReturns
  <2>2. QED
    BY <1>1, <2>1
<1>3. ASSUME NEW l \in Loader, NEW t \in Tool, BeginLoad(l, t)
      PROVE  LoadsCurrent'
  <2>1. /\ pc' = [pc EXCEPT ![l] = "make"] /\ call' = [call EXCEPT ![l] = Begun(t, ConfigFor(t))]
        /\ effective' = [effective EXCEPT ![l] = {ConfigFor(t)}]
        /\ UNCHANGED <<default_config, tool_configs>>
    BY <1>3 DEF BeginLoad
  <2>2. \A u : ConfigFor(u)' = ConfigFor(u)
    BY <2>1 DEF ConfigFor
  <2>3. QED
    BY <2>1, <2>2 DEF Begun
<1>4. ASSUME NEW l \in Loader, Make(l)
      PROVE  LoadsCurrent'
  <2>1. /\ pc' = [pc EXCEPT ![l] = "install"] /\ pc[l] = "make"
        /\ call'[l].cfg = call[l].cfg /\ call'[l].tool = call[l].tool
        /\ call'[l].executor.cfg = call[l].cfg
        /\ \A k \in Loader \ {l} : call'[k] = call[k]
        /\ UNCHANGED configVars
    BY <1>4 DEF Make, Local
  <2>2. QED
    BY <2>1 DEF configVars, ConfigFor
<1>5. ASSUME NEW l \in Loader, FailToMake(l) \/ Install(l)
      PROVE  LoadsCurrent'
  BY <1>1, <1>5 DEF FailToMake, Install
<1>6. ASSUME NEW t \in Tool, NEW cfg \in Config, SetToolConfig(t, cfg)
      PROVE  LoadsCurrent'
  <2>1. /\ UNCHANGED <<pc, call, default_config>>
        /\ tool_configs' = [u \in DOMAIN tool_configs \cup {t} |->
                              IF u = t THEN cfg ELSE tool_configs[u]]
        /\ \A l \in Loader : effective'[l] = IF call[l].tool = t
                                             THEN effective[l] \cup {cfg} ELSE effective[l]
    BY <1>6 DEF SetToolConfig
  <2>2. \A u : ConfigFor(u)' = IF u = t THEN cfg ELSE ConfigFor(u)
    BY <2>1 DEF ConfigFor
  <2>3. QED
    BY <2>1, <2>2
<1>7. ASSUME NEW cfg \in Config, SetDefaultConfig(cfg)
      PROVE  LoadsCurrent'
  <2>1. /\ UNCHANGED <<pc, call, tool_configs>> /\ default_config' = cfg
        /\ \A l \in Loader : effective'[l] =
             IF pc[l] # "idle" /\ call[l].tool \notin DOMAIN tool_configs
             THEN effective[l] \cup {cfg} ELSE effective[l]
    BY <1>7 DEF SetDefaultConfig
  <2>2. \A u : ConfigFor(u)' = IF u \in DOMAIN tool_configs THEN ConfigFor(u) ELSE cfg
    BY <2>1 DEF ConfigFor
  <2>3. QED
    BY <2>1, <2>2
<1>8. ASSUME (\E t \in Tool : Unload(t)) \/ UNCHANGED vars
      PROVE  LoadsCurrent'
  BY <1>8 DEF Unload, vars, configVars, ConfigFor
<1>9. QED
  BY <1>2, <1>3, <1>4, <1>5, <1>6, <1>7, <1>8 DEF Next, LoaderStep

(* A module is installed with a configuration its tool had while it was    *)
(* being loaded, however often configurations change meanwhile             *)
(* (load_module, set_tool_config, set_default_config).                     *)
THEOREM LoadedCorrectly == Spec => LoadedAsConfigured
<1>1. Init => LoadsCurrent
  BY ThreadIs DEF Init, LoadsCurrent
<1>2. TypesInv /\ LoadsCurrent /\ [Next]_vars => LoadsCurrent'
  BY LoadsStep
<1>3. ASSUME TypesInv, LoadsCurrent, NEW l \in Loader, Install(l)
      PROVE  executors'[call[l].tool].cfg \in effective[l]
  <2>1. executors'[call[l].tool] = call[l].executor /\ pc[l] = "install"
    BY <1>3 DEF Install
  <2>2. QED
    BY <1>3, <2>1 DEF LoadsCurrent
<1>4. TypesInv /\ LoadsCurrent =>
        [\A l \in Loader : Install(l) => executors'[call[l].tool].cfg \in effective[l]]_vars
  BY <1>3
<1>5. QED
  BY TypesInit, TypesKept, <1>1, <1>2, <1>4, PTL DEF Spec, LoadedAsConfigured

-----------------------------------------------------------------------------
(* The answers *)

LEMMA RuntimeResultIs ==
  ASSUME NEW fate \in Fate
  PROVE  /\ RuntimeResult(fate).success <=> fate = "zero"
         /\ RuntimeResult(fate).violation \in Violation \cup {None}
         /\ RuntimeResult(fate).violation = "TIMEOUT" <=> fate = "time"
         /\ RuntimeResult(fate).violation = "MEMORY_EXCEEDED" <=> fate = "memory"
         /\ RuntimeResult(fate).violation = None <=> fate \in {"zero", "error code", "other trap"}
<1>1. /\ RuntimeResult("zero") = [success |-> TRUE, violation |-> None]
      /\ RuntimeResult("error code") = Failure(None)
      /\ RuntimeResult("other trap") = Failure(None)
      /\ RuntimeResult("time") = Failure("TIMEOUT")
      /\ RuntimeResult("memory") = Failure("MEMORY_EXCEEDED")
      /\ RuntimeResult("socket") = Failure("NETWORK_DENIED")
      /\ RuntimeResult("file") = Failure("FILE_ACCESS_DENIED")
  BY DEF RuntimeResult
<1>2. fate \in {"zero", "error code", "time", "memory", "socket", "file", "other trap"}
  BY DEF Fate
<1>3. RuntimeResult(fate).success <=> fate = "zero"
  <2>1. RuntimeResult("zero").success
    <3>1. [success |-> TRUE, violation |-> None].success
      BY Zenon
    <3>2. QED
      BY <1>1, <3>1, Zenon
  <2>2. \A v : ~Failure(v).success
    BY Zenon DEF Failure
  <2>3. QED
    BY <1>1, <1>2, <2>1, <2>2, Zenon
<1>4. /\ RuntimeResult("zero").violation = None
      /\ RuntimeResult("error code").violation = None
      /\ RuntimeResult("other trap").violation = None
      /\ RuntimeResult("time").violation = "TIMEOUT"
      /\ RuntimeResult("memory").violation = "MEMORY_EXCEEDED"
      /\ RuntimeResult("socket").violation = "NETWORK_DENIED"
      /\ RuntimeResult("file").violation = "FILE_ACCESS_DENIED"
  <2>1. [success |-> TRUE, violation |-> None].violation = None
    BY Zenon
  <2>2. \A v : Failure(v).violation = v
    BY Zenon DEF Failure
  <2>3. QED
    BY <1>1, <2>1, <2>2, Zenon
<1>5. QED
  BY <1>2, <1>3, <1>4, SandboxAssumption DEF Violation

(* A success is a tool that returned 0 in time, a timeout is told of every *)
(* call that was late, and what else the runtime found is never lost,      *)
(* whatever the configurations and durations (WasmExecutor::execute,       *)
(* WasmEdgeRuntime::execute).                                              *)
THEOREM AnswersAlwaysTell == Spec => AnswersTell
<1> DEFINE Late1(c, d) == d > TimeoutOf[call[c].cfg] /\ TimeoutOf[call[c].cfg] # 0
           Tells(c, fate, d) ==
             /\ answer'.success <=> (fate = "zero" /\ ~Late1(c, d))
             /\ answer'.violation = "TIMEOUT" <=>
                  fate = "time" \/ (Late1(c, d) /\ fate \notin {"memory", "socket", "file"})
             /\ fate = "memory" => answer'.violation = "MEMORY_EXCEEDED"
<1>1. ASSUME TypesInv, NEW c \in Caller, NEW fate \in Fate, NEW d \in Duration,
             ToolReturns(c, fate, d)
      PROVE  Tells(c, fate, d)
  <2>1. answer' = Marked(RuntimeResult(fate), call[c].cfg, d)
    BY <1>1 DEF ToolReturns
  <2>2. TimeoutOf[call[c].cfg] \in Nat /\ d \in Nat
    BY <1>1, SandboxAssumption DEF ToolReturns, TypesInv, LocalsOK
  <2>3. Late(call[c].cfg, d) <=> Late1(c, d)
    BY <2>2 DEF Late
  <2>4. CASE Late1(c, d) /\ RuntimeResult(fate).violation = None
    <3>1. answer' = Failure("TIMEOUT")
      BY <2>1, <2>3, <2>4 DEF Marked
    <3>2. QED
      BY <2>4, <3>1, RuntimeResultIs DEF Failure
  <2>5. CASE ~(Late1(c, d) /\ RuntimeResult(fate).violation = None)
    <3>1. answer' = RuntimeResult(fate)
      BY <2>1, <2>3, <2>5 DEF Marked
    <3>2. QED
      BY <2>5, <3>1, RuntimeResultIs, SandboxAssumption DEF Fate
  <2>6. QED
    BY <2>4, <2>5
<1>2. TypesInv =>
        [\A c \in Caller, fate \in Fate, d \in Duration : ToolReturns(c, fate, d) =>
           LET late == d > TimeoutOf[call[c].cfg] /\ TimeoutOf[call[c].cfg] # 0
           IN  /\ answer'.success <=> (fate = "zero" /\ ~late)
               /\ answer'.violation = "TIMEOUT" <=>
                    fate = "time" \/ (late /\ fate \notin {"memory", "socket", "file"})
               /\ fate = "memory" => answer'.violation = "MEMORY_EXCEEDED"]_vars
  BY <1>1
<1>3. QED
  BY TypesInit, TypesKept, <1>2, PTL DEF Spec, AnswersTell
=============================================================================
