------------------------------ MODULE MCParts -------------------------------
(***************************************************************************)
(* The sequential parts, which share nothing: graphs and their files (in   *)
(* the instance of MCPolicyFiles), the validator's cache, the loops over   *)
(* calls, the search for a path, and the configuration.  In a behaviour    *)
(* one of them moves and the others stay as they began.                    *)
(*                                                                         *)
(* The loops: a source, a processor, a normal tool, a destination and a    *)
(* tool the graph does not know.  The search: five nodes, with loops,      *)
(* short cuts and ways back.  The configuration: integers of three and     *)
(* four bits, and limits that leave room below, above and beyond a wrap.   *)
(***************************************************************************)
EXTENDS MCPolicyFiles, LRUCache, PolicyLoops, PathSearch, Config, TLC

TypesByTool == "db" :> "SENSITIVE_SOURCE" @@ "fix" :> "DATA_PROCESSOR"
               @@ "log" :> "NORMAL" @@ "net" :> "EXTERNAL_DESTINATION"
SameNames == [t \in DOMAIN TypesByTool |-> t]

(* Twice in a row, three times for the normal tool, never for the processor *)
MCThresholdOf == [t \in Tool |-> CASE t = "log" -> 3 [] t = "fix" -> 0 [] OTHER -> 2]

MCPair == {<<"a", "b">>, <<"a", "c">>, <<"b", "b">>, <<"b", "e">>, <<"c", "b">>,
           <<"c", "d">>, <<"d", "a">>, <<"d", "e">>, <<"e", "c">>}
MCEnds == {<<"a", "e">>, <<"b", "d">>, <<"e", "b">>, <<"a", "a">>}

-----------------------------------------------------------------------------
MCLowest == "memory_limit_mb" :> 1 @@ "timeout_ms" :> 2
MCHighest == "memory_limit_mb" :> 4 @@ "timeout_ms" :> 5

MCDefault ==
  [f \in CountField |-> 3] @@ [f \in LimitField |-> 3]
  @@ [f \in FlagField |-> f # "network_access"] @@ [f \in TextField |-> ""]
  @@ "level" :> "INFO" @@ "format" :> "text" @@ "allowed_paths" :> <<>>
  @@ [f \in {"environment_vars", "per_tool_thresholds"} |-> <<>>]

(* One field of a file: numbers below 0, in range, above it, and beyond a  *)
(* wrap; members of the right kind and of a wrong one *)
Samples(f) ==
  CASE f \in LimitField ->
         {Number(n) : n \in {-6, -1, 0, 1, 4, 5, 6, 10, 18}}
         \cup {Float(-1), Float(4), Float(20), Flag(TRUE)}
    [] f = "default_threshold" -> {Number(-1), Number(0), Number(9), Float(2)}
    [] f = "network_access" -> {Flag(TRUE), Number(1)}
    [] f = "output" -> {Text("guardian.log")}
    [] f = "level" -> {Text("DEBUG"), Text("VERBOSE")}
    [] f = "format" -> {Text("json"), Number(0)}
    [] f = "allowed_paths" ->
         {Array(<<Text("data"), Text("tmp")>>), Array(<<Text("data"), Number(1)>>)}
    [] f = "environment_vars" ->
         {Object("HOME" :> Text("data")), Object("HOME" :> Number(1)), Text("HOME")}
    [] f = "per_tool_thresholds" ->
         {Object("db" :> Number(-1) @@ "net" :> Flag(TRUE)), Object("db" :> Float(9)),
          Object("db" :> Text("9"))}
    [] OTHER -> {}

(* One field at a time, and a file that throws at its second *)
MCConfigFiles ==
  UNION {{[g \in {f} |-> v] : v \in Samples(f)} : f \in Field}
  \cup {"default_threshold" :> Number(5) @@ "environment_vars" :> Object("HOME" :> Number(1)),
        "timeout_ms" :> Number(5) @@ "network_access" :> Flag(TRUE)}

-----------------------------------------------------------------------------
VARIABLE part    \* the part that moves

Init ==
  /\ FilesInit /\ CacheInit /\ LoopsInit /\ SearchInit /\ ConfigInit
  /\ part \in {"files", "cache", "loops", "search", "config"}

Next ==
  /\ UNCHANGED part
  /\ \/ /\ part = "files" /\ FilesNext
        /\ UNCHANGED <<cacheVars, loopsVars, pathVars, configVars>>
     \/ /\ part = "cache" /\ CacheNext
        /\ UNCHANGED <<policyFilesVars, loopsVars, pathVars, configVars>>
     \/ /\ part = "loops" /\ LoopsNext
        /\ UNCHANGED <<policyFilesVars, cacheVars, pathVars, configVars>>
     \/ /\ part = "search" /\ SearchNext
        /\ UNCHANGED <<policyFilesVars, cacheVars, loopsVars, configVars>>
     \/ /\ part = "config" /\ ConfigNext
        /\ UNCHANGED <<policyFilesVars, cacheVars, loopsVars, pathVars>>

Spec ==
  Init /\ [][Next]_<<part, policyFilesVars, cacheVars, loopsVars, pathVars, configVars>>
=============================================================================
