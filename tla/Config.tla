------------------------------- MODULE Config -------------------------------
(***************************************************************************)
(* Config (src/src/config.cpp): reading a configuration file and writing   *)
(* one, and what a Guardian (src/src/guardian.cpp) does with it: its       *)
(* constructor, update_config and set_default_sandbox_config.              *)
(*                                                                         *)
(* A file is a function from the fields it has to JSON values; a field of  *)
(* a section that is missing or no object is a field the file lacks.  A    *)
(* JSON value is a record of its kind and its content.  The library's      *)
(* get<uint32_t> and get<uint64_t> convert any number by a static_cast: an *)
(* integer wraps, and a float that does not fit is undefined behaviour,    *)
(* here any value of the type.                                             *)
(***************************************************************************)
EXTENDS Integers

CONSTANTS
  UInt32, UInt64,   \* 2^32 and 2^64; small in a model
  Lowest, Highest,  \* per limit: the range that is accepted
  Default,          \* make_default_config
  Unreadable,       \* a file that is missing, cannot be opened or is no JSON
  ConfigFiles       \* BOUND: the files that are written

Levels == {"DEBUG", "INFO", "WARN", "ERROR"}
Formats == {"text", "json"}

CountField == {"default_threshold", "cache_size", "wasm_cache_size"}
LimitField == {"memory_limit_mb", "timeout_ms"}
FlagField == {"network_access", "enable_string_interning", "wasm_module_caching"}
TextField == {"output", "default_policy_path", "wasm_tools_dir"}
SandboxField ==
  LimitField \cup {"network_access", "allowed_paths", "environment_vars"}
Field == CountField \cup FlagField \cup TextField \cup SandboxField
         \cup {"per_tool_thresholds", "level", "format"}

(* The width of the integer a limit is read into *)
Width(f) == IF f = "memory_limit_mb" THEN UInt64 ELSE UInt32

(* What a field holds once a file was read; a limit, its range *)
InType(f, x) ==
  CASE f \in CountField -> x \in 0 .. UInt32 - 1
    [] f \in FlagField -> x \in BOOLEAN
    [] f \in TextField -> x \in STRING
    [] f = "level" -> x \in Levels
    [] f = "format" -> x \in Formats
    [] f \in {"allowed_paths", "environment_vars"} -> x \in [DOMAIN x -> STRING]
    [] f = "per_tool_thresholds" -> x \in [DOMAIN x -> 0 .. UInt32 - 1]

Fits(f, x) == IF f \in LimitField THEN x \in Lowest[f] .. Highest[f] ELSE InType(f, x)

(* A fact about the literals above that the provers do not know by themselves *)
ASSUME WordsAssumption == Levels \cup Formats \subseteq STRING

ASSUME ConfigAssumption ==
  /\ UInt32 \in Nat \ {0, 1} /\ UInt64 \in Nat /\ UInt32 <= UInt64
  /\ \A f \in LimitField :
       Lowest[f] \in Nat /\ Highest[f] \in Nat /\ Highest[f] < Width(f)
  /\ DOMAIN Default = Field /\ Default = [f \in Field |-> Default[f]]
  /\ \A f \in Field : Fits(f, Default[f])

VARIABLES
  config_file,      \* the configuration file
  config,           \* config_ of the Guardian
  threshold,        \* cycle_threshold_ of its validator
  sandbox_default   \* default_config_ of its sandbox manager

configVars == <<config_file, config, threshold, sandbox_default>>

-----------------------------------------------------------------------------
(* JSON values *)
Float(n) == [kind |-> "float", number |-> n]     \* n: rounded towards zero
Number(n) == [kind |-> IF n < 0 THEN "integer" ELSE "unsigned", number |-> n]
Flag(b) == [kind |-> "boolean", flag |-> b]
Text(s) == [kind |-> "string", text |-> s]
Array(members) == [kind |-> "array", members |-> members]
Object(members) == [kind |-> "object", members |-> members]

IsNumber(v) == v.kind \in {"unsigned", "integer", "float"}

(* A value that is no array and no object, and any value.  What is nested  *)
(* deeper than that is a member of a wrong kind, as null is.               *)
IsScalar(v) ==
  \/ IsNumber(v) /\ v.number \in Int
  \/ v.kind = "boolean" /\ v.flag \in BOOLEAN
  \/ v.kind = "string" /\ v.text \in STRING
  \/ v.kind = "null"

IsJson(v) ==
  \/ IsScalar(v)
  \/ v.kind \in {"array", "object"} /\ \A i \in DOMAIN v.members : IsScalar(v.members[i])

IsDocument(doc) == DOMAIN doc \subseteq Field /\ \A f \in DOMAIN doc : IsJson(doc[f])

ASSUME ConfigFilesAssumption == Unreadable \notin ConfigFiles /\ \A doc \in ConfigFiles : IsDocument(doc)

(* get of an unsigned type of so many values; any is what the cast of a    *)
(* float that does not fit happens to give.                                *)
Converted(v, width, any) ==
  CASE v.kind = "boolean" -> IF v.flag THEN 1 ELSE 0
    [] v.kind = "float" /\ v.number \notin 0 .. width - 1 -> any % width
    [] OTHER -> v.number % width

(* The get of a collection throws when a member is of another kind. *)
BadMembers(f, v) ==
  \E i \in DOMAIN v.members :
    IF f = "per_tool_thresholds"
    THEN ~IsNumber(v.members[i]) /\ v.members[i].kind # "boolean"
    ELSE v.members[i].kind # "string"

KindOf(f) ==
  CASE f \in CountField -> {"unsigned"}
    [] f \in LimitField -> {"unsigned", "integer", "float"}
    [] f \in FlagField -> {"boolean"}
    [] f \in TextField \cup {"level", "format"} -> {"string"}
    [] f = "allowed_paths" -> {"array"}
    [] f \in {"environment_vars", "per_tool_thresholds"} -> {"object"}

Throws(doc) ==
  \E f \in DOMAIN doc :
    /\ f \in {"allowed_paths", "environment_vars", "per_tool_thresholds"}
    /\ doc[f].kind \in KindOf(f)
    /\ BadMembers(f, doc[f])

(* SEEDED FAULT for Limited: the lower end is not looked at. *)
LimitedAbove(f, val) == IF val <= Highest[f] THEN val ELSE Default[f]

(* A limit out of its range is given up for the default. *)
Limited(f, val) == IF val \in Lowest[f] .. Highest[f] THEN val ELSE Default[f]

(* The value of a field that has the right kind *)
Taken(f, v, any) ==
  CASE f \in CountField -> Converted(v, UInt32, any)
    [] f \in FlagField -> v.flag
    [] f \in TextField -> v.text
    [] f = "level" -> IF v.text \in Levels THEN v.text ELSE Default[f]
    [] f = "format" -> IF v.text \in Formats THEN v.text ELSE Default[f]
    [] f \in {"allowed_paths", "environment_vars"} ->
         [i \in DOMAIN v.members |-> v.members[i].text]
    [] f = "per_tool_thresholds" ->
         [i \in DOMAIN v.members |-> Converted(v.members[i], UInt32, any)]

Accepted(f, v, any) ==
  IF f \in LimitField THEN Limited(f, Converted(v, Width(f), any)) ELSE Taken(f, v, any)

(* from_json of a document that does not make it throw *)
FromJson(doc, any) ==
  [f \in Field |-> IF f \in DOMAIN doc /\ doc[f].kind \in KindOf(f)
                   THEN Accepted(f, doc[f], any) ELSE Default[f]]

LoadConfig(any) == IF config_file = Unreadable THEN Default ELSE FromJson(config_file, any)

(* to_json, of one field *)
JsonOf(f, x) ==
  CASE f \in CountField \cup LimitField -> Number(x)
    [] f \in FlagField -> Flag(x)
    [] f \in TextField \cup {"level", "format"} -> Text(x)
    [] f = "allowed_paths" -> Array([i \in DOMAIN x |-> Text(x[i])])
    [] f = "environment_vars" -> Object([i \in DOMAIN x |-> Text(x[i])])
    [] f = "per_tool_thresholds" -> Object([i \in DOMAIN x |-> Number(x[i])])

(* SEEDED FAULT for ConfigToJson: a field is forgotten. *)
ConfigToJsonWithoutPaths(c) == [f \in Field \ {"allowed_paths"} |-> JsonOf(f, c[f])]

ConfigToJson(c) == [f \in Field |-> JsonOf(f, c[f])]

-----------------------------------------------------------------------------
SandboxOf(c) == [f \in SandboxField |-> c[f]]

(* A Guardian without a configuration file, and none written yet *)
ConfigInit ==
  /\ config_file = Unreadable
  /\ config = Default
  /\ threshold = Default["default_threshold"]
  /\ sandbox_default = SandboxOf(Default)

(* A file comes from outside, one in a behaviour (BOUND), or is to_json's. *)
WriteFile ==
  /\ \/ config_file = Unreadable /\ config_file' \in ConfigFiles
     \/ config_file' = ConfigToJson(config)
  /\ UNCHANGED <<config, threshold, sandbox_default>>

CanLoad == config_file # Unreadable => ~Throws(config_file)

(* The constructor.  What the file says of the sandbox goes no further     *)
(* than config_; the manager starts with safe_defaults.                    *)
Construct(any) ==
  /\ CanLoad
  /\ config' = LoadConfig(any)
  /\ threshold' = config'["default_threshold"]
  /\ sandbox_default' = SandboxOf(Default)
  /\ UNCHANGED config_file

(* SEEDED FAULT for UpdateConfig: the validator is not told. *)
UpdateConfigOnly(any) ==
  /\ CanLoad
  /\ config' = LoadConfig(any)
  /\ sandbox_default' = SandboxOf(config')
  /\ UNCHANGED <<config_file, threshold>>

(* update_config with a configuration that was read from the file *)
UpdateConfig(any) ==
  /\ CanLoad
  /\ config' = LoadConfig(any)
  /\ threshold' = config'["default_threshold"]
  /\ sandbox_default' = SandboxOf(config')
  /\ UNCHANGED config_file

(* set_default_sandbox_config: the call that would tell the manager is     *)
(* commented out.                                                          *)
SetDefaultSandboxConfig(any) ==
  /\ CanLoad
  /\ config' = [f \in Field |-> IF f \in SandboxField THEN LoadConfig(any)[f] ELSE config[f]]
  /\ UNCHANGED <<config_file, threshold, sandbox_default>>

ConfigNext ==
  \/ WriteFile
  \/ \E any \in 0 .. UInt64 - 1 :
       Construct(any) \/ UpdateConfig(any) \/ SetDefaultSandboxConfig(any)

ConfigSpec == ConfigInit /\ [][ConfigNext]_configVars

-----------------------------------------------------------------------------
ConfigTypeOK ==
  /\ config = [f \in Field |-> config[f]]
  /\ \A f \in Field : Fits(f, config[f])

(* Whatever the files say, negative, too large, fractional or of another   *)
(* kind, the memory and the time a tool is given by default stay within    *)
(* the ranges from_json checks, in config_ and in the sandbox manager, and *)
(* the threshold calls are counted against is the one get_config tells.    *)
LimitsHold ==
  /\ \A f \in LimitField : /\ config[f] \in Lowest[f] .. Highest[f]
                           /\ sandbox_default[f] \in Lowest[f] .. Highest[f]
  /\ threshold = config["default_threshold"]

(* A configuration in use, written by to_json, is read back as it was:     *)
(* from_json throws at nothing it accepted before and checks no value away.*)
ConfigRoundTrip ==
  LET doc == ConfigToJson(config)
  IN  ~Throws(doc) /\ \A any \in 0 .. UInt64 - 1 : FromJson(doc, any) = config
=============================================================================
