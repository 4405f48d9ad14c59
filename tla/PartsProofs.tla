---------------------------- MODULE PartsProofs -----------------------------
(***************************************************************************)
(* What holds of the sequential parts for every value of their constants:  *)
(* of the configuration for integers of any width, any ranges and any      *)
(* files, of the LRU cache for any keys, any values and any size, of the   *)
(* loops over calls for any policy, any thresholds and any sequence, and   *)
(* of the search for a path for any graph.                                 *)
(***************************************************************************)
EXTENDS LRUCache, Config, PolicyLoops, PathSearch, FiniteSetTheorems, SequenceTheorems,
        WellFoundedInduction, TLAPS

(***************************************************************************)
(* The configuration                                                       *)
(***************************************************************************)
LEMMA Fields ==
  /\ LimitField \subseteq Field /\ SandboxField \subseteq Field
  /\ LimitField \subseteq SandboxField
  /\ "default_threshold" \in Field /\ "default_threshold" \notin SandboxField
BY DEF Field, SandboxField, LimitField, CountField, FlagField, TextField

(* Each kind of field: what it may hold, which JSON values it is read from, *)
(* what is taken of one and what is written.                                *)
LEMMA CountRules ==
  ASSUME NEW f \in CountField
  PROVE  /\ KindOf(f) = {"unsigned"}
         /\ \A x : (Fits(f, x) <=> x \in 0 .. UInt32 - 1) /\ JsonOf(f, x) = Number(x)
         /\ \A v, any : Accepted(f, v, any) = Converted(v, UInt32, any)
BY Zenon DEF CountField, LimitField, FlagField, TextField, KindOf, Fits, InType, JsonOf,
             Accepted, Taken

LEMMA RangeRules ==
  ASSUME NEW f \in LimitField
  PROVE  /\ KindOf(f) = {"unsigned", "integer", "float"}
         /\ \A x : (Fits(f, x) <=> x \in Lowest[f] .. Highest[f]) /\ JsonOf(f, x) = Number(x)
         /\ \A v, any : Accepted(f, v, any) = Limited(f, Converted(v, Width(f), any))
BY Zenon DEF CountField, LimitField, FlagField, TextField, KindOf, Fits, JsonOf, Accepted

LEMMA FlagRules ==
  ASSUME NEW f \in FlagField
  PROVE  /\ KindOf(f) = {"boolean"}
         /\ \A x : (Fits(f, x) <=> x \in BOOLEAN) /\ JsonOf(f, x) = Flag(x)
         /\ \A v, any : Accepted(f, v, any) = v.flag
BY Zenon DEF CountField, LimitField, FlagField, TextField, KindOf, Fits, InType, JsonOf,
             Accepted, Taken

LEMMA TextRules ==
  ASSUME NEW f \in TextField
  PROVE  /\ KindOf(f) = {"string"}
         /\ \A x : (Fits(f, x) <=> x \in STRING) /\ JsonOf(f, x) = Text(x)
         /\ \A v, any : Accepted(f, v, any) = v.text
BY Zenon DEF CountField, LimitField, FlagField, TextField, KindOf, Fits, InType, JsonOf,
             Accepted, Taken

LEMMA LevelRules ==
  /\ KindOf("level") = {"string"}
  /\ \A x : (Fits("level", x) <=> x \in Levels) /\ JsonOf("level", x) = Text(x)
  /\ \A v, any : Accepted("level", v, any) =
                   IF v.text \in Levels THEN v.text ELSE Default["level"]
BY Zenon DEF CountField, LimitField, FlagField, TextField, KindOf, Fits, InType, JsonOf,
             Accepted, Taken

LEMMA FormatRules ==
  /\ KindOf("format") = {"string"}
  /\ \A x : (Fits("format", x) <=> x \in Formats) /\ JsonOf("format", x) = Text(x)
  /\ \A v, any : Accepted("format", v, any) =
                   IF v.text \in Formats THEN v.text ELSE Default["format"]
BY Zenon DEF CountField, LimitField, FlagField, TextField, KindOf, Fits, InType, JsonOf,
             Accepted, Taken

LEMMA PathsRules ==
  /\ KindOf("allowed_paths") = {"array"}
  /\ \A x : /\ Fits("allowed_paths", x) <=> x \in [DOMAIN x -> STRING]
            /\ JsonOf("allowed_paths", x) = Array([i \in DOMAIN x |-> Text(x[i])])
  /\ \A v, any : Accepted("allowed_paths", v, any) =
                   [i \in DOMAIN v.members |-> v.members[i].text]
BY Zenon DEF CountField, LimitField, FlagField, TextField, KindOf, Fits, InType, JsonOf,
             Accepted, Taken

LEMMA VarsRules ==
  /\ KindOf("environment_vars") = {"object"}
  /\ \A x : /\ Fits("environment_vars", x) <=> x \in [DOMAIN x -> STRING]
            /\ JsonOf("environment_vars", x) = Object([i \in DOMAIN x |-> Text(x[i])])
  /\ \A v, any : Accepted("environment_vars", v, any) =
                   [i \in DOMAIN v.members |-> v.members[i].text]
BY Zenon DEF CountField, LimitField, FlagField, TextField, KindOf, Fits, InType, JsonOf,
             Accepted, Taken

LEMMA ThresholdsRules ==
  /\ KindOf("per_tool_thresholds") = {"object"}
  /\ \A x : /\ Fits("per_tool_thresholds", x) <=> x \in [DOMAIN x -> 0 .. UInt32 - 1]
            /\ JsonOf("per_tool_thresholds", x) = Object([i \in DOMAIN x |-> Number(x[i])])
  /\ \A v, any : Accepted("per_tool_thresholds", v, any) =
                   [i \in DOMAIN v.members |-> Converted(v.members[i], UInt32, any)]
BY Zenon DEF CountField, LimitField, FlagField, TextField, KindOf, Fits, InType, JsonOf,
             Accepted, Taken

LEMMA FieldKinds ==
  ASSUME NEW f \in Field
  PROVE  \/ f \in CountField \/ f \in LimitField \/ f \in FlagField \/ f \in TextField
         \/ f = "level" \/ f = "format"
         \/ f = "allowed_paths" \/ f = "environment_vars" \/ f = "per_tool_thresholds"
BY DEF Field, SandboxField, FlagField

LEMMA DefaultsInRange == \A f \in LimitField : Default[f] \in Lowest[f] .. Highest[f]
<1>1. \A f \in Field : Fits(f, Default[f])
  BY ConfigAssumption
<1>2. QED
  BY <1>1, RangeRules, Fields

(* Whatever a file says of a limit, the value is in range or the default.  *)
LEMMA LimitsInRange ==
  ASSUME NEW f \in LimitField, NEW any
  PROVE  LoadConfig(any)[f] \in Lowest[f] .. Highest[f]
<1>1. Default[f] \in Lowest[f] .. Highest[f]
  BY DefaultsInRange
<1>2. ASSUME NEW v PROVE Accepted(f, v, any) \in Lowest[f] .. Highest[f]
  <2>1. Limited(f, Converted(v, Width(f), any)) \in Lowest[f] .. Highest[f]
    BY <1>1 DEF Limited
  <2>2. QED
    BY <2>1, RangeRules
<1>3. FromJson(config_file, any)[f] \in Lowest[f] .. Highest[f]
  BY <1>1, <1>2, Fields DEF FromJson
<1>4. QED
  BY <1>1, <1>3 DEF LoadConfig

(* The limits of the configuration and of the sandbox manager stay within  *)
(* the ranges from_json checks and the validator counts against the        *)
(* configured threshold, whatever is written into the file (from_json,     *)
(* Guardian::Guardian, update_config).                                     *)
THEOREM LimitsAlwaysHold == ConfigSpec => []LimitsHold
<1>1. ConfigInit => LimitsHold
  BY DefaultsInRange, Fields DEF ConfigInit, LimitsHold, SandboxOf
<1>2. LimitsHold /\ [ConfigNext]_configVars => LimitsHold'
  <2> SUFFICES ASSUME LimitsHold, [ConfigNext]_configVars PROVE LimitsHold'
    OBVIOUS
  <2>1. CASE WriteFile
    BY <2>1 DEF WriteFile, LimitsHold
  <2>2. ASSUME NEW any, Construct(any) PROVE LimitsHold'
    BY <2>2, DefaultsInRange, LimitsInRange, Fields DEF Construct, LimitsHold, SandboxOf
  <2>3. ASSUME NEW any, UpdateConfig(any) PROVE LimitsHold'
    BY <2>3, LimitsInRange, Fields DEF UpdateConfig, LimitsHold, SandboxOf
  <2>4. ASSUME NEW any, SetDefaultSandboxConfig(any) PROVE LimitsHold'
    BY <2>4, LimitsInRange, Fields DEF SetDefaultSandboxConfig, LimitsHold
  <2>5. CASE UNCHANGED configVars
    BY <2>5 DEF configVars, LimitsHold
  <2>6. QED
    BY <2>1, <2>2, <2>3, <2>4, <2>5 DEF ConfigNext
<1>3. QED
  BY <1>1, <1>2, PTL DEF ConfigSpec

-----------------------------------------------------------------------------
(* The get of an unsigned type: in range for any number and any Boolean,   *)
(* and the number itself when it is in range.                              *)
LEMMA ConvertedFits ==
  ASSUME NEW v, NEW width \in Nat \ {0, 1}, NEW any \in Int,
         \/ IsNumber(v) /\ v.number \in Int
         \/ v.kind = "boolean"
  PROVE  Converted(v, width, any) \in 0 .. width - 1
<1>1. \A n \in Int : n % width \in 0 .. width - 1
  OBVIOUS
<1>2. CASE v.kind = "boolean"
  <2>1. Converted(v, width, any) = IF v.flag THEN 1 ELSE 0
    BY Zenon, <1>2 DEF Converted
  <2> QED
    BY <2>1
<1>3. CASE IsNumber(v) /\ v.number \in Int
  <2>1. v.kind # "boolean"
    BY <1>3 DEF IsNumber
  <2>2. Converted(v, width, any) \in {any % width, v.number % width}
    BY Zenon, <2>1 DEF Converted
  <2> QED
    BY <1>1, <1>3, <2>2
<1> QED
  BY <1>2, <1>3

LEMMA ConvertedSame ==
  ASSUME NEW width \in Nat \ {0}, NEW n \in 0 .. width - 1, NEW any
  PROVE  Converted(Number(n), width, any) = n
<1>1. Number(n) = [kind |-> "unsigned", number |-> n]
  BY DEF Number
<1>2. Number(n).kind = "unsigned" /\ Number(n).number = n
  BY <1>1
<1>3. Converted(Number(n), width, any) = n % width
  BY Zenon, <1>2 DEF Converted
<1> QED
  BY <1>3

-----------------------------------------------------------------------------
Collections == {"allowed_paths", "environment_vars", "per_tool_thresholds"}

(* What is taken of a JSON value of the right kind fits the field. *)
LEMMA AcceptedFits ==
  ASSUME NEW f \in Field, NEW v, NEW any \in Int,
         IsJson(v), v.kind \in KindOf(f), f \in Collections => ~BadMembers(f, v)
  PROVE  Fits(f, Accepted(f, v, any))
<1>1. Fits(f, Default[f])
  BY ConfigAssumption
<1>2. UInt32 \in Nat \ {0, 1}
  BY ConfigAssumption
<1>3. CASE f \in CountField
  <2>1. IsNumber(v) /\ v.number \in Int
    BY <1>3, CountRules DEF IsJson, IsScalar, IsNumber
  <2> QED
    BY <1>2, <1>3, <2>1, CountRules, ConvertedFits
<1>4. CASE f \in LimitField
  <2>1. Accepted(f, v, any) \in Lowest[f] .. Highest[f] \/ Accepted(f, v, any) = Default[f]
    BY <1>4, RangeRules DEF Limited
  <2> QED
    BY <1>1, <1>4, <2>1, RangeRules
<1>5. CASE f \in FlagField
  <2>1. v.flag \in BOOLEAN
    BY <1>5, FlagRules DEF IsJson, IsScalar, IsNumber
  <2> QED
    BY Zenon, <1>5, <2>1, FlagRules
<1>6. CASE f \in TextField
  <2>1. v.text \in STRING
    BY <1>6, TextRules DEF IsJson, IsScalar, IsNumber
  <2> QED
    BY <1>6, <2>1, TextRules
<1>7. CASE f = "level"
  BY <1>1, <1>7, LevelRules
<1>8. CASE f = "format"
  BY <1>1, <1>8, FormatRules
<1>9. CASE f \in {"allowed_paths", "environment_vars"}
  <2>1. \A i \in DOMAIN v.members : v.members[i].kind = "string"
    BY <1>9 DEF BadMembers, Collections
  <2>2. v.kind \in {"array", "object"}
    BY <1>9, PathsRules, VarsRules
  <2>3. \A i \in DOMAIN v.members : v.members[i].text \in STRING
    BY <2>1, <2>2 DEF IsJson, IsScalar, IsNumber
  <2>4. Accepted(f, v, any) = [i \in DOMAIN v.members |-> v.members[i].text]
    BY <1>9, PathsRules, VarsRules
  <2>5. Accepted(f, v, any) \in [DOMAIN Accepted(f, v, any) -> STRING]
    BY <2>3, <2>4
  <2> QED
    BY <1>9, <2>5, PathsRules, VarsRules
<1>10. CASE f = "per_tool_thresholds"
  <2>1. \A i \in DOMAIN v.members : IsNumber(v.members[i]) \/ v.members[i].kind = "boolean"
    BY <1>10 DEF BadMembers, Collections
  <2>2. v.kind = "object"
    BY <1>10, ThresholdsRules
  <2>3. \A i \in DOMAIN v.members : IsScalar(v.members[i])
    BY <2>2 DEF IsJson, IsScalar, IsNumber
  <2>4. ASSUME NEW i \in DOMAIN v.members
        PROVE  Converted(v.members[i], UInt32, any) \in 0 .. UInt32 - 1
    <3>1. \/ IsNumber(v.members[i]) /\ v.members[i].number \in Int
          \/ v.members[i].kind = "boolean"
      BY <2>1, <2>3 DEF IsScalar, IsNumber
    <3> QED
      BY <1>2, <3>1, ConvertedFits
  <2>5. Accepted(f, v, any) = [i \in DOMAIN v.members |-> Converted(v.members[i], UInt32, any)]
    BY <1>10, ThresholdsRules
  <2>6. Accepted(f, v, any) \in [DOMAIN Accepted(f, v, any) -> 0 .. UInt32 - 1]
    BY <2>4, <2>5
  <2> QED
    BY <1>10, <2>6, ThresholdsRules
<1> QED
  BY <1>3, <1>4, <1>5, <1>6, <1>7, <1>8, <1>9, <1>10, FieldKinds

(* What is written of a field that fits is a JSON value it is read from,   *)
(* and read as it was.                                                     *)
ReadBack(f, x, any) ==
  /\ IsJson(JsonOf(f, x))
  /\ JsonOf(f, x).kind \in KindOf(f)
  /\ f \in Collections => ~BadMembers(f, JsonOf(f, x))
  /\ Accepted(f, JsonOf(f, x), any) = x

LEMMA WrittenIsReadBack ==
  ASSUME NEW f \in Field, NEW x, Fits(f, x), NEW any
  PROVE  ReadBack(f, x, any)
<1>1. UInt32 \in Nat \ {0, 1} /\ UInt64 \in Nat \ {0, 1}
  BY ConfigAssumption
<1>2. \A n \in Nat : Number(n).kind = "unsigned" /\ Number(n).number = n
  BY DEF Number
<1>3. CASE f \in CountField
  <2>1. x \in 0 .. UInt32 - 1 /\ JsonOf(f, x) = Number(x) /\ f \notin Collections
    BY <1>3, CountRules DEF CountField, Collections
  <2>2. Converted(Number(x), UInt32, any) = x
    BY <1>1, <2>1, ConvertedSame
  <2>3. Accepted(f, Number(x), any) = x
    BY <1>3, <2>2, CountRules
  <2> QED
    BY <1>1, <1>2, <1>3, <2>1, <2>3, CountRules DEF ReadBack, IsJson, IsScalar, IsNumber
<1>4. CASE f \in LimitField
  <2>1. /\ x \in Lowest[f] .. Highest[f] /\ JsonOf(f, x) = Number(x) /\ f \notin Collections
        /\ Lowest[f] \in Nat /\ Highest[f] \in Nat /\ Highest[f] < Width(f)
        /\ Width(f) \in Nat \ {0, 1}
    BY <1>1, <1>4, RangeRules, ConfigAssumption DEF LimitField, Collections, Width
  <2>2. x \in 0 .. Width(f) - 1
    BY <2>1
  <2>3. Converted(Number(x), Width(f), any) = x
    BY <2>1, <2>2, ConvertedSame
  <2>4. Accepted(f, Number(x), any) = x
    BY <1>4, <2>1, <2>3, RangeRules DEF Limited
  <2> QED
    BY <1>2, <1>4, <2>1, <2>2, <2>4, RangeRules DEF ReadBack, IsJson, IsScalar, IsNumber
<1>5. CASE f \in FlagField
  <2>1. x \in BOOLEAN /\ JsonOf(f, x) = Flag(x) /\ f \notin Collections
    BY <1>5, FlagRules DEF FlagField, Collections
  <2>2. Flag(x).kind = "boolean" /\ Flag(x).flag = x
    BY Zenon DEF Flag
  <2>3. Accepted(f, Flag(x), any) = x
    BY Zenon, <1>5, <2>2, FlagRules
  <2>4. IsJson(Flag(x))
    BY Zenon, <2>1, <2>2 DEF IsJson, IsScalar
  <2>5. Flag(x).kind \in KindOf(f)
    BY <1>5, <2>2, FlagRules
  <2> QED
    BY Zenon, <2>1, <2>3, <2>4, <2>5 DEF ReadBack
<1>6. CASE f \in TextField \cup {"level", "format"}
  <2>1. /\ x \in STRING /\ JsonOf(f, x) = Text(x) /\ f \notin Collections
        /\ KindOf(f) = {"string"}
    <3>1. CASE f \in TextField
      BY <3>1, TextRules DEF TextField, Collections
    <3>2. CASE f = "level"
      BY <3>2, LevelRules, WordsAssumption DEF Collections
    <3>3. CASE f = "format"
      BY <3>3, FormatRules, WordsAssumption DEF Collections
    <3> QED
      BY <1>6, <3>1, <3>2, <3>3
  <2>2. Text(x).kind = "string" /\ Text(x).text = x
    BY DEF Text
  <2>3. Accepted(f, Text(x), any) = x
    <3>1. CASE f \in TextField
      BY <2>2, <3>1, TextRules
    <3>2. CASE f = "level"
      BY <2>2, <3>2, LevelRules
    <3>3. CASE f = "format"
      BY <2>2, <3>3, FormatRules
    <3> QED
      BY <1>6, <3>1, <3>2, <3>3
  <2> QED
    BY <2>1, <2>2, <2>3 DEF ReadBack, IsJson, IsScalar
<1>7. CASE f \in {"allowed_paths", "environment_vars"}
  <2> DEFINE members == [i \in DOMAIN x |-> Text(x[i])]
             v == JsonOf(f, x)
  <2>1. /\ x \in [DOMAIN x -> STRING] /\ v.members = members
        /\ v.kind \in {"array", "object"} /\ v.kind \in KindOf(f)
        /\ Accepted(f, v, any) = [i \in DOMAIN v.members |-> v.members[i].text]
    BY <1>7, PathsRules, VarsRules DEF Array, Object
  <2>2. \A i \in DOMAIN members : /\ members[i].kind = "string"
                                  /\ members[i].text = x[i] /\ x[i] \in STRING
    BY <2>1 DEF Text
  <2>3. Accepted(f, v, any) = x
    BY <2>1, <2>2
  <2>4. ~BadMembers(f, v)
    BY <1>7, <2>1, <2>2 DEF BadMembers
  <2>5. IsJson(v)
    BY <2>1, <2>2 DEF IsJson, IsScalar
  <2> QED
    BY <2>1, <2>3, <2>4, <2>5 DEF ReadBack
<1>8. CASE f = "per_tool_thresholds"
  <2> DEFINE members == [i \in DOMAIN x |-> Number(x[i])]
             v == JsonOf(f, x)
  <2>1. /\ x \in [DOMAIN x -> 0 .. UInt32 - 1] /\ v.members = members
        /\ v.kind = "object" /\ v.kind \in KindOf(f)
        /\ Accepted(f, v, any) =
             [i \in DOMAIN v.members |-> Converted(v.members[i], UInt32, any)]
    BY <1>8, ThresholdsRules DEF Object
  <2>2. \A i \in DOMAIN x : x[i] \in 0 .. UInt32 - 1
    BY <2>1
  <2>3. \A i \in DOMAIN members : /\ members[i].kind = "unsigned"
                                  /\ members[i].number = x[i]
                                  /\ members[i] = Number(x[i])
    BY <1>1, <1>2, <2>2
  <2>4. \A i \in DOMAIN members : Converted(members[i], UInt32, any) = x[i]
    BY <1>1, <2>2, <2>3, ConvertedSame
  <2>5. Accepted(f, v, any) = x
    BY <2>1, <2>4
  <2>6. ~BadMembers(f, v)
    BY <1>8, <2>1, <2>3 DEF BadMembers, IsNumber
  <2>7. IsJson(v)
    BY <1>1, <2>1, <2>2, <2>3 DEF IsJson, IsScalar, IsNumber
  <2> QED
    BY <2>1, <2>5, <2>6, <2>7 DEF ReadBack
<1> QED
  BY <1>3, <1>4, <1>5, <1>6, <1>7, <1>8, FieldKinds

-----------------------------------------------------------------------------
(* A configuration that was read, and a file that is a document: what is   *)
(* written of the one is the other.                                        *)
ConfigInv == ConfigTypeOK /\ (config_file = Unreadable \/ IsDocument(config_file))

LEMMA Loaded ==
  ASSUME ConfigInv, CanLoad, NEW any \in Int
  PROVE  DOMAIN LoadConfig(any) = Field /\ LoadConfig(any) = [f \in Field |-> LoadConfig(any)[f]]
         /\ \A f \in Field : Fits(f, LoadConfig(any)[f])
<1>1. CASE config_file = Unreadable
  BY <1>1, ConfigAssumption DEF LoadConfig
<1>2. CASE config_file # Unreadable
  <2>1. IsDocument(config_file) /\ ~Throws(config_file) /\ LoadConfig(any) = FromJson(config_file, any)
    BY <1>2 DEF ConfigInv, CanLoad, LoadConfig
  <2>2. ASSUME NEW f \in Field PROVE Fits(f, FromJson(config_file, any)[f])
    <3>1. CASE f \in DOMAIN config_file /\ config_file[f].kind \in KindOf(f)
      <4>1. f \in Collections => ~BadMembers(f, config_file[f])
        BY <2>1, <3>1 DEF Throws, Collections
      <4>2. Fits(f, Accepted(f, config_file[f], any))
        BY <2>1, <3>1, <4>1, AcceptedFits DEF IsDocument
      <4> QED
        BY <3>1, <4>2 DEF FromJson
    <3>2. CASE ~(f \in DOMAIN config_file /\ config_file[f].kind \in KindOf(f))
      BY <3>2, ConfigAssumption DEF FromJson
    <3> QED
      BY <3>1, <3>2
  <2>3. FromJson(config_file, any) = [f \in Field |-> FromJson(config_file, any)[f]]
    BY DEF FromJson
  <2> QED
    BY <2>1, <2>2, <2>3
<1> QED
  BY <1>1, <1>2

LEMMA ConfigWritten ==
  ASSUME ConfigTypeOK
  PROVE  IsDocument(ConfigToJson(config)) /\ ConfigRoundTrip
<1>1. \A f \in Field : \A any : ReadBack(f, config[f], any)
  BY WrittenIsReadBack DEF ConfigTypeOK
<1>2. PICK doc : doc = ConfigToJson(config)
  OBVIOUS
<1>3. DOMAIN doc = Field /\ \A f \in Field : doc[f] = JsonOf(f, config[f])
  BY <1>2 DEF ConfigToJson
<1>4. IsDocument(doc)
  BY <1>1, <1>3 DEF IsDocument, ReadBack
<1>5. ~Throws(doc)
  BY <1>1, <1>3 DEF Throws, ReadBack, Collections
<1>6. ASSUME NEW any PROVE FromJson(doc, any) = config
  <2>1. \A f \in Field : Accepted(f, doc[f], any) = config[f] /\ doc[f].kind \in KindOf(f)
    BY <1>1, <1>3 DEF ReadBack
  <2>2. FromJson(doc, any) = [f \in Field |-> config[f]]
    BY <1>3, <2>1 DEF FromJson
  <2> QED
    BY <2>2 DEF ConfigTypeOK
<1> QED
  BY <1>2, <1>4, <1>5, <1>6 DEF ConfigRoundTrip

LEMMA ConfigAlways == ConfigSpec => []ConfigInv
<1>1. ConfigInit => ConfigInv
  BY ConfigAssumption DEF ConfigInit, ConfigInv, ConfigTypeOK
<1>2. ConfigInv /\ [ConfigNext]_configVars => ConfigInv'
  <2> SUFFICES ASSUME ConfigInv, [ConfigNext]_configVars PROVE ConfigInv'
    OBVIOUS
  <2>1. CASE WriteFile
    <3>1. config_file' \in ConfigFiles \/ config_file' = ConfigToJson(config)
      BY <2>1 DEF WriteFile
    <3>2. IsDocument(config_file')
      BY <3>1, ConfigFilesAssumption, ConfigWritten DEF ConfigInv
    <3> QED
      BY <2>1, <3>2 DEF WriteFile, ConfigInv, ConfigTypeOK
  <2>2. ASSUME NEW any \in 0 .. UInt64 - 1,
               Construct(any) \/ UpdateConfig(any) \/ SetDefaultSandboxConfig(any)
        PROVE  ConfigInv'
    <3>1. CanLoad /\ any \in Int /\ config_file' = config_file
      BY <2>2, ConfigAssumption DEF Construct, UpdateConfig, SetDefaultSandboxConfig
    <3>2. CASE config' = LoadConfig(any)
      BY <3>1, <3>2, Loaded DEF ConfigInv, ConfigTypeOK
    <3>3. CASE config' = [f \in Field |-> IF f \in SandboxField THEN LoadConfig(any)[f]
                                                               ELSE config[f]]
      BY <3>1, <3>3, Loaded DEF ConfigInv, ConfigTypeOK
    <3> QED
      BY <2>2, <3>2, <3>3 DEF Construct, UpdateConfig, SetDefaultSandboxConfig
  <2>3. CASE UNCHANGED configVars
    BY <2>3 DEF configVars, ConfigInv, ConfigTypeOK
  <2> QED
    BY <2>1, <2>2, <2>3 DEF ConfigNext
<1> QED
  BY <1>1, <1>2, PTL DEF ConfigSpec

(* Every field of a configuration holds what from_json may put there,      *)
(* whatever the documents that are read.                                   *)
THEOREM ConfigTypes == ConfigSpec => []ConfigTypeOK
<1>1. ConfigInv => ConfigTypeOK
  BY DEF ConfigInv
<1> QED
  BY <1>1, ConfigAlways, PTL

(* A configuration that is written by to_json is read back as it was.      *)
THEOREM ConfigsSurviveFiles == ConfigSpec => []ConfigRoundTrip
<1>1. ConfigInv => ConfigRoundTrip
  BY ConfigWritten DEF ConfigInv
<1> QED
  BY <1>1, ConfigAlways, PTL

(***************************************************************************)
(* The LRU cache                                                           *)
(***************************************************************************)
(* The keys of a list, and of its entries before place i *)
Keys(list) == {list[i].key : i \in 1 .. Len(list)}
KeysBefore(list, i) == {list[j].key : j \in 1 .. i - 1}

Distinct(list) ==
  \A i, j \in 1 .. Len(list) : list[i].key = list[j].key => i = j

(* What was used since a key in the list was used stands before it.        *)
Ordered(list, uses) ==
  \A i \in 1 .. Len(list) :
    list[i].key \in DOMAIN uses /\ uses[list[i].key] = KeysBefore(list, i)

(* What is no longer in the list is there no more for a reason: as many    *)
(* other keys were used since as the cache has places.                     *)
GoneForAReason ==
  \A k \in DOMAIN since :
    /\ IsFiniteSet(since[k])
    /\ k \notin DOMAIN cache_map => Cardinality(since[k]) >= MaxSize

LRUInv ==
  /\ LRUTypeOK /\ ListAndMapAgree
  /\ Ordered(cache_list, since)
  /\ GoneForAReason

-----------------------------------------------------------------------------
(* Lists *)

(* A list with distinct keys has as many keys before place i as places.    *)
LEMMA CountKeysBefore ==
  ASSUME NEW list \in Seq(Entry), Distinct(list), NEW i \in 1 .. Len(list) + 1
  PROVE  IsFiniteSet(KeysBefore(list, i)) /\ Cardinality(KeysBefore(list, i)) = i - 1
<1> DEFINE f == [j \in 1 .. i - 1 |-> list[j].key]
<1>1. f \in Bijection(1 .. i - 1, KeysBefore(list, i))
  <2>1. /\ KeysBefore(list, i) = {list[j].key : j \in 1 .. i - 1}
        /\ 1 .. i - 1 \subseteq 1 .. Len(list)
    BY DEF KeysBefore
  <2>2. f \in Surjection(1 .. i - 1, KeysBefore(list, i))
    BY <2>1 DEF Surjection
  <2>3. \A j, k \in 1 .. i - 1 : f[j] = f[k] => j = k
    BY <2>1 DEF Distinct
  <2> QED
    BY <2>2, <2>3 DEF Bijection, Injection, Surjection, IsInjective
<1>2. IsFiniteSet(1 .. i - 1) /\ Cardinality(1 .. i - 1) = i - 1
  <2>1. i - 1 \in Int /\ 1 \in Int
    OBVIOUS
  <2>2. Cardinality(1 .. i - 1) = IF 1 > i - 1 THEN 0 ELSE i - 1 - 1 + 1
    BY <2>1, FS_Interval
  <2>3. QED
    BY <2>1, <2>2, FS_Interval
<1> HIDE DEF f
<1>3. ExistsBijection(1 .. i - 1, KeysBefore(list, i))
  BY <1>1 DEF ExistsBijection
<1>4. QED
  BY <1>2, <1>3, FS_Bijection

(* Erasing a key closes the gap it leaves.                                 *)
LEMMA ErasedIs ==
  ASSUME NEW list \in Seq(Entry), Distinct(list), NEW q \in 1 .. Len(list)
  PROVE  LET rest == Erased(list, list[q].key)
         IN  /\ rest \in Seq(Entry) /\ Len(rest) = Len(list) - 1
             /\ \A j \in 1 .. Len(rest) : rest[j] = IF j < q THEN list[j] ELSE list[j + 1]
<1> DEFINE rest == Erased(list, list[q].key)
<1>1. Place(list, list[q].key) = q
  BY DEF Place, Distinct
<1>2. rest = [j \in 1 .. Len(list) - 1 |-> IF j < q THEN list[j] ELSE list[j + 1]]
  BY <1>1 DEF Erased
<1>3. Len(list) - 1 \in Nat /\ \A j \in 1 .. Len(list) - 1 : rest[j] \in Entry
  BY <1>2
<1> HIDE DEF rest
<1>4. rest \in Seq(Entry) /\ Len(rest) = Len(list) - 1
  BY <1>2, <1>3, IsASeq
<1>5. QED
  BY <1>2, <1>4 DEF rest

(* What Get and Put do to the list before anything is evicted              *)
Fronted(list, e) ==
  <<e>> \o (IF e.key \in Keys(list) THEN Erased(list, e.key) ELSE list)

Touched(uses, k) ==
  [l \in DOMAIN uses \cup {k} |-> IF l = k THEN {} ELSE uses[l] \cup {k}]

LEMMA FrontedIs ==
  ASSUME NEW list \in Seq(Entry), NEW e \in Entry, Distinct(list)
  PROVE  LET new == Fronted(list, e)
         IN  /\ new \in Seq(Entry)
             /\ Len(new) \in {Len(list), Len(list) + 1} /\ Len(new) >= 1
             /\ new[1] = e
             /\ e.key \notin Keys(list) =>
                  /\ Len(new) = Len(list) + 1
                  /\ \A i \in 2 .. Len(new) : new[i] = list[i - 1]
             /\ \A q \in 1 .. Len(list) : list[q].key = e.key =>
                  /\ Len(new) = Len(list)
                  /\ \A i \in 2 .. Len(new) : new[i] = IF i - 1 < q THEN list[i - 1] ELSE list[i]
<1> DEFINE rest == IF e.key \in Keys(list) THEN Erased(list, e.key) ELSE list
           new == Fronted(list, e)
<1>1. rest \in Seq(Entry)
  BY ErasedIs DEF Keys
<1>2. /\ new \in Seq(Entry) /\ Len(new) = Len(rest) + 1 /\ new[1] = e
      /\ \A i \in 2 .. Len(new) : new[i] = rest[i - 1]
  <2> HIDE DEF rest
  <2>1. <<e>> \in Seq(Entry) /\ Len(<<e>>) = 1 /\ <<e>>[1] = e
    OBVIOUS
  <2>2. new = <<e>> \o rest
    BY DEF Fronted, rest
  <2>3. QED
    BY <1>1, <2>1, <2>2, ConcatProperties
<1> HIDE DEF new
<1>3. CASE e.key \notin Keys(list)
  BY <1>2, <1>3 DEF new, Keys
<1>4. ASSUME NEW q \in 1 .. Len(list), list[q].key = e.key
      PROVE  /\ Len(new) = Len(list)
             /\ \A i \in 2 .. Len(new) : new[i] = IF i - 1 < q THEN list[i - 1] ELSE list[i]
  <2>1. rest = Erased(list, list[q].key)
    BY <1>4 DEF Keys
  <2> HIDE DEF rest
  <2>2. /\ Len(rest) = Len(list) - 1
        /\ \A j \in 1 .. Len(rest) : rest[j] = IF j < q THEN list[j] ELSE list[j + 1]
    BY <2>1, ErasedIs
  <2>3. QED
    BY <1>2, <2>2
<1>5. CASE e.key \in Keys(list)
  BY <1>2, <1>4, <1>5 DEF new, Keys
<1>6. QED
  BY <1>3, <1>5 DEF new

(* Putting an entry in front keeps keys apart and the order of use right.  *)
LEMMA FrontedOrdered ==
  ASSUME NEW list \in Seq(Entry), NEW e \in Entry, Distinct(list), NEW uses,
         Ordered(list, uses)
  PROVE  /\ Distinct(Fronted(list, e))
         /\ Keys(Fronted(list, e)) = Keys(list) \cup {e.key}
         /\ Ordered(Fronted(list, e), Touched(uses, e.key))
<1> DEFINE new == Fronted(list, e)
<1>1. new \in Seq(Entry) /\ Len(new) >= 1 /\ new[1] = e
      /\ Len(new) \in {Len(list), Len(list) + 1}
  BY FrontedIs
<1>2. CASE e.key \notin Keys(list)
  <2>1. /\ Len(new) = Len(list) + 1
        /\ \A i \in 2 .. Len(new) : new[i] = list[i - 1]
    BY <1>2, FrontedIs
  <2> HIDE DEF new
  <2>2. \A j \in 1 .. Len(list) : j + 1 \in 2 .. Len(new) /\ new[j + 1] = list[j]
                                  /\ list[j].key # e.key
    BY <1>2, <2>1 DEF Keys
  <2>3. Distinct(new)
    <3>1. ASSUME NEW i \in 1 .. Len(new), NEW j \in 1 .. Len(new), new[i].key = new[j].key
          PROVE  i = j
      <4>0. ASSUME NEW m \in 1 .. Len(new), m # 1 PROVE new[m].key # new[1].key
        <5>1. m - 1 \in 1 .. Len(list) /\ new[m] = list[m - 1]
          BY <2>1, <4>0
        <5>2. QED
          BY <1>1, <2>2, <5>1
      <4>1. CASE i = 1 /\ j # 1
        BY <3>1, <4>0, <4>1
      <4>2. CASE i # 1 /\ j = 1
        BY <3>1, <4>0, <4>2
      <4>3. CASE i # 1 /\ j # 1
        <5>1. /\ list[i - 1].key = list[j - 1].key
              /\ i - 1 \in 1 .. Len(list) /\ j - 1 \in 1 .. Len(list)
          BY <2>1, <3>1, <4>3
        <5>2. i - 1 = j - 1
          BY <5>1 DEF Distinct
        <5>3. QED
          BY <5>2
      <4>4. QED
        BY <4>1, <4>2, <4>3
    <3>2. QED
      BY <3>1 DEF Distinct
  <2>4. Keys(new) = Keys(list) \cup {e.key}
    <3>1. ASSUME NEW k \in Keys(new) PROVE k \in Keys(list) \cup {e.key}
      BY <1>1, <2>1, <3>1 DEF Keys
    <3>2. e.key \in Keys(new)
      BY <1>1 DEF Keys
    <3>3. \A k \in Keys(list) : k \in Keys(new)
      BY <2>1, <2>2 DEF Keys
    <3>4. QED
      BY <3>1, <3>2, <3>3
  <2>5. ASSUME NEW i \in 1 .. Len(new)
        PROVE  /\ new[i].key \in DOMAIN Touched(uses, e.key)
               /\ Touched(uses, e.key)[new[i].key] = KeysBefore(new, i)
    <3>1. CASE i = 1
      BY <1>1, <3>1 DEF Touched, KeysBefore
    <3>2. CASE i # 1
      <4>1. /\ i - 1 \in 1 .. Len(list) /\ new[i] = list[i - 1] /\ new[i].key # e.key
            /\ new[i].key \in DOMAIN uses
            /\ uses[new[i].key] = KeysBefore(list, i - 1)
        BY <2>1, <2>2, <3>2 DEF Ordered
      <4>2. KeysBefore(new, i) = KeysBefore(list, i - 1) \cup {e.key}
        <5>1. ASSUME NEW m \in 1 .. i - 1 - 1
              PROVE  list[m].key \in KeysBefore(new, i)
          <6>1. m \in 1 .. Len(list) /\ m + 1 \in 1 .. i - 1
            BY <2>1, <4>1, <5>1
          <6>2. list[m] = new[m + 1]
            BY <2>2, <6>1
          <6>3. QED
            BY <6>1, <6>2 DEF KeysBefore
        <5>2. e.key \in KeysBefore(new, i)
          BY <1>1, <4>1 DEF KeysBefore
        <5>3. ASSUME NEW j \in 1 .. i - 1
              PROVE  new[j].key \in KeysBefore(list, i - 1) \cup {e.key}
          <6>1. CASE j = 1
            BY <1>1, <6>1
          <6>2. CASE j # 1
            <7>1. new[j] = list[j - 1] /\ j - 1 \in 1 .. i - 1 - 1
              BY <2>1, <4>1, <6>2
            <7>2. QED
              BY <7>1 DEF KeysBefore
          <6>3. QED
            BY <6>1, <6>2
        <5>4. QED
          BY <5>1, <5>2, <5>3 DEF KeysBefore
      <4>3. QED
        BY <4>1, <4>2 DEF Touched
    <3>3. QED
      BY <3>1, <3>2
  <2>6. QED
    BY <2>3, <2>4, <2>5 DEF new, Ordered
<1>3. CASE e.key \in Keys(list)
  <2>1. PICK q \in 1 .. Len(list) : list[q].key = e.key
    BY <1>3 DEF Keys
  <2>2. /\ Len(new) = Len(list)
        /\ \A i \in 2 .. Len(new) : new[i] = IF i - 1 < q THEN list[i - 1] ELSE list[i]
    BY <2>1, FrontedIs
  <2> HIDE DEF new
  \* Where the entry at place i of the new list was
  <2> DEFINE L == Len(list)
             old == [i \in 1 .. L |-> IF i = 1 THEN q ELSE IF i - 1 < q THEN i - 1 ELSE i]
  <2>0. L \in Nat /\ q \in 1 .. L
    OBVIOUS
  <2>3. \A i \in 1 .. L : old[i] \in 1 .. L /\ new[i].key = list[old[i]].key
    BY <1>1, <2>1, <2>2
  <2>4. \A i \in 1 .. L : \E j \in 1 .. L : old[j] = i
    <3> TAKE i \in 1 .. L
    <3>1. CASE i = q
      <4>1. 1 \in 1 .. L /\ old[1] = i
        BY <3>1
      <4>2. QED
        BY <4>1
    <3>2. CASE i < q
      <4>1. i + 1 \in 1 .. L /\ old[i + 1] = i
        BY <3>2
      <4>2. QED
        BY <4>1
    <3>3. CASE i > q
      <4>1. old[i] = i
        BY <3>3
      <4>2. QED
        BY <4>1
    <3>4. QED
      BY <3>1, <3>2, <3>3
  <2>5. \A i, j \in 1 .. L : old[i] = old[j] => i = j
    OBVIOUS
  \* The others that stand before place i stood before it
  <2>6. \A i \in 2 .. L, j \in 1 .. L :
          j < i <=> j = 1 \/ old[j] < old[i]
    OBVIOUS
  <2>11. Len(new) = L
    BY <2>2
  <2> HIDE DEF old, L
  <2>7. Distinct(new)
    <3>1. ASSUME NEW i \in 1 .. L, NEW j \in 1 .. L, new[i].key = new[j].key
          PROVE  i = j
      <4>1. list[old[i]].key = list[old[j]].key /\ old[i] \in 1 .. L /\ old[j] \in 1 .. L
        BY <2>3, <3>1
      <4>2. old[i] = old[j]
        BY <4>1 DEF Distinct, L
      <4>3. QED
        BY <2>5, <4>2
    <3>2. QED
      BY <2>11, <3>1 DEF Distinct
  <2>8. Keys(new) = Keys(list) \cup {e.key}
    <3>1. \A k \in Keys(new) : k \in Keys(list)
      BY <2>3, <2>11 DEF Keys, L
    <3>2. \A k \in Keys(list) : k \in Keys(new)
      <4> TAKE k \in Keys(list)
      <4>1. PICK i \in 1 .. L : list[i].key = k
        BY DEF Keys, L
      <4>2. PICK j \in 1 .. L : old[j] = i
        BY <2>4
      <4>3. new[j].key = k
        BY <2>3, <4>1, <4>2
      <4>4. QED
        BY <2>11, <4>3 DEF Keys
    <3>3. QED
      BY <1>3, <3>1, <3>2
  <2>9. ASSUME NEW i \in 1 .. Len(new)
        PROVE  /\ new[i].key \in DOMAIN Touched(uses, e.key)
               /\ Touched(uses, e.key)[new[i].key] = KeysBefore(new, i)
    <3>1. CASE i = 1
      BY <1>1, <3>1 DEF Touched, KeysBefore
    <3>2. CASE i # 1
      <4>1. /\ i \in 2 .. L /\ old[i] \in 1 .. L /\ new[i].key = list[old[i]].key
            /\ new[i].key # e.key
        BY <1>1, <2>0, <2>3, <2>7, <2>11, <2>9, <3>2 DEF Distinct
      <4>2. /\ new[i].key \in DOMAIN uses
            /\ uses[new[i].key] = KeysBefore(list, old[i])
        BY <4>1 DEF Ordered, L
      <4>3. \A k \in KeysBefore(list, old[i]) : k \in KeysBefore(new, i)
        <5>1. ASSUME NEW m \in 1 .. old[i] - 1
              PROVE  list[m].key \in KeysBefore(new, i)
          <6>1. PICK j \in 1 .. L : old[j] = m
            <7>1. m \in 1 .. L
              BY <2>0, <4>1, <5>1
            <7>2. QED
              BY <2>4, <7>1
          <6>2. j \in 1 .. i - 1 /\ new[j].key = list[m].key
            BY <2>0, <2>3, <2>6, <4>1, <6>1
          <6>3. QED
            BY <6>2 DEF KeysBefore
        <5>2. QED
          BY <5>1 DEF KeysBefore
      <4>4. e.key \in KeysBefore(new, i)
        BY <1>1, <4>1 DEF KeysBefore
      <4>5. ASSUME NEW j \in 1 .. i - 1
            PROVE  new[j].key \in KeysBefore(list, old[i]) \cup {e.key}
        <5>1. CASE j = 1
          BY <1>1, <5>1
        <5>2. CASE j # 1
          <6>1. old[j] \in 1 .. old[i] - 1 /\ new[j].key = list[old[j]].key
            BY <2>0, <2>3, <2>6, <4>1, <5>2
          <6>2. QED
            BY <6>1 DEF KeysBefore
        <5>3. QED
          BY <5>1, <5>2
      <4>6. KeysBefore(new, i) = KeysBefore(list, old[i]) \cup {e.key}
        BY <4>3, <4>4, <4>5 DEF KeysBefore
      <4>7. QED
        BY <4>1, <4>2, <4>6 DEF Touched
    <3>3. QED
      BY <3>1, <3>2
  <2>10. QED
    BY <2>7, <2>8, <2>9 DEF new, Ordered
<1>4. QED
  BY <1>2, <1>3

(* Cutting off the last entry takes its key away and leaves the rest as    *)
(* it was.                                                                 *)
LEMMA CutLast ==
  ASSUME NEW list \in Seq(Entry), Len(list) >= 1, Distinct(list), NEW uses, Ordered(list, uses)
  PROVE  LET short == SubSeq(list, 1, Len(list) - 1)
         IN  /\ short \in Seq(Entry) /\ Len(short) = Len(list) - 1
             /\ \A i \in 1 .. Len(short) : short[i] = list[i]
             /\ Distinct(short) /\ Ordered(short, uses)
             /\ Keys(short) = Keys(list) \ {list[Len(list)].key}
<1> DEFINE short == SubSeq(list, 1, Len(list) - 1)
<1>1. /\ Len(list) \in Nat
      /\ short \in Seq(Entry)
      /\ Len(short) = Len(list) - 1
      /\ \A i \in 1 .. Len(short) : short[i] = list[i]
  <2>1. /\ 1 \in Int /\ Len(list) \in Nat /\ Len(list) - 1 \in Int
        /\ \A i \in 1 .. Len(list) - 1 : list[i] \in Entry
    OBVIOUS
  <2>2. /\ short \in Seq(Entry)
        /\ Len(short) = IF 1 <= Len(list) - 1 THEN Len(list) - 1 - 1 + 1 ELSE 0
        /\ \A i \in 1 .. Len(list) - 1 - 1 + 1 : short[i] = list[1 + i - 1]
    BY <2>1, SubSeqProperties
  <2> HIDE DEF short
  <2>3. Len(short) = Len(list) - 1
    <3>1. CASE Len(list) = 1
      BY <2>2, <3>1
    <3>2. CASE Len(list) > 1
      BY <2>1, <2>2, <3>2
    <3>3. Len(list) = 1 \/ Len(list) > 1
      <4>1. \A n \in Nat : n >= 1 => n = 1 \/ n > 1
        OBVIOUS
      <4>2. QED
        BY <2>1, <4>1
    <3>4. QED
      BY <3>1, <3>2, <3>3
  <2>4. ASSUME NEW i \in 1 .. Len(short) PROVE short[i] = list[i]
    <3>1. i \in 1 .. Len(list) - 1 - 1 + 1 /\ 1 + i - 1 = i
      BY <2>1, <2>3
    <3>2. short[i] = list[1 + i - 1]
      BY <2>2, <3>1
    <3>3. QED
      BY <3>1, <3>2
  <2>5. QED
    BY <2>1, <2>2, <2>3, <2>4
<1> HIDE DEF short
<1>2. Distinct(short)
  BY <1>1 DEF Distinct
<1>3. Ordered(short, uses)
  <2>1. ASSUME NEW i \in 1 .. Len(short)
        PROVE  short[i].key \in DOMAIN uses /\ uses[short[i].key] = KeysBefore(short, i)
    <3>1. i \in 1 .. Len(list) /\ \A j \in 1 .. i - 1 : short[j] = list[j]
      BY <1>1, <2>1
    <3>2. KeysBefore(short, i) = KeysBefore(list, i)
      BY <3>1 DEF KeysBefore
    <3>3. QED
      BY <1>1, <3>1, <3>2 DEF Ordered
  <2>2. QED
    BY <2>1 DEF Ordered
<1>4. Keys(short) = Keys(list) \ {list[Len(list)].key}
  <2>1. ASSUME NEW i \in 1 .. Len(short)
        PROVE  short[i].key \in Keys(list) /\ short[i].key # list[Len(list)].key
    <3>1. i \in 1 .. Len(list) /\ Len(list) \in 1 .. Len(list) /\ i # Len(list)
      BY <1>1, <2>1
    <3>2. QED
      BY <1>1, <3>1 DEF Keys, Distinct
  <2>2. ASSUME NEW i \in 1 .. Len(list), list[i].key # list[Len(list)].key
        PROVE  list[i].key \in Keys(short)
    <3>1. i \in 1 .. Len(short)
      BY <1>1, <2>2
    <3>2. QED
      BY <1>1, <3>1 DEF Keys
  <2>3. QED
    BY <2>1, <2>2 DEF Keys
<1>5. QED
  BY <1>1, <1>2, <1>3, <1>4 DEF short

LEMMA CountKeys ==
  ASSUME NEW list \in Seq(Entry), Distinct(list)
  PROVE  IsFiniteSet(Keys(list)) /\ Cardinality(Keys(list)) = Len(list)
<1>1. Len(list) + 1 \in 1 .. Len(list) + 1 /\ Len(list) + 1 - 1 = Len(list)
  OBVIOUS
<1>2. Keys(list) = KeysBefore(list, Len(list) + 1)
  BY <1>1 DEF Keys, KeysBefore
<1>3. QED
  BY <1>1, <1>2, CountKeysBefore

-----------------------------------------------------------------------------
(* The cache: what a use of an entry does before anything is evicted       *)
Mapped(map, e) ==
  [l \in DOMAIN map \cup {e.key} |-> IF l = e.key THEN e ELSE map[l]]

LEMMA UseKeepsOrder ==
  ASSUME LRUInv, NEW e \in Entry
  PROVE  LET new  == Fronted(cache_list, e)
             map  == Mapped(cache_map, e)
             uses == Touched(since, e.key)
         IN  /\ new \in Seq(Entry) /\ Len(new) >= 1 /\ new[1] = e
             /\ Distinct(new) /\ Ordered(new, uses)
             /\ DOMAIN map = Keys(new)
             /\ \A i \in 1 .. Len(new) : map[new[i].key] = new[i]
             /\ IsFiniteSet(DOMAIN map) /\ Cardinality(DOMAIN map) = Len(new)
             /\ Len(new) <= MaxSize + 1
             /\ DOMAIN map \subseteq Key /\ map \in [DOMAIN map -> Entry]
             /\ DOMAIN uses \subseteq Key /\ uses \in [DOMAIN uses -> SUBSET Key]
             /\ \A l \in DOMAIN uses :
                  /\ IsFiniteSet(uses[l])
                  /\ l \notin DOMAIN map => Cardinality(uses[l]) >= MaxSize
<1> DEFINE new == Fronted(cache_list, e)
           map == Mapped(cache_map, e)
           uses == Touched(since, e.key)
<1>1. /\ cache_list \in Seq(Entry)
      /\ Len(cache_list) <= MaxSize /\ Len(cache_list) \in Nat /\ MaxSize \in Nat
      /\ Distinct(cache_list)
      /\ Ordered(cache_list, since)
      /\ DOMAIN cache_map = Keys(cache_list)
      /\ e.key \in Key
  BY MaxSizeAssumption DEF LRUInv, LRUTypeOK, ListAndMapAgree, Distinct, Keys, Entry
<1>2. /\ new \in Seq(Entry) /\ Len(new) >= 1 /\ new[1] = e
      /\ Len(new) \in {Len(cache_list), Len(cache_list) + 1}
  BY <1>1, FrontedIs
<1>3. /\ Distinct(new) /\ Ordered(new, uses)
      /\ Keys(new) = Keys(cache_list) \cup {e.key}
  BY <1>1, FrontedOrdered
<1>4. ASSUME NEW i \in 1 .. Len(new), i # 1
      PROVE  new[i].key # e.key /\ \E j \in 1 .. Len(cache_list) : new[i] = cache_list[j]
  <2>1. 1 \in 1 .. Len(new) /\ i \in 2 .. Len(new)
    BY <1>2, <1>4
  <2>2. new[i].key # e.key
    BY <1>2, <1>3, <1>4, <2>1 DEF Distinct
  <2>3. CASE e.key \notin Keys(cache_list)
    <3>1. Len(new) = Len(cache_list) + 1 /\ new[i] = cache_list[i - 1]
      BY <1>1, <2>1, <2>3, FrontedIs
    <3>2. i - 1 \in 1 .. Len(cache_list)
      BY <1>1, <2>1, <3>1
    <3>3. QED
      BY <2>2, <3>1, <3>2
  <2>4. CASE e.key \in Keys(cache_list)
    <3>1. PICK q \in 1 .. Len(cache_list) : cache_list[q].key = e.key
      BY <2>4 DEF Keys
    <3>2. /\ Len(new) = Len(cache_list)
          /\ new[i] = IF i - 1 < q THEN cache_list[i - 1] ELSE cache_list[i]
      BY <1>1, <2>1, <3>1, FrontedIs
    <3>3. i - 1 \in 1 .. Len(cache_list) /\ i \in 1 .. Len(cache_list)
      BY <1>1, <2>1, <3>2
    <3>4. QED
      BY <2>2, <3>2, <3>3
  <2>5. QED
    BY <2>3, <2>4
<1>5. DOMAIN map = Keys(new)
  BY <1>1, <1>3 DEF Mapped
<1>6. ASSUME NEW i \in 1 .. Len(new) PROVE map[new[i].key] = new[i]
  <2>1. new[i].key \in DOMAIN map
    BY <1>5 DEF Keys
  <2>2. CASE i = 1
    BY <1>2, <2>1, <2>2 DEF Mapped
  <2>3. CASE i # 1
    <3>1. PICK j \in 1 .. Len(cache_list) : new[i] = cache_list[j]
      BY <1>4, <2>3
    <3>2. cache_map[cache_list[j].key] = cache_list[j]
      BY DEF LRUInv, ListAndMapAgree
    <3>3. QED
      BY <1>4, <2>1, <2>3, <3>1, <3>2 DEF Mapped
  <2>4. QED
    BY <2>2, <2>3
<1>7. IsFiniteSet(DOMAIN map) /\ Cardinality(DOMAIN map) = Len(new)
  BY <1>2, <1>3, <1>5, CountKeys
<1>8. DOMAIN map \subseteq Key /\ map \in [DOMAIN map -> Entry]
  BY <1>1 DEF Mapped, LRUInv, LRUTypeOK
<1>9. DOMAIN uses \subseteq Key /\ uses \in [DOMAIN uses -> SUBSET Key]
  BY <1>1 DEF Touched, LRUInv, LRUTypeOK
<1>10. ASSUME NEW l \in DOMAIN uses
       PROVE  IsFiniteSet(uses[l]) /\ (l \notin DOMAIN map => Cardinality(uses[l]) >= MaxSize)
  <2>1. CASE l = e.key
    <3>1. uses[l] = {} /\ l \in DOMAIN map
      BY <2>1 DEF Touched, Mapped
    <3>2. QED
      BY <3>1, FS_EmptySet
  <2>2. CASE l # e.key
    <3>1. uses[l] = since[l] \cup {e.key} /\ l \in DOMAIN since
      BY <2>2 DEF Touched
    <3>2. /\ IsFiniteSet(since[l])
          /\ l \notin DOMAIN cache_map => Cardinality(since[l]) >= MaxSize
      BY <3>1 DEF LRUInv, GoneForAReason
    <3>3. IsFiniteSet(uses[l])
      BY <3>1, <3>2, FS_AddElement
    <3>4. Cardinality(since[l]) <= Cardinality(uses[l])
      BY <3>1, <3>3, FS_Subset
    <3>5. Cardinality(since[l]) \in Nat /\ Cardinality(uses[l]) \in Nat
      BY <3>2, <3>3, FS_CardinalityType
    <3>6. l \notin DOMAIN map => l \notin DOMAIN cache_map
      BY DEF Mapped
    <3>7. QED
      BY <1>1, <3>2, <3>3, <3>4, <3>5, <3>6
  <2>3. QED
    BY <2>1, <2>2
<1> HIDE DEF new, map, uses
<1>11. Len(new) <= MaxSize + 1
  BY <1>1, <1>2
<1>12. QED
  BY <1>2, <1>3, <1>5, <1>6, <1>7, <1>8, <1>9, <1>10, <1>11 DEF new, map, uses

(* A state after a use in which nothing was evicted                        *)
LEMMA NothingEvicted ==
  ASSUME LRUInv, NEW e \in Entry,
         cache_list' = Fronted(cache_list, e),
         cache_map' = Mapped(cache_map, e),
         since' = Touched(since, e.key),
         Cardinality(DOMAIN Mapped(cache_map, e)) <= MaxSize
  PROVE  LRUInv'
<1> DEFINE new == Fronted(cache_list, e)
           map == Mapped(cache_map, e)
           uses == Touched(since, e.key)
<1>1. /\ cache_list' \in Seq(Entry)
      /\ Distinct(cache_list') /\ Ordered(cache_list', since')
      /\ DOMAIN cache_map' = Keys(cache_list')
      /\ \A i \in 1 .. Len(cache_list') : cache_map'[cache_list'[i].key] = cache_list'[i]
      /\ Len(cache_list') <= MaxSize
      /\ DOMAIN cache_map' \subseteq Key /\ cache_map' \in [DOMAIN cache_map' -> Entry]
      /\ DOMAIN since' \subseteq Key /\ since' \in [DOMAIN since' -> SUBSET Key]
      /\ \A l \in DOMAIN since' :
           /\ IsFiniteSet(since'[l])
           /\ l \notin DOMAIN cache_map' => Cardinality(since'[l]) >= MaxSize
  <2>1. /\ new \in Seq(Entry) /\ Distinct(new) /\ Ordered(new, uses)
        /\ DOMAIN map = Keys(new)
        /\ \A i \in 1 .. Len(new) : map[new[i].key] = new[i]
        /\ Cardinality(DOMAIN map) = Len(new)
        /\ DOMAIN map \subseteq Key /\ map \in [DOMAIN map -> Entry]
        /\ DOMAIN uses \subseteq Key /\ uses \in [DOMAIN uses -> SUBSET Key]
        /\ \A l \in DOMAIN uses :
             /\ IsFiniteSet(uses[l])
             /\ l \notin DOMAIN map => Cardinality(uses[l]) >= MaxSize
    BY UseKeepsOrder
  <2>2. /\ cache_list' = new /\ cache_map' = map /\ since' = uses
        /\ Cardinality(DOMAIN map) <= MaxSize
    OBVIOUS
  <2> HIDE DEF new, map, uses
  <2> QED
    BY <2>1, <2>2
<1>2. DOMAIN cache_list' = 1 .. Len(cache_list')
  <2>1. cache_list' \in Seq(Entry)
    BY <1>1
  <2> QED
    BY ONLY <2>1
<1>3. LRUTypeOK'
  BY <1>1 DEF LRUTypeOK
<1>4. ListAndMapAgree'
  BY <1>1, <1>2 DEF ListAndMapAgree, Distinct, Keys
<1>5. QED
  BY <1>1, <1>3, <1>4 DEF LRUInv, GoneForAReason

(* A state after a use in which the last entry was evicted: as many keys   *)
(* as the cache has places were used since its last use.                   *)
LEMMA LastEvicted ==
  ASSUME LRUInv, NEW e \in Entry,
         cache_list' = SubSeq(Fronted(cache_list, e), 1, Len(Fronted(cache_list, e)) - 1),
         NEW last, last = Fronted(cache_list, e)[Len(Fronted(cache_list, e))].key,
         cache_map' = [l \in DOMAIN Mapped(cache_map, e) \ {last} |-> Mapped(cache_map, e)[l]],
         since' = Touched(since, e.key),
         Cardinality(DOMAIN Mapped(cache_map, e)) > MaxSize
  PROVE  /\ LRUInv'
         /\ last \in DOMAIN cache_map /\ last # e.key
         /\ Cardinality(DOMAIN Mapped(cache_map, e)) = MaxSize + 1
<1> DEFINE new == Fronted(cache_list, e)
           map == Mapped(cache_map, e)
<1>1. /\ new \in Seq(Entry) /\ Len(new) >= 1 /\ new[1] = e
      /\ Distinct(new) /\ Ordered(new, since')
      /\ DOMAIN map = Keys(new)
      /\ \A i \in 1 .. Len(new) : map[new[i].key] = new[i]
      /\ Cardinality(DOMAIN map) = Len(new)
      /\ Len(new) <= MaxSize + 1
      /\ DOMAIN map \subseteq Key /\ map \in [DOMAIN map -> Entry]
      /\ DOMAIN since' \subseteq Key /\ since' \in [DOMAIN since' -> SUBSET Key]
      /\ \A l \in DOMAIN since' :
           /\ IsFiniteSet(since'[l])
           /\ l \notin DOMAIN map => Cardinality(since'[l]) >= MaxSize
  BY UseKeepsOrder
<1>2. MaxSize \in Nat /\ MaxSize >= 1
  BY MaxSizeAssumption
<1>3. DOMAIN map = DOMAIN cache_map \cup {e.key}
  BY DEF Mapped
<1>4. /\ Cardinality(DOMAIN map) > MaxSize
      /\ last = new[Len(new)].key
      /\ cache_list' = SubSeq(new, 1, Len(new) - 1)
      /\ cache_map' = [l \in DOMAIN map \ {last} |-> map[l]]
  OBVIOUS
<1> HIDE DEF new, map
<1>5. Len(new) \in Nat /\ Len(new) = MaxSize + 1 /\ Len(new) \in 1 .. Len(new)
  BY <1>1, <1>2, <1>4
<1>6. /\ cache_list' \in Seq(Entry) /\ Len(cache_list') = MaxSize
      /\ \A i \in 1 .. Len(cache_list') : cache_list'[i] = new[i]
      /\ Distinct(cache_list') /\ Ordered(cache_list', since')
      /\ Keys(cache_list') = Keys(new) \ {last}
  <2> DEFINE short == SubSeq(new, 1, Len(new) - 1)
  <2>1. Len(new) - 1 = MaxSize
    BY <1>2, <1>5
  <2>2. /\ short \in Seq(Entry) /\ Len(short) = Len(new) - 1
        /\ \A i \in 1 .. Len(short) : short[i] = new[i]
        /\ Distinct(short) /\ Ordered(short, since')
        /\ Keys(short) = Keys(new) \ {new[Len(new)].key}
    BY <1>1, CutLast
  <2>3. cache_list' = short
    BY <1>4
  <2> HIDE DEF short
  <2>4. QED
    BY <1>4, <2>1, <2>2, <2>3
<1>7. last \in DOMAIN cache_map /\ last # e.key
  <2>1. last # e.key
    <3>1. 1 \in 1 .. Len(new) /\ 1 # Len(new)
      BY <1>2, <1>5
    <3>2. QED
      BY <1>1, <1>4, <1>5, <3>1 DEF Distinct
  <2>2. last \in Keys(new)
    BY <1>4, <1>5 DEF Keys
  <2>3. QED
    BY <1>1, <1>3, <2>1, <2>2
<1>8. DOMAIN cache_map' = Keys(cache_list')
  BY <1>1, <1>4, <1>6
<1>9. DOMAIN cache_list' = 1 .. Len(cache_list')
  BY <1>6
<1>10. LRUTypeOK'
  <2>1. DOMAIN cache_map' \subseteq Key /\ cache_map' \in [DOMAIN cache_map' -> Entry]
    BY <1>1, <1>4
  <2>2. Len(cache_list') <= MaxSize
    BY <1>2, <1>6
  <2>3. QED
    BY <1>1, <1>6, <2>1, <2>2 DEF LRUTypeOK
<1>11. ListAndMapAgree'
  <2>1. ASSUME NEW i \in 1 .. Len(cache_list')
        PROVE  cache_map'[cache_list'[i].key] = cache_list'[i]
    <3>1. cache_list'[i].key \in DOMAIN cache_map'
      BY <1>8 DEF Keys
    <3>2. cache_list'[i] = new[i] /\ i \in 1 .. Len(new)
      BY <1>2, <1>5, <1>6
    <3>3. /\ map[new[i].key] = new[i]
          /\ cache_map'[cache_list'[i].key] = map[cache_list'[i].key]
      BY <1>1, <1>4, <3>1, <3>2
    <3> QED
      BY <3>2, <3>3
  <2>2. QED
    BY <1>6, <1>8, <1>9, <2>1 DEF ListAndMapAgree, Distinct, Keys
<1>12. GoneForAReason'
  <2>1. ASSUME NEW l \in DOMAIN since', l \notin DOMAIN cache_map'
        PROVE  Cardinality(since'[l]) >= MaxSize
    <3>1. CASE l = last
      <4>1. since'[l] = KeysBefore(new, Len(new))
        BY <1>1, <1>4, <1>5, <3>1 DEF Ordered
      <4>2. Len(new) \in 1 .. Len(new) + 1
        BY <1>5
      <4>3. Cardinality(since'[l]) = Len(new) - 1
        BY <1>1, <4>1, <4>2, CountKeysBefore
      <4>4. QED
        BY <1>2, <1>5, <4>3
    <3>2. CASE l # last
      BY <1>1, <1>4, <2>1, <3>2
    <3>3. QED
      BY <3>1, <3>2
  <2>2. QED
    BY <1>1, <2>1 DEF GoneForAReason
<1>13. QED
  BY <1>1, <1>5, <1>6, <1>7, <1>10, <1>11, <1>12 DEF LRUInv, map

-----------------------------------------------------------------------------
(* The steps *)

(* The entry of a key that is in the cache *)
LEMMA CachedEntry ==
  ASSUME LRUInv, NEW k \in DOMAIN cache_map
  PROVE  /\ cache_map[k] \in Entry /\ cache_map[k].key = k
         /\ DOMAIN cache_map = Keys(cache_list)
         /\ Mapped(cache_map, cache_map[k]) = cache_map
         /\ Cardinality(DOMAIN cache_map) <= MaxSize
<1>1. /\ DOMAIN cache_map = Keys(cache_list)
      /\ cache_list \in Seq(Entry) /\ Distinct(cache_list)
      /\ Len(cache_list) <= MaxSize
      /\ cache_map \in [DOMAIN cache_map -> Entry]
  BY DEF LRUInv, LRUTypeOK, ListAndMapAgree, Keys, Distinct
<1>2. PICK i \in 1 .. Len(cache_list) : k = cache_list[i].key
  BY <1>1 DEF Keys
<1>3. cache_map[k] \in Entry /\ cache_map[k].key = k
  BY <1>1, <1>2 DEF LRUInv, ListAndMapAgree
<1>4. Mapped(cache_map, cache_map[k]) = cache_map
  BY <1>1, <1>3 DEF Mapped
<1>5. QED
  BY <1>1, <1>3, <1>4, CountKeys

LEMMA GetKeeps == ASSUME LRUInv, NEW k \in Key, Get(k) PROVE LRUInv' /\ cache_map' = cache_map
<1> DEFINE e == cache_map[k]
<1>1. k \in DOMAIN cache_map
  BY DEF Get
<1>2. /\ e \in Entry /\ e.key = k
      /\ DOMAIN cache_map = Keys(cache_list)
      /\ Mapped(cache_map, e) = cache_map
      /\ Cardinality(DOMAIN cache_map) <= MaxSize
  BY <1>1, CachedEntry
<1>3. /\ cache_list' = Fronted(cache_list, e)
      /\ since' = Touched(since, e.key)
      /\ cache_map' = Mapped(cache_map, e)
  BY <1>1, <1>2 DEF Get, Used, Fronted, Touched
<1> HIDE DEF e
<1>4. QED
  BY <1>2, <1>3, NothingEvicted

(* What a Put does, in the terms of the lemmas above                       *)
LEMMA PutIs ==
  ASSUME LRUInv, NEW k \in Key, NEW v \in Value, Put(k, v)
  PROVE  LET e    == [key |-> k, value |-> v]
             new  == Fronted(cache_list, e)
             map  == Mapped(cache_map, e)
             full == Cardinality(DOMAIN map) > MaxSize
         IN  /\ e \in Entry /\ e.key = k /\ e.value = v
             /\ since' = Touched(since, e.key)
             /\ ~full => cache_list' = new /\ cache_map' = map
             /\ full => /\ cache_list' = SubSeq(new, 1, Len(new) - 1)
                        /\ cache_map' = [l \in DOMAIN map \ {new[Len(new)].key} |-> map[l]]
<1> DEFINE e   == [key |-> k, value |-> v]
           new == Fronted(cache_list, e)
           map == Mapped(cache_map, e)
           list0 == <<e>> \o (IF k \in DOMAIN cache_map THEN Erased(cache_list, k)
                              ELSE cache_list)
           map0 == [l \in DOMAIN cache_map \cup {k} |-> IF l = k THEN e ELSE cache_map[l]]
           full == Cardinality(DOMAIN map0) > MaxSize
<1>1. e \in Entry /\ e.key = k /\ e.value = v
  BY DEF Entry
<1>2. DOMAIN cache_map = Keys(cache_list)
  BY DEF LRUInv, LRUTypeOK, ListAndMapAgree, Keys
<1>3. list0 = new /\ map0 = map
  BY <1>1, <1>2 DEF Fronted, Mapped
<1>4. /\ cache_list' = IF full THEN SubSeq(list0, 1, Len(list0) - 1) ELSE list0
      /\ cache_map' = [l \in IF full THEN DOMAIN map0 \ {list0[Len(list0)].key} ELSE DOMAIN map0
                        |-> map0[l]]
  BY DEF Put
<1>5. since' = Touched(since, e.key)
  BY <1>1 DEF Put, Used, Touched
<1>6. map = [l \in DOMAIN map |-> map[l]]
  BY DEF Mapped
<1> HIDE DEF e, new, map, list0, map0
<1>7. QED
  BY <1>1, <1>3, <1>4, <1>5, <1>6 DEF e, new, map

LEMMA PutKeeps ==
  ASSUME LRUInv, NEW k \in Key, NEW v \in Value, Put(k, v)
  PROVE  /\ LRUInv'
         /\ LET map  == Mapped(cache_map, [key |-> k, value |-> v])
            IN  \/ cache_map' = map /\ Cardinality(DOMAIN map) <= MaxSize
                \/ \E last \in DOMAIN cache_map \ {k} :
                     /\ cache_map' = [l \in DOMAIN map \ {last} |-> map[l]]
                     /\ Cardinality(DOMAIN map) > MaxSize
<1> DEFINE e   == [key |-> k, value |-> v]
           new == Fronted(cache_list, e)
           map == Mapped(cache_map, e)
<1>1. /\ e \in Entry /\ e.key = k /\ e.value = v
      /\ since' = Touched(since, e.key)
      /\ ~(Cardinality(DOMAIN map) > MaxSize) => cache_list' = new /\ cache_map' = map
      /\ Cardinality(DOMAIN map) > MaxSize =>
           /\ cache_list' = SubSeq(new, 1, Len(new) - 1)
           /\ cache_map' = [l \in DOMAIN map \ {new[Len(new)].key} |-> map[l]]
  BY PutIs
<1> HIDE DEF e
<1>2. CASE Cardinality(DOMAIN map) > MaxSize
  <2>1. PICK last : last = new[Len(new)].key
    OBVIOUS
  <2>2. /\ cache_list' = SubSeq(new, 1, Len(new) - 1)
        /\ cache_map' = [l \in DOMAIN map \ {last} |-> map[l]]
    BY <1>1, <1>2, <2>1
  <2>3. LRUInv' /\ last \in DOMAIN cache_map /\ last # e.key
    BY <1>1, <1>2, <2>1, <2>2, LastEvicted
  <2>4. QED
    BY <1>1, <1>2, <2>2, <2>3 DEF e
<1>3. CASE ~(Cardinality(DOMAIN map) > MaxSize)
  <2>1. Cardinality(DOMAIN map) \in Nat /\ MaxSize \in Nat
    BY <1>1, UseKeepsOrder, FS_CardinalityType, MaxSizeAssumption
  <2>2. Cardinality(DOMAIN map) <= MaxSize /\ cache_list' = new /\ cache_map' = map
    BY <1>1, <1>3, <2>1
  <2>3. LRUInv'
    BY <1>1, <2>2, NothingEvicted
  <2>4. QED
    BY <2>2, <2>3 DEF e
<1>4. QED
  BY <1>2, <1>3

LEMMA EmptyCache ==
  ASSUME NEW list, list = <<>>, NEW map, map = [k \in {} |-> k], NEW uses, uses = [k \in {} |-> {}]
  PROVE  /\ list \in Seq(Entry) /\ Len(list) = 0 /\ DOMAIN list = {}
         /\ DOMAIN map = {} /\ map \in [DOMAIN map -> Entry]
         /\ DOMAIN uses = {} /\ uses \in [DOMAIN uses -> SUBSET Key]
OBVIOUS

LEMMA ClearKeeps == ASSUME Clear PROVE LRUInv'
<1>1. /\ cache_list' \in Seq(Entry) /\ Len(cache_list') = 0 /\ DOMAIN cache_list' = {}
      /\ DOMAIN cache_map' = {} /\ cache_map' \in [DOMAIN cache_map' -> Entry]
      /\ DOMAIN since' = {} /\ since' \in [DOMAIN since' -> SUBSET Key]
  BY EmptyCache DEF Clear
<1>2. QED
  BY <1>1, MaxSizeAssumption DEF LRUInv, LRUTypeOK, ListAndMapAgree, Ordered, GoneForAReason

LEMMA LRUInit == CacheInit => LRUInv
<1> SUFFICES ASSUME CacheInit PROVE LRUInv
  OBVIOUS
<1>1. /\ cache_list \in Seq(Entry) /\ Len(cache_list) = 0 /\ DOMAIN cache_list = {}
      /\ DOMAIN cache_map = {} /\ cache_map \in [DOMAIN cache_map -> Entry]
      /\ DOMAIN since = {} /\ since \in [DOMAIN since -> SUBSET Key]
  BY EmptyCache DEF CacheInit
<1>2. QED
  BY <1>1, MaxSizeAssumption DEF LRUInv, LRUTypeOK, ListAndMapAgree, Ordered, GoneForAReason

(* A copy of the cache is the cache: the map made anew from the list is    *)
(* the one there was.                                                      *)
LEMMA CopyIsTheSame == ASSUME LRUInv, Copy PROVE UNCHANGED cacheVars
<1>1. /\ cache_list \in Seq(Entry) /\ Distinct(cache_list)
      /\ DOMAIN cache_map = {cache_list[i].key : i \in DOMAIN cache_list}
      /\ DOMAIN cache_list = 1 .. Len(cache_list)
      /\ cache_map \in [DOMAIN cache_map -> Entry]
  BY DEF LRUInv, LRUTypeOK, ListAndMapAgree, Distinct
<1>2. \A k \in DOMAIN cache_map : cache_list[Place(cache_list, k)] = cache_map[k]
  <2> TAKE k \in DOMAIN cache_map
  <2>1. PICK i \in DOMAIN cache_list : cache_list[i].key = k
    BY <1>1
  <2>2. Place(cache_list, k) \in DOMAIN cache_list
        /\ cache_list[Place(cache_list, k)].key = k
    BY <2>1 DEF Place
  <2>3. QED
    BY <2>2 DEF LRUInv, ListAndMapAgree
<1>3. cache_map' = [k \in DOMAIN cache_map |-> cache_list[Place(cache_list, k)]]
  BY <1>1 DEF Copy
<1>4. cache_map' = cache_map
  BY <1>1, <1>2, <1>3
<1>5. QED
  BY <1>4 DEF Copy, cacheVars

LEMMA LRUKept == LRUInv /\ [CacheNext]_cacheVars => LRUInv'
<1> SUFFICES ASSUME LRUInv, [CacheNext]_cacheVars PROVE LRUInv'
  OBVIOUS
<1>1. CASE UNCHANGED cacheVars
  BY <1>1 DEF cacheVars, LRUInv, LRUTypeOK, ListAndMapAgree, Ordered, KeysBefore, GoneForAReason
<1>2. ASSUME NEW k \in Key, Get(k) PROVE LRUInv'
  BY <1>2, GetKeeps
<1>3. ASSUME NEW k \in Key, NEW v \in Value, Put(k, v) PROVE LRUInv'
  BY <1>3, PutKeeps
<1>4. CASE Clear
  BY <1>4, ClearKeeps
<1>5. CASE Copy
  BY <1>1, <1>5, CopyIsTheSame
<1>6. QED
  BY <1>1, <1>2, <1>3, <1>4, <1>5 DEF CacheNext

LEMMA LRUAlways == CacheSpec => []LRUInv
BY LRUInit, LRUKept, PTL DEF CacheSpec

-----------------------------------------------------------------------------
(* The cache never holds more than max_size_ entries (put).                *)
THEOREM CacheTypes == CacheSpec => []LRUTypeOK
<1>1. LRUInv => LRUTypeOK
  BY DEF LRUInv
<1>2. QED
  BY <1>1, LRUAlways, PTL

(* One entry per key of the map, and the map leads to it: no iterator      *)
(* dangles (get, put, clear, the copies).                                  *)
THEOREM NoIteratorDangles == CacheSpec => []ListAndMapAgree
<1>1. LRUInv => ListAndMapAgree
  BY DEF LRUInv
<1>2. QED
  BY <1>1, LRUAlways, PTL

(* What is evicted is what was used longest ago: a key is in the cache     *)
(* exactly while fewer than max_size_ others were used since (get, put).   *)
THEOREM EvictsTheLeastRecentlyUsed == CacheSpec => []LeastRecentlyUsedGoes
<1>1. LRUInv => LeastRecentlyUsedGoes
  <2> SUFFICES ASSUME LRUInv, NEW k \in Key
               PROVE  k \in DOMAIN cache_map
                        <=> k \in DOMAIN since /\ Cardinality(since[k]) < MaxSize
    BY DEF LeastRecentlyUsedGoes
  <2>1. /\ cache_list \in Seq(Entry) /\ Distinct(cache_list)
        /\ DOMAIN cache_map = Keys(cache_list)
        /\ Len(cache_list) \in Nat /\ Len(cache_list) <= MaxSize /\ MaxSize \in Nat
        /\ Ordered(cache_list, since)
    BY MaxSizeAssumption DEF LRUInv, LRUTypeOK, ListAndMapAgree, Distinct, Keys
  <2>2. ASSUME k \in DOMAIN cache_map
        PROVE  k \in DOMAIN since /\ Cardinality(since[k]) < MaxSize
    <3>1. PICK i \in 1 .. Len(cache_list) : cache_list[i].key = k
      BY <2>1, <2>2 DEF Keys
    <3>2. i \in 1 .. Len(cache_list) + 1 /\ i \in Nat
      BY <2>1
    <3>3. Cardinality(since[k]) = i - 1
      BY <2>1, <3>1, <3>2, CountKeysBefore DEF Ordered
    <3>4. QED
      BY <2>1, <3>1, <3>2, <3>3 DEF Ordered
  <2>3. ASSUME k \in DOMAIN since, k \notin DOMAIN cache_map
        PROVE  ~(Cardinality(since[k]) < MaxSize)
    <3>1. IsFiniteSet(since[k]) /\ Cardinality(since[k]) >= MaxSize
      BY <2>3 DEF LRUInv, GoneForAReason
    <3>2. QED
      BY <2>1, <3>1, FS_CardinalityType
  <2>4. QED
    BY <2>2, <2>3
<1>2. QED
  BY <1>1, LRUAlways, PTL

(* To its users the cache is a bounded map that forgets: it may lose one   *)
(* other entry when a new one comes to a full cache, and nothing else ever *)
(* (get, put, clear, the copies).                                          *)
THEOREM CacheIsABoundedMap == CacheSpec => ImplementsBoundedCache
<1> DEFINE content == [k \in DOMAIN cache_map |-> cache_map[k].value]
<1>1. CacheInit => Cache!Init
  BY DEF CacheInit, Cache!Init
<1>2. LRUInv /\ [CacheNext]_cacheVars => [Cache!Next]_content
  <2> SUFFICES ASSUME LRUInv, [CacheNext]_cacheVars PROVE [Cache!Next]_content
    OBVIOUS
  <2>1. CASE UNCHANGED cacheVars
    BY <2>1 DEF cacheVars
  <2>2. ASSUME NEW k \in Key, Get(k) PROVE content' = content
    BY <2>2, GetKeeps
  <2>3. CASE Clear
    BY <2>3 DEF Clear, Cache!Next, Cache!Clear
  <2>4. CASE Copy
    BY <2>1, <2>4, CopyIsTheSame
  <2>5. ASSUME NEW k \in Key, NEW v \in Value, Put(k, v) PROVE Cache!Put(k, v)
    <3> DEFINE map    == Mapped(cache_map, [key |-> k, value |-> v])
               others == DOMAIN cache_map \ {k}
    <3>1. /\ IsFiniteSet(DOMAIN map) /\ DOMAIN map = others \cup {k}
          /\ \A l \in DOMAIN map : map[l].value = IF l = k THEN v ELSE cache_map[l].value
      BY <2>5, PutIs, UseKeepsOrder DEF Mapped
    <3>2. \/ cache_map' = map /\ Cardinality(DOMAIN map) <= MaxSize
          \/ \E last \in DOMAIN cache_map \ {k} :
               /\ cache_map' = [l \in DOMAIN map \ {last} |-> map[l]]
               /\ Cardinality(DOMAIN map) > MaxSize
      BY <2>5, PutKeeps
    <3> HIDE DEF map
    <3>3. /\ Cardinality(others) \in Nat /\ MaxSize \in Nat
          /\ Cardinality(DOMAIN map) = Cardinality(others) + 1
      <4>1. IsFiniteSet(others)
        BY <3>1, FS_Subset
      <4>2. Cardinality(others \cup {k}) = Cardinality(others) + 1
        BY <4>1, FS_AddElement
      <4>3. QED
        BY <3>1, <4>1, <4>2, FS_CardinalityType, MaxSizeAssumption
    <3>4. SUFFICES \E dropped \in SUBSET others :
            /\ Cardinality(dropped) = IF Cardinality(others) >= MaxSize THEN 1 ELSE 0
            /\ content' = [l \in (others \ dropped) \cup {k} |->
                             IF l = k THEN v ELSE content[l]]
      <4>1. DOMAIN content \ {k} = others
        OBVIOUS
      <4>2. \A S : Cache!Cardinality(S) = Cardinality(S)
        BY Zenon DEF Cache!Cardinality, Cardinality
      <4> HIDE DEF others
      <4>3. QED
        BY <4>1, <4>2 DEF Cache!Put
    <3>5. ASSUME NEW last \in others, cache_map' = [l \in DOMAIN map \ {last} |-> map[l]],
                 Cardinality(DOMAIN map) > MaxSize
          PROVE  /\ Cardinality({last}) = IF Cardinality(others) >= MaxSize THEN 1 ELSE 0
                 /\ content' = [l \in (others \ {last}) \cup {k} |->
                                  IF l = k THEN v ELSE content[l]]
      <4>1. Cardinality({last}) = 1
        BY FS_Singleton
      <4>2. Cardinality(others) >= MaxSize
        BY <3>3, <3>5
      <4>3. DOMAIN cache_map' = (others \ {last}) \cup {k}
        BY <3>1, <3>5
      <4>4. \A l \in DOMAIN cache_map' :
              cache_map'[l].value = IF l = k THEN v ELSE cache_map[l].value
        BY <3>1, <3>5
      <4>5. QED
        BY <4>1, <4>2, <4>3, <4>4
    <3>6. ASSUME cache_map' = map, Cardinality(DOMAIN map) <= MaxSize
          PROVE  /\ Cardinality({}) = IF Cardinality(others) >= MaxSize THEN 1 ELSE 0
                 /\ content' = [l \in (others \ {}) \cup {k} |->
                                  IF l = k THEN v ELSE content[l]]
      <4>1. Cardinality({}) = 0
        BY FS_EmptySet
      <4>2. ~(Cardinality(others) >= MaxSize)
        BY <3>3, <3>6
      <4>3. QED
        BY <3>1, <3>6, <4>1, <4>2
    <3>7. ASSUME NEW last \in others PROVE {last} \in SUBSET others
      OBVIOUS
    <3>8. QED
      BY <3>2, <3>5, <3>6, <3>7
  <2>6. QED
    BY <2>1, <2>2, <2>3, <2>4, <2>5 DEF CacheNext, Cache!Next
<1>3. QED
  BY <1>1, <1>2, LRUAlways, PTL DEF CacheSpec, ImplementsBoundedCache, Cache!Spec

(***************************************************************************)
(* The loops over calls: what they keep says what they have seen.          *)
(***************************************************************************)
(* Call i is of a source, and no processor was called since *)
Fresh(seq, i) ==
  /\ HasType(seq[i], "SENSITIVE_SOURCE")
  /\ \A k \in i .. Len(seq) : ~HasType(seq[k], "DATA_PROCESSOR")

(* No source before i reaches it *)
FirstSource(seq, i) ==
  \A h \in 1 .. i - 1 :
    HasType(seq[h], "SENSITIVE_SOURCE") => \E k \in h .. i : HasType(seq[k], "DATA_PROCESSOR")

(* The pair is the leak from call i to call j *)
Leak(seq, pair, i, j) ==
  /\ i < j /\ seq[i] = pair[1] /\ seq[j] = pair[2]
  /\ Exfiltrates(SubSeq(seq, i, j))
  /\ ~Exfiltrates(SubSeq(seq, 1, j - 1))
  /\ FirstSource(seq, i)

(* Until a pair is found, the sources that are active are those no         *)
(* processor was called after, the earliest in front.                      *)
ScanInv ==
  /\ calls \in Seq(Tool)
  /\ scan \in [active : Seq(Tool), found : Seq(Tool)]
  /\ scan.found = <<>> =>
       /\ ~Exfiltrates(calls)
       /\ scan.active = <<>> => \A i \in 1 .. Len(calls) : ~Fresh(calls, i)
       /\ scan.active # <<>> =>
            \E i \in 1 .. Len(calls) :
              Fresh(calls, i) /\ calls[i] = scan.active[1] /\ FirstSource(calls, i)
  /\ scan.found # <<>> =>
       /\ Exfiltrates(calls)
       /\ \E i, j \in 1 .. Len(calls) : Leak(calls, scan.found, i, j)

LEMMA OneType ==
  ASSUME NEW t, NEW a, NEW b, HasType(t, a), HasType(t, b)
  PROVE  a = b
BY DEF HasType

(* The four branches of the loop *)
LEMMA ScanCallIs ==
  ASSUME NEW s, NEW t
  PROVE  /\ s.found # <<>> => ScanCall(s, t) = s
         /\ s.found = <<>> /\ HasType(t, "SENSITIVE_SOURCE") =>
              ScanCall(s, t) = [s EXCEPT !.active = Append(@, t)]
         /\ s.found = <<>> /\ HasType(t, "DATA_PROCESSOR") =>
              ScanCall(s, t) = [s EXCEPT !.active = <<>>]
         /\ s.found = <<>> /\ HasType(t, "EXTERNAL_DESTINATION") /\ s.active # <<>> =>
              ScanCall(s, t) = [s EXCEPT !.found = <<s.active[1], t>>]
         /\ /\ s.found = <<>>
            /\ ~HasType(t, "SENSITIVE_SOURCE") /\ ~HasType(t, "DATA_PROCESSOR")
            /\ ~(HasType(t, "EXTERNAL_DESTINATION") /\ s.active # <<>>)
            => ScanCall(s, t) = s
<1>1. /\ HasType(t, "SENSITIVE_SOURCE") => ~HasType(t, "DATA_PROCESSOR")
      /\ HasType(t, "SENSITIVE_SOURCE") => ~HasType(t, "EXTERNAL_DESTINATION")
      /\ HasType(t, "DATA_PROCESSOR") => ~HasType(t, "EXTERNAL_DESTINATION")
  BY OneType
<1> QED BY <1>1, Zenon DEF ScanCall

(* One more call, after those that were there *)
LEMMA OneMore ==
  ASSUME NEW seq \in Seq(Tool), NEW t \in Tool, NEW more, more = Append(seq, t)
  PROVE  /\ more \in Seq(Tool) /\ Len(more) = Len(seq) + 1
         /\ more[Len(more)] = t
         /\ \A k \in 1 .. Len(seq) : more[k] = seq[k]
         /\ Len(seq) \in Nat
BY AppendProperties, LenProperties

LEMMA SubSeqSame ==
  ASSUME NEW seq \in Seq(Tool), NEW t \in Tool, NEW more, more = Append(seq, t),
         NEW i \in 1 .. Len(seq), NEW j \in 0 .. Len(seq)
  PROVE  SubSeq(more, i, j) = SubSeq(seq, i, j)
BY OneMore, SMTT(30)

(* A leak among the calls there were is still one, and a new one ends at   *)
(* the new call.                                                           *)
LEMMA ExfiltratesMore ==
  ASSUME NEW seq \in Seq(Tool), NEW t \in Tool, NEW more, more = Append(seq, t)
  PROVE  Exfiltrates(more) <=>
           \/ Exfiltrates(seq)
           \/ HasType(t, "EXTERNAL_DESTINATION") /\ \E i \in 1 .. Len(seq) : Fresh(seq, i)
<1> DEFINE n == Len(seq)
<1>1. /\ Len(more) = n + 1 /\ n \in Nat /\ more[n + 1] = t
      /\ \A k \in 1 .. n : more[k] = seq[k]
  BY OneMore
<1> HIDE DEF n
<1>2. ASSUME Exfiltrates(seq) PROVE Exfiltrates(more)
  BY <1>1, <1>2 DEF Exfiltrates, n
<1>3. ASSUME HasType(t, "EXTERNAL_DESTINATION"), NEW i \in 1 .. n, Fresh(seq, i)
      PROVE  Exfiltrates(more)
  BY <1>1, <1>3 DEF Exfiltrates, Fresh, n
<1>4. ASSUME Exfiltrates(more), ~Exfiltrates(seq)
      PROVE  HasType(t, "EXTERNAL_DESTINATION") /\ \E i \in 1 .. n : Fresh(seq, i)
  <2>1. PICK i, j \in 1 .. n + 1 :
          /\ i < j
          /\ HasType(more[i], "SENSITIVE_SOURCE") /\ HasType(more[j], "EXTERNAL_DESTINATION")
          /\ \A k \in 1 .. n + 1 : i < k /\ k < j => ~HasType(more[k], "DATA_PROCESSOR")
    BY <1>1, <1>4 DEF Exfiltrates
  <2>2. j = n + 1
    <3>1. ASSUME j # n + 1 PROVE FALSE
      <4>1. i \in 1 .. n /\ j \in 1 .. n
        BY <1>1, <2>1, <3>1
      <4>2. \A k \in 1 .. n : i < k /\ k < j => ~HasType(seq[k], "DATA_PROCESSOR")
        BY <1>1, <2>1
      <4>3. HasType(seq[i], "SENSITIVE_SOURCE") /\ HasType(seq[j], "EXTERNAL_DESTINATION")
        BY <1>1, <2>1, <4>1
      <4> QED BY <1>4, <2>1, <4>1, <4>2, <4>3 DEF Exfiltrates, n
    <3> QED BY <3>1
  <2>3. /\ i \in 1 .. n /\ HasType(seq[i], "SENSITIVE_SOURCE")
        /\ \A k \in i + 1 .. n : ~HasType(seq[k], "DATA_PROCESSOR")
    BY <1>1, <2>1, <2>2
  <2>4. ~HasType(seq[i], "DATA_PROCESSOR")
    BY <2>3, OneType
  <2>5. Fresh(seq, i)
    BY <1>1, <2>3, <2>4 DEF Fresh, n
  <2> QED BY <1>1, <2>1, <2>2, <2>3, <2>5
<1> QED BY <1>2, <1>3, <1>4 DEF n

LEMMA FirstSourceMore ==
  ASSUME NEW seq \in Seq(Tool), NEW t \in Tool, NEW more, more = Append(seq, t),
         NEW i \in 1 .. Len(seq)
  PROVE  FirstSource(more, i) <=> FirstSource(seq, i)
<1>1. Len(seq) \in Nat /\ \A k \in 1 .. Len(seq) : more[k] = seq[k]
  BY OneMore
<1>2. ASSUME NEW h \in 1 .. i - 1
      PROVE  /\ more[h] = seq[h]
             /\ \A k \in h .. i : more[k] = seq[k]
  BY <1>1
<1> QED BY <1>2 DEF FirstSource

LEMMA FreshMore ==
  ASSUME NEW seq \in Seq(Tool), NEW t \in Tool, NEW more, more = Append(seq, t)
  PROVE  /\ \A i \in 1 .. Len(seq) :
              Fresh(more, i) <=> Fresh(seq, i) /\ ~HasType(t, "DATA_PROCESSOR")
         /\ Fresh(more, Len(seq) + 1) <=> HasType(t, "SENSITIVE_SOURCE")
<1> DEFINE n == Len(seq)
<1>1. /\ Len(more) = n + 1 /\ n \in Nat /\ more[n + 1] = t
      /\ \A k \in 1 .. n : more[k] = seq[k]
  BY OneMore
<1>2. HasType(t, "SENSITIVE_SOURCE") => ~HasType(t, "DATA_PROCESSOR")
  BY OneType
<1> HIDE DEF n
<1>3. Fresh(more, n + 1) <=> HasType(t, "SENSITIVE_SOURCE")
  BY <1>1, <1>2 DEF Fresh
<1>4. ASSUME NEW i \in 1 .. n
      PROVE  Fresh(more, i) <=> Fresh(seq, i) /\ ~HasType(t, "DATA_PROCESSOR")
  <2>1. \A k \in i .. n + 1 : k = n + 1 \/ (k \in i .. n /\ more[k] = seq[k])
    BY <1>1
  <2>2. i .. n \subseteq i .. n + 1 /\ n + 1 \in i .. n + 1 /\ more[i] = seq[i]
    BY <1>1
  <2> QED BY <1>1, <2>1, <2>2 DEF Fresh, n
<1> QED BY <1>3, <1>4 DEF n

(* A pair that was found is returned, whatever else is called. *)
LEMMA LeakStays ==
  ASSUME NEW seq \in Seq(Tool), NEW t \in Tool, NEW more, more = Append(seq, t), NEW pair,
         NEW i \in 1 .. Len(seq), NEW j \in 1 .. Len(seq), Leak(seq, pair, i, j)
  PROVE  Leak(more, pair, i, j)
<1>1. Len(seq) \in Nat /\ more[i] = seq[i] /\ more[j] = seq[j]
  BY OneMore
<1>2. 1 \in 1 .. Len(seq) /\ j \in 0 .. Len(seq) /\ j - 1 \in 0 .. Len(seq)
  BY <1>1
<1>3. SubSeq(more, i, j) = SubSeq(seq, i, j)
  BY <1>2, SubSeqSame
<1>4. SubSeq(more, 1, j - 1) = SubSeq(seq, 1, j - 1)
  BY <1>2, SubSeqSame
<1> QED BY <1>1, <1>3, <1>4, FirstSourceMore DEF Leak

(* A destination is called while a source is active. *)
LEMMA LeakFound ==
  ASSUME NEW seq \in Seq(Tool), NEW t \in Tool, NEW more, more = Append(seq, t),
         NEW i \in 1 .. Len(seq), Fresh(seq, i), FirstSource(seq, i), ~Exfiltrates(seq),
         HasType(t, "EXTERNAL_DESTINATION"), NEW pair, pair = <<seq[i], t>>
  PROVE  Leak(more, pair, i, Len(seq) + 1)
<1> DEFINE n == Len(seq)
           part == SubSeq(more, i, n + 1)
<1>1. /\ Len(more) = n + 1 /\ n \in Nat /\ more[n + 1] = t /\ more \in Seq(Tool)
      /\ \A k \in 1 .. n : more[k] = seq[k]
  BY OneMore
<1>2. SubSeq(more, 1, (n + 1) - 1) = seq
  <2>1. 1 \in 1 .. n /\ n \in 0 .. n /\ (n + 1) - 1 = n
    BY <1>1
  <2>2. SubSeq(more, 1, n) = SubSeq(seq, 1, n)
    BY <2>1, SubSeqSame
  <2> QED BY <2>1, <2>2, SubSeqFull
<1>3. /\ Len(part) = n + 2 - i
      /\ \A k \in 1 .. n + 2 - i : part[k] = more[i + k - 1]
  <2>1. i \in Nat /\ i <= n + 1 /\ i >= 1
    BY <1>1
  <2>2. \A k \in i .. n + 1 : more[k] \in Tool
    BY <1>1, <2>1, ElementOfSeq
  <2>3. /\ Len(part) = (n + 1) - i + 1
        /\ \A k \in 1 .. (n + 1) - i + 1 : part[k] = more[i + k - 1]
    BY <1>1, <2>1, <2>2, SubSeqProperties
  <2> QED BY <1>1, <2>1, <2>3
<1> HIDE DEF part
<1>4. /\ part[n + 2 - i] = t
      /\ \A k \in 1 .. n + 1 - i : part[k] = seq[i + k - 1] /\ i + k - 1 \in i .. n
  <2>1. i \in 1 .. n /\ n + 2 - i \in 1 .. n + 2 - i /\ i + (n + 2 - i) - 1 = n + 1
    BY <1>1
  <2>2. part[n + 2 - i] = more[n + 1]
    BY <1>3, <2>1
  <2>3. ASSUME NEW k \in 1 .. n + 1 - i
        PROVE  part[k] = seq[i + k - 1] /\ i + k - 1 \in i .. n
    <3>1. k \in 1 .. n + 2 - i /\ i + k - 1 \in i .. n /\ i + k - 1 \in 1 .. n
      BY <1>1, <2>1
    <3> QED BY <1>1, <1>3, <3>1
  <2> QED BY <1>1, <2>2, <2>3
<1>5. Exfiltrates(part)
  <2>1. HasType(part[n + 2 - i], "EXTERNAL_DESTINATION")
    BY <1>4
  <2>2. 1 \in 1 .. n + 1 - i /\ i + 1 - 1 = i
    BY <1>1
  <2>3. HasType(part[1], "SENSITIVE_SOURCE")
    BY <1>4, <2>2 DEF Fresh
  <2>4. \A k \in 1 .. n + 1 - i : ~HasType(part[k], "DATA_PROCESSOR")
    BY <1>4 DEF Fresh
  <2>5. /\ 1 \in 1 .. Len(part) /\ n + 2 - i \in 1 .. Len(part) /\ 1 < n + 2 - i
        /\ \A k \in 1 .. Len(part) : k < n + 2 - i => k \in 1 .. n + 1 - i
    BY <1>1, <1>3
  <2> QED BY <2>1, <2>3, <2>4, <2>5 DEF Exfiltrates
<1>6. FirstSource(more, i)
  BY FirstSourceMore
<1>7. i < n + 1 /\ more[i] = seq[i] /\ more[n + 1] = t
  BY <1>1
<1>8. Exfiltrates(SubSeq(more, i, n + 1)) /\ ~Exfiltrates(SubSeq(more, 1, (n + 1) - 1))
  BY <1>2, <1>5 DEF part
<1>9. pair[1] = seq[i] /\ pair[2] = t
  OBVIOUS
<1> HIDE DEF n
<1>10. Leak(more, pair, i, n + 1)
  <2>1. /\ i < n + 1 /\ more[i] = pair[1] /\ more[n + 1] = pair[2]
        /\ Exfiltrates(SubSeq(more, i, n + 1)) /\ ~Exfiltrates(SubSeq(more, 1, (n + 1) - 1))
        /\ FirstSource(more, i)
    BY <1>6, <1>7, <1>8, <1>9, Zenon
  <2> QED BY <2>1, Zenon DEF Leak
<1> QED BY <1>10 DEF n

LEMMA ScanKept == ASSUME ScanInv, NEW t \in Tool, LookAtCall(t) PROVE ScanInv'
<1> DEFINE n == Len(calls)
           leak == \E i \in 1 .. n : Fresh(calls, i)
<1>1. /\ calls \in Seq(Tool) /\ n \in Nat
      /\ scan.active \in Seq(Tool) /\ scan.found \in Seq(Tool)
      /\ scan = [active |-> scan.active, found |-> scan.found]
  BY LenProperties DEF ScanInv
<1>2. calls' = Append(calls, t) /\ scan' = ScanCall(scan, t)
  BY DEF LookAtCall
<1>3. /\ calls' \in Seq(Tool) /\ Len(calls') = n + 1 /\ calls'[n + 1] = t
      /\ \A k \in 1 .. n : calls'[k] = calls[k]
  BY <1>1, <1>2, OneMore
<1>4. Exfiltrates(calls') <=> Exfiltrates(calls) \/ (HasType(t, "EXTERNAL_DESTINATION") /\ leak)
  BY <1>1, <1>2, ExfiltratesMore
<1>5. /\ \A i \in 1 .. n :
           /\ Fresh(calls', i) <=> Fresh(calls, i) /\ ~HasType(t, "DATA_PROCESSOR")
           /\ FirstSource(calls', i) <=> FirstSource(calls, i)
      /\ Fresh(calls', n + 1) <=> HasType(t, "SENSITIVE_SOURCE")
  BY <1>1, <1>2, FreshMore, FirstSourceMore
<1>6. 1 .. n + 1 = 1 .. n \cup {n + 1}
  BY <1>1
<1>7. scan.found = <<>> /\ scan.active = <<>> => ~leak
  BY DEF ScanInv
<1> HIDE DEF n, leak
<1>8. CASE scan.found # <<>>
  <2>1. scan' = scan
    BY <1>2, <1>8, ScanCallIs
  <2>2. PICK i, j \in 1 .. n : Leak(calls, scan.found, i, j)
    BY <1>8 DEF ScanInv, n
  <2>3. Leak(calls', scan.found, i, j)
    BY <1>1, <1>2, <2>2, LeakStays DEF n
  <2>4. i \in 1 .. n + 1 /\ j \in 1 .. n + 1
    BY <1>6
  <2>5. Exfiltrates(calls')
    BY <1>4, <1>8 DEF ScanInv
  <2> QED BY <1>3, <1>8, <2>1, <2>3, <2>4, <2>5 DEF ScanInv
<1>9. CASE scan.found = <<>> /\ HasType(t, "SENSITIVE_SOURCE")
  <2>1. scan' = [active |-> Append(scan.active, t), found |-> <<>>]
    BY <1>1, <1>2, <1>9, ScanCallIs
  <2>2. /\ Append(scan.active, t) \in Seq(Tool) /\ Append(scan.active, t) # <<>>
        /\ scan.active = <<>> => Append(scan.active, t)[1] = t
        /\ scan.active # <<>> => Append(scan.active, t)[1] = scan.active[1]
    BY <1>1, AppendProperties, EmptySeq, LenProperties
  <2>3. ~Exfiltrates(calls')
    <3>1. ~HasType(t, "EXTERNAL_DESTINATION")
      BY <1>9, OneType
    <3> QED BY <1>4, <1>9, <3>1 DEF ScanInv
  <2>4. ~HasType(t, "DATA_PROCESSOR")
    BY <1>9, OneType
  <2>5. \E i \in 1 .. n + 1 :
          /\ Fresh(calls', i) /\ calls'[i] = Append(scan.active, t)[1]
          /\ FirstSource(calls', i)
    <3>1. CASE scan.active = <<>>
      <4>1. ASSUME NEW h \in 1 .. n, HasType(calls'[h], "SENSITIVE_SOURCE")
            PROVE  \E k \in h .. n + 1 : HasType(calls'[k], "DATA_PROCESSOR")
        <5>1. HasType(calls[h], "SENSITIVE_SOURCE") /\ ~Fresh(calls, h)
          BY <1>3, <1>7, <1>9, <3>1, <4>1 DEF leak
        <5>2. PICK k \in h .. n : HasType(calls[k], "DATA_PROCESSOR")
          BY <5>1 DEF Fresh, n
        <5>3. k \in 1 .. n /\ k \in h .. n + 1
          BY <1>1, <5>2
        <5> QED BY <1>3, <5>2, <5>3
      <4>2. FirstSource(calls', n + 1)
        <5> SUFFICES ASSUME NEW h \in 1 .. (n + 1) - 1, HasType(calls'[h], "SENSITIVE_SOURCE")
                     PROVE  \E k \in h .. n + 1 : HasType(calls'[k], "DATA_PROCESSOR")
          BY DEF FirstSource
        <5>1. h \in 1 .. n
          BY <1>1
        <5> QED BY <4>1, <5>1, Zenon
      <4>3. Fresh(calls', n + 1)
        BY <1>5, <1>9
      <4> QED BY <1>3, <1>6, <2>2, <3>1, <4>2, <4>3
    <3>2. CASE scan.active # <<>>
      <4>1. PICK i \in 1 .. n : Fresh(calls, i) /\ calls[i] = scan.active[1] /\ FirstSource(calls, i)
        BY <1>9, <3>2 DEF ScanInv, n
      <4> QED BY <1>3, <1>5, <1>6, <2>2, <2>4, <3>2, <4>1
    <3> QED BY <3>1, <3>2
  <2> QED BY <1>3, <2>1, <2>2, <2>3, <2>5 DEF ScanInv
<1>10. CASE scan.found = <<>> /\ HasType(t, "DATA_PROCESSOR")
  <2>1. scan' = [active |-> <<>>, found |-> <<>>]
    BY <1>1, <1>2, <1>10, ScanCallIs
  <2>2. ~HasType(t, "EXTERNAL_DESTINATION") /\ ~HasType(t, "SENSITIVE_SOURCE")
    BY <1>10, OneType
  <2>3. ~Exfiltrates(calls')
    BY <1>4, <1>10, <2>2 DEF ScanInv
  <2>4. \A i \in 1 .. n + 1 : ~Fresh(calls', i)
    BY <1>5, <1>6, <1>10, <2>2
  <2> QED BY <1>3, <2>1, <2>3, <2>4, EmptySeq DEF ScanInv
<1>11. CASE scan.found = <<>> /\ HasType(t, "EXTERNAL_DESTINATION") /\ scan.active # <<>>
  <2>1. scan' = [active |-> scan.active, found |-> <<scan.active[1], t>>]
    BY <1>1, <1>2, <1>11, ScanCallIs
  <2>2. PICK i \in 1 .. n : Fresh(calls, i) /\ calls[i] = scan.active[1] /\ FirstSource(calls, i)
    BY <1>11 DEF ScanInv, n
  <2>3. ~Exfiltrates(calls)
    BY <1>11 DEF ScanInv
  <2>4. Leak(calls', scan'.found, i, n + 1)
    <3>1. scan'.found = <<calls[i], t>>
      BY <2>1, <2>2
    <3> QED BY <1>1, <1>2, <1>11, <2>2, <2>3, <3>1, LeakFound DEF n
  <2>5. i \in 1 .. n + 1 /\ n + 1 \in 1 .. n + 1
    BY <1>1
  <2>6. Exfiltrates(calls')
    BY <1>4, <1>11, <2>2 DEF leak
  <2>7. scan'.found \in Seq(Tool) /\ scan'.found # <<>>
    <3>1. calls[i] \in Tool
      BY <1>1, <2>2, ElementOfSeq DEF n
    <3> QED BY <2>1, <2>2, <3>1
  <2>8. scan' \in [active : Seq(Tool), found : Seq(Tool)]
    BY <1>1, <2>1, <2>7
  <2> QED BY <1>3, <2>4, <2>5, <2>6, <2>7, <2>8 DEF ScanInv
<1>12. CASE /\ scan.found = <<>>
            /\ ~HasType(t, "SENSITIVE_SOURCE") /\ ~HasType(t, "DATA_PROCESSOR")
            /\ ~(HasType(t, "EXTERNAL_DESTINATION") /\ scan.active # <<>>)
  <2>1. scan' = scan
    BY <1>2, <1>12, ScanCallIs
  <2>2. ~Exfiltrates(calls')
    BY <1>4, <1>7, <1>12 DEF ScanInv
  <2>3. scan.active = <<>> => \A i \in 1 .. n + 1 : ~Fresh(calls', i)
    BY <1>5, <1>6, <1>7, <1>12 DEF leak
  <2>4. ASSUME scan.active # <<>>
        PROVE  \E i \in 1 .. n + 1 :
                 Fresh(calls', i) /\ calls'[i] = scan.active[1] /\ FirstSource(calls', i)
    <3>1. PICK i \in 1 .. n : Fresh(calls, i) /\ calls[i] = scan.active[1] /\ FirstSource(calls, i)
      BY <1>12, <2>4 DEF ScanInv, n
    <3> QED BY <1>3, <1>5, <1>6, <1>12, <3>1
  <2>5. scan \in [active : Seq(Tool), found : Seq(Tool)]
    BY DEF ScanInv
  <2> QED BY <1>3, <1>12, <2>1, <2>2, <2>3, <2>4, <2>5 DEF ScanInv
<1> QED BY <1>8, <1>9, <1>10, <1>11, <1>12

-----------------------------------------------------------------------------
(* The run ends at the last call and goes back as far as it can; found     *)
(* says what CyclesFound says.                                             *)
RunInv ==
  /\ calls \in Seq(Tool)
  /\ run.length \in Nat /\ run.found \in BOOLEAN
  /\ run = [tool |-> run.tool, length |-> run.length, found |-> run.found]
  /\ calls = <<>> => ~run.found
  /\ calls # <<>> =>
       LET first == Len(calls) - run.length + 1
       IN  /\ run.length \in 1 .. Len(calls)
           /\ \A k \in first .. Len(calls) : calls[k] = run.tool
           /\ first > 1 => calls[first - 1] # run.tool
  /\ CyclesFound

LEMMA RunKept == ASSUME RunInv, NEW t \in Tool, LookAtCall(t) PROVE RunInv'
<1> DEFINE n == Len(calls)
           long == run'.length
           first == n + 1 - long + 1
           cycle(seq, i, j) ==
             i <= j /\ 1 < j /\ SameTool(seq, i, j) /\ j - i + 1 > ThresholdOf[seq[i]]
<1>1. /\ calls \in Seq(Tool) /\ n \in Nat /\ run.length \in Nat /\ run.found \in BOOLEAN
      /\ ThresholdOf \in [Tool -> Nat] /\ (calls = <<>> <=> n = 0)
  BY ThresholdAssumption, LenProperties, EmptySeq DEF RunInv
<1>2. /\ calls' \in Seq(Tool) /\ Len(calls') = n + 1 /\ calls'[n + 1] = t /\ calls' # <<>>
      /\ \A k \in 1 .. n : calls'[k] = calls[k] /\ calls[k] \in Tool
  BY <1>1, OneMore, ElementOfSeq, AppendProperties DEF LookAtCall
<1>3. /\ run' = [tool |-> t, length |-> long, found |-> run'.found]
      /\ long = IF calls # <<>> /\ t = run.tool THEN run.length + 1 ELSE 1
      /\ run'.found <=> run.found \/ (calls # <<>> /\ long > ThresholdOf[t])
      /\ run'.found \in BOOLEAN
  <2>1. run' = RunFrom(run, t)
    BY DEF LookAtCall
  <2>2. CASE calls = <<>>
    BY <2>1, <2>2, <1>1 DEF RunFrom, RunInv
  <2>3. CASE calls # <<>>
    BY <2>1, <2>3, <1>1 DEF RunFrom, RunOn
  <2> QED BY <2>2, <2>3
<1>4. /\ long \in 1 .. n + 1 /\ first \in 1 .. n + 1
      /\ \A k \in first .. n + 1 : calls'[k] = t
      /\ first > 1 => calls'[first - 1] # t
  <2>1. CASE calls = <<>>
    BY <1>1, <1>2, <1>3, <2>1
  <2>2. CASE calls # <<>> /\ t # run.tool
    <3>1. n > 0 /\ calls[n] = run.tool
      BY <1>1, <2>2 DEF RunInv
    <3>2. long = 1 /\ first = n + 1 /\ first - 1 = n
      BY <1>1, <1>3, <2>2
    <3> QED BY <1>1, <1>2, <2>2, <3>1, <3>2
  <2>3. CASE calls # <<>> /\ t = run.tool
    <3>1. /\ run.length \in 1 .. n
          /\ \A k \in n - run.length + 1 .. n : calls[k] = t
          /\ n - run.length + 1 > 1 => calls[n - run.length + 1 - 1] # t
      BY <2>3 DEF RunInv
    <3>2. long = run.length + 1 /\ first = n - run.length + 1
      BY <1>1, <1>3, <2>3
    <3> HIDE DEF long, first
    <3>3. ASSUME first > 1 PROVE calls'[first - 1] # t
      <4>1. first - 1 \in 1 .. n
        <5>1. run.length \in 1 .. n
          BY <3>1
        <5> HIDE DEF n
        <5> QED BY <1>1, <3>2, <3>3, <5>1
      <4> QED BY <1>2, <3>1, <3>2, <3>3, <4>1
    <3>4. ASSUME NEW k \in first .. n + 1 PROVE calls'[k] = t
      <4>1. k = n + 1 \/ (k \in first .. n /\ k \in 1 .. n)
        <5>1. run.length \in 1 .. n
          BY <3>1
        <5> HIDE DEF n
        <5>2. first \in 1 .. n
          BY <1>1, <3>2, <5>1
        <5> QED BY <1>1, <5>2
      <4> QED BY <1>2, <3>1, <3>2, <4>1
    <3>5. long \in 1 .. n + 1 /\ first \in 1 .. n + 1
      <4>1. run.length \in 1 .. n
        BY <3>1
      <4> HIDE DEF n
      <4>2. n \in Nat
        BY <1>1
      <4> QED BY <3>2, <4>1, <4>2
    <3> QED BY <3>3, <3>4, <3>5
  <2> QED BY <2>1, <2>2, <2>3
<1> HIDE DEF n, long, first
(* A cycle that ends at the new call is part of the run. *)
<1>5. ASSUME NEW i \in 1 .. n + 1
      PROVE  cycle(calls', i, n + 1) => long > ThresholdOf[t]
  <2>1. ASSUME cycle(calls', i, n + 1) PROVE calls'[i] = t /\ i >= first
    <3>1. \A k \in i .. n + 1 : calls'[k] = calls'[i]
      BY <2>1 DEF SameTool
    <3>2. calls'[i] = t
      BY <1>1, <1>2, <3>1
    <3>3. i >= first
      BY <1>1, <1>4, <3>1, <3>2
    <3> QED BY <3>2, <3>3
  <2>2. ThresholdOf[t] \in Nat
    BY <1>1
  <2> QED BY <1>1, <1>4, <2>1, <2>2 DEF first
<1>6. calls # <<>> /\ long > ThresholdOf[t] => cycle(calls', first, n + 1)
  <2>1. calls'[first] = t /\ SameTool(calls', first, n + 1)
    BY <1>1, <1>4 DEF SameTool
  <2> QED BY <1>1, <1>4, <2>1 DEF first
<1>7. ASSUME NEW i \in 1 .. n, NEW j \in 1 .. n
      PROVE  cycle(calls', i, j) <=> cycle(calls, i, j)
  <2>1. calls'[i] = calls[i] /\ \A k \in i .. j : calls'[k] = calls[k]
    BY <1>1, <1>2
  <2> QED BY <2>1 DEF SameTool
<1>8. 1 .. n + 1 = 1 .. n \cup {n + 1}
  BY <1>1
<1>9. ASSUME NEW i \in 1 .. n + 1, cycle(calls', i, n + 1)
      PROVE  calls # <<>>
  BY <1>1, <1>9
<1>10. run.found <=> \E i, j \in 1 .. n : cycle(calls, i, j)
  BY DEF RunInv, CyclesFound, n
<1>11. run'.found <=> run.found \/ (calls # <<>> /\ long > ThresholdOf[t])
  BY <1>3
<1>12. CyclesFound' <=> (run'.found <=> \E i, j \in 1 .. n + 1 : cycle(calls', i, j))
  BY <1>2 DEF CyclesFound
<1>13. ASSUME NEW i \in 1 .. n + 1, NEW j \in 1 .. n + 1, cycle(calls', i, j)
       PROVE  run'.found
  <2>1. CASE j = n + 1
    BY <1>5, <1>9, <1>11, <1>13, <2>1
  <2>2. CASE j # n + 1
    <3>1. i \in 1 .. n /\ j \in 1 .. n
      BY <1>1, <1>13, <2>2
    <3> QED BY <1>7, <1>10, <1>11, <1>13, <3>1
  <2> QED BY <2>1, <2>2
<1>14. ASSUME run'.found PROVE \E i, j \in 1 .. n + 1 : cycle(calls', i, j)
  <2>1. CASE run.found
    BY <1>7, <1>8, <1>10, <2>1
  <2>2. CASE calls # <<>> /\ long > ThresholdOf[t]
    BY <1>4, <1>6, <1>8, <2>2
  <2> QED BY <1>11, <1>14, <2>1, <2>2
<1>15. CyclesFound'
  BY <1>12, <1>13, <1>14
<1>16. /\ run'.length \in Nat /\ run'.found \in BOOLEAN /\ run'.tool = t
       /\ run' = [tool |-> run'.tool, length |-> run'.length, found |-> run'.found]
  BY <1>1, <1>3, <1>4 DEF long
<1>17. LET first1 == Len(calls') - run'.length + 1
       IN  /\ run'.length \in 1 .. Len(calls')
           /\ \A k \in first1 .. Len(calls') : calls'[k] = run'.tool
           /\ first1 > 1 => calls'[first1 - 1] # run'.tool
  <2>1. Len(calls') - run'.length + 1 = first
    <3>1. Len(calls') = n + 1 /\ n \in Nat /\ long \in Nat /\ run'.length = long
      BY <1>1, <1>2, <1>4 DEF long
    <3> QED BY <3>1 DEF first
  <2>2. run'.length \in 1 .. Len(calls')
    BY <1>2, <1>4 DEF long
  <2> QED BY <1>2, <1>4, <1>16, <2>1, <2>2
<1> QED BY <1>2, <1>15, <1>16, <1>17 DEF RunInv

-----------------------------------------------------------------------------
LEMMA LoopsAlways == LoopsSpec => [](ScanInv /\ RunInv)
<1>1. LoopsInit => ScanInv /\ RunInv
  <2> SUFFICES ASSUME LoopsInit PROVE ScanInv /\ RunInv
    OBVIOUS
  <2>1. calls = <<>> /\ Len(calls) = 0 /\ calls \in Seq(Tool)
    BY EmptySeq DEF LoopsInit
  <2>3. 1 .. 0 = {}
    OBVIOUS
  <2>2. scan = [active |-> <<>>, found |-> <<>>] /\ run = [tool |-> "", length |-> 0, found |-> FALSE]
    BY DEF LoopsInit
  <2> QED BY <2>1, <2>2, <2>3 DEF ScanInv, RunInv, CyclesFound, Exfiltrates
<1>2. ScanInv /\ RunInv /\ [LoopsNext]_loopsVars => (ScanInv /\ RunInv)'
  <2> SUFFICES ASSUME ScanInv, RunInv, [LoopsNext]_loopsVars PROVE (ScanInv /\ RunInv)'
    OBVIOUS
  <2>1. CASE UNCHANGED loopsVars
    <3>1. calls' = calls /\ scan' = scan /\ run' = run
      BY <2>1 DEF loopsVars
    <3>2. ScanInv'
      <4>1. Exfiltrates(calls)' = Exfiltrates(calls)
        BY <3>1 DEF Exfiltrates, HasType, IsKnown
      <4>2. ASSUME NEW i, NEW j
            PROVE  /\ Fresh(calls, i)' <=> Fresh(calls, i)
                   /\ FirstSource(calls, i)' <=> FirstSource(calls, i)
                   /\ Leak(calls, scan.found, i, j)' <=> Leak(calls, scan.found, i, j)
        <5>1. Fresh(calls, i)' <=> Fresh(calls, i)
          BY <3>1 DEF Fresh, HasType, IsKnown
        <5>2. FirstSource(calls, i)' <=> FirstSource(calls, i)
          BY <3>1 DEF FirstSource, HasType, IsKnown
        <5>3. /\ Exfiltrates(SubSeq(calls, i, j))' <=> Exfiltrates(SubSeq(calls, i, j))
              /\ Exfiltrates(SubSeq(calls, 1, j - 1))' <=> Exfiltrates(SubSeq(calls, 1, j - 1))
          BY <3>1 DEF Exfiltrates, HasType, IsKnown
        <5> QED BY <3>1, <5>1, <5>2, <5>3, Zenon DEF Leak
      <4> QED BY <3>1, <4>1, <4>2, Zenon DEF ScanInv
    <3>3. CyclesFound'
      BY <3>1 DEF RunInv, CyclesFound, SameTool
    <3>4. RunInv'
      BY <3>1, <3>3 DEF RunInv
    <3> QED BY <3>2, <3>4
  <2>2. CASE \E t \in Tool : LookAtCall(t)
    BY <2>2, ScanKept, RunKept
  <2> QED BY <2>1, <2>2, Zenon DEF LoopsNext
<1> QED BY <1>1, <1>2, PTL DEF LoopsSpec

(* detect_exfiltration, stopped after any call of any sequence, has found  *)
(* a pair exactly when the calls before that leak, and the pair is the     *)
(* first leak's, from the earliest source.                                 *)
THEOREM ScanAlwaysFindsExfiltration == LoopsSpec => []ScanFindsExfiltration
<1>1. ScanInv => ScanFindsExfiltration
  BY DEF ScanInv, ScanFindsExfiltration, Leak, FirstSource
<1> QED BY <1>1, LoopsAlways, PTL

(* detect_cycle finds exactly the sequences in which a tool is called more *)
(* often in a row than its threshold, by a call that is not the first, for *)
(* every table of thresholds, those of 0 included.                         *)
THEOREM CyclesAlwaysFound == LoopsSpec => []CyclesFound
<1>1. RunInv => CyclesFound
  BY DEF RunInv
<1> QED BY <1>1, LoopsAlways, PTL

(***************************************************************************)
(* The search for a path.  The library's theorem on well-founded relations *)
(* gives the least number of a set, and with it induction along a path.    *)
(***************************************************************************)
Before == {p \in Nat \X Nat : p[1] < p[2]}

LEMMA BeforeIsWellFounded == IsWellFoundedOn(Before, Nat)
<1>1. OpToRel(<, Nat) = {p \in Nat \X Nat : p[1] < p[2]}
  BY Zenon DEF OpToRel
<1> QED BY <1>1, NatLessThanWellFounded, Zenon DEF Before

LEMMA LeastNumber ==
  ASSUME NEW T, T \subseteq Nat, T # {}
  PROVE  \E x \in T : \A y \in T : x <= y
<1>1. PICK x \in T : \A y \in T : <<y, x>> \notin Before
  BY BeforeIsWellFounded, WFMin, Zenon
<1>2. ASSUME NEW y \in T PROVE x <= y
  <2>1. <<y, x>> \notin Before
    BY <1>1
  <2>2. x \in Nat /\ y \in Nat
    OBVIOUS
  <2>3. ~(y < x)
    BY <2>1, <2>2 DEF Before
  <2> QED BY <2>2, <2>3
<1> QED BY <1>2

(* What holds of the first node and passes from a node to the next holds   *)
(* all along.                                                              *)
LEMMA AllAlong ==
  ASSUME NEW n \in Nat, NEW S, 1 \in S, \A k \in 1 .. n - 1 : k \in S => k + 1 \in S
  PROVE  \A k \in 1 .. n : k \in S
<1> SUFFICES ASSUME NEW j \in 1 .. n, j \notin S PROVE FALSE
  OBVIOUS
<1> DEFINE T == {k \in 1 .. n : k \notin S}
<1>1. T \subseteq Nat /\ T # {}
  OBVIOUS
<1>2. PICK x \in T : \A y \in T : x <= y
  BY <1>1, LeastNumber
<1>3. x \in 1 .. n /\ x \notin S /\ x # 1
  BY <1>2
<1>4. x - 1 \in 1 .. n - 1 /\ (x - 1) + 1 = x
  BY <1>3
<1>5. x - 1 \in S
  BY <1>2, <1>4
<1> QED BY <1>3, <1>4, <1>5

-----------------------------------------------------------------------------
(* d is the number of edges from the start to each visited node, along the *)
(* parents.                                                                *)
Depths(d) ==
  /\ DOMAIN parent \subseteq Vertex /\ d \in [DOMAIN parent -> Nat]
  /\ from \in DOMAIN parent /\ parent[from] = NoNode /\ d[from] = 0
  /\ \A n \in DOMAIN parent \ {from} :
       /\ parent[n] \in DOMAIN parent /\ <<parent[n], n>> \in edges
       /\ d[n] = d[parent[n]] + 1

(* The queue goes from lower depths to higher ones, and no further than    *)
(* one below the node that is looked at.  Whatever an edge leads to that   *)
(* has been looked at was visited and is at most one deeper.               *)
Searching(d) ==
  /\ Depths(d)
  /\ from # to /\ to \in Vertex \ DOMAIN parent
  /\ queue \in Seq(Vertex) /\ front \in 0 .. Len(queue)
  /\ Len(queue) \in Nat \ {0} /\ queue[1] = from
  /\ \A i \in 1 .. Len(queue) : queue[i] \in DOMAIN parent
  /\ \A n \in DOMAIN parent : \E i \in 1 .. Len(queue) : n = queue[i]
  /\ near \subseteq edges /\ \A e \in near : front > 0 /\ e[1] = queue[front]
  /\ \A i, j \in 1 .. Len(queue) : i <= j => d[queue[i]] <= d[queue[j]]
  /\ \A j \in 1 .. Len(queue) :
       d[queue[j]] <= IF front = 0 THEN 0 ELSE d[queue[front]] + 1
  /\ \A i \in 1 .. front : \A e \in edges \ near :
       e[1] = queue[i] => e[2] \in DOMAIN parent /\ d[e[2]] <= d[queue[i]] + 1

(* The path goes along edges to its end; what is missing are the parents   *)
(* of its first node.                                                      *)
Tracing(d) ==
  /\ Depths(d)
  /\ to \in DOMAIN parent
  /\ \A n \in 1 .. d[to] : Ways(n) = {}
  /\ node \in DOMAIN parent \cup {NoNode}
  /\ path \in Seq(Vertex) /\ Len(path) \in Nat
  /\ \A k \in 1 .. Len(path) - 1 : <<path[k], path[k + 1]>> \in edges
  /\ Len(path) = 0 => node = to
  /\ Len(path) > 0 => /\ path[Len(path)] = to
                      /\ path[1] \in DOMAIN parent /\ parent[path[1]] = node
  /\ Len(path) = IF node = NoNode THEN d[to] + 1 ELSE d[to] - d[node]

SearchInv ==
  /\ edges \subseteq Pair
  /\ phase \in {"building", "searching", "tracing", "path", "none"}
  /\ phase \in {"building", "searching"} => path = <<>>
  /\ phase = "building" => front = 0 /\ near = {}
  /\ phase = "searching" => \E d : Searching(d)
  /\ phase = "tracing" => \E d : Tracing(d)
  /\ phase = "path" =>
       path \in Ways(Len(path)) /\ \A n \in 1 .. Len(path) - 1 : Ways(n) = {}
  /\ phase = "none" => \A n \in Nat \ {0} : Ways(n) = {}

LEMMA EdgesAre ==
  ASSUME edges \subseteq Pair, NEW e \in edges
  PROVE  e[1] \in Vertex /\ e[2] \in Vertex /\ e = <<e[1], e[2]>>
BY PairAssumption

LEMMA Between ==
  ASSUME NEW a \in Nat, NEW b \in Nat, NEW k \in Nat, NEW n \in Nat,
         a <= k - 1, k <= n - 1, n <= b + 1
  PROVE  a < b
OBVIOUS

(* A way that only meets nodes before the current one is closed: each of   *)
(* its nodes was visited and is no deeper than it is far along.            *)
LEMMA AlongTheWay ==
  ASSUME SearchInv, NEW d, Searching(d), NEW n \in Nat \ {0}, NEW w \in Ways(n),
         \/ front = Len(queue) /\ near = {}
         \/ front > 0 /\ n <= d[queue[front]] + 1
  PROVE  FALSE
<1> DEFINE S == {k \in 1 .. n : w[k] \in DOMAIN parent /\ d[w[k]] <= k - 1}
<1>1. /\ w \in [1 .. n -> Vertex] /\ w[1] = from /\ w[n] = to
      /\ \A k \in 1 .. n - 1 : <<w[k], w[k + 1]>> \in edges
  BY DEF Ways
<1>2. 1 \in S
  BY <1>1 DEF Searching, Depths
<1>3. ASSUME NEW k \in 1 .. n - 1, k \in S PROVE k + 1 \in S
  <2>1. /\ w[k] \in DOMAIN parent /\ d[w[k]] <= k - 1 /\ d[w[k]] \in Nat
        /\ k \in Nat /\ k + 1 \in 1 .. n
    BY <1>3 DEF Searching, Depths
  <2> DEFINE e == <<w[k], w[k + 1]>>
  <2>2. e \in edges /\ e[1] = w[k] /\ e[2] = w[k + 1]
    BY <1>1
  <2> HIDE DEF e
  <2>3. PICK i \in 1 .. Len(queue) : w[k] = queue[i]
    BY <2>1 DEF Searching
  <2>4. i \in 1 .. front /\ e \notin near
    <3>1. CASE front = Len(queue) /\ near = {}
      BY <3>1
    <3>2. CASE front > 0 /\ n <= d[queue[front]] + 1
      <4>1. front \in 1 .. Len(queue) /\ d[queue[front]] \in Nat /\ d[queue[i]] \in Nat
        <5>1. front \in 1 .. Len(queue)
          BY <3>2 DEF Searching
        <5>2. queue[front] \in DOMAIN parent /\ queue[i] \in DOMAIN parent
          BY <5>1 DEF Searching
        <5>3. d \in [DOMAIN parent -> Nat]
          BY DEF Searching, Depths
        <5> QED BY <5>1, <5>2, <5>3
      <4>2. d[queue[i]] < d[queue[front]]
        <5>1. d[queue[i]] <= k - 1 /\ k <= n - 1 /\ n <= d[queue[front]] + 1
          <6>1. k <= n - 1
            OBVIOUS
          <6> QED BY <2>1, <2>3, <3>2, <6>1
        <5>2. /\ d[queue[i]] \in Nat /\ d[queue[front]] \in Nat /\ k \in Nat /\ n \in Nat
          BY <2>1, <4>1
        <5> QED BY <5>1, <5>2, Between
      <4>3. ~(front <= i)
        BY <4>1, <4>2 DEF Searching
      <4>4. e \notin near
        BY <2>2, <2>3, <4>1, <4>2 DEF Searching
      <4> QED BY <4>1, <4>3, <4>4
    <3> QED BY <3>1, <3>2
  <2>5. e[2] \in DOMAIN parent /\ d[e[2]] <= d[queue[i]] + 1
    BY <2>2, <2>3, <2>4 DEF Searching
  <2>6. d[w[k + 1]] \in Nat
    BY <2>2, <2>5 DEF Searching, Depths
  <2>7. d[w[k + 1]] <= (k + 1) - 1
    <3>1. d[w[k + 1]] <= d[w[k]] + 1 /\ w[k + 1] \in DOMAIN parent
      BY <2>2, <2>3, <2>5
    <3> QED BY <2>1, <2>6, <3>1
  <2>8. w[k + 1] \in DOMAIN parent /\ k + 1 \in 1 .. n
    BY <2>1, <2>2, <2>5
  <2> QED BY <2>7, <2>8
<1>4. n \in S
  <2> HIDE DEF S
  <2>1. \A k \in 1 .. n : k \in S
    BY <1>2, <1>3, AllAlong
  <2> QED BY <2>1
<1> QED BY <1>1, <1>4 DEF Searching

-----------------------------------------------------------------------------
(* A new node is one deeper than the node it was reached from. *)
LEMMA DepthsGrow ==
  ASSUME NEW d, Depths(d), NEW e \in edges, e[1] \in DOMAIN parent,
         e[2] \in Vertex \ DOMAIN parent, e = <<e[1], e[2]>>,
         parent' = [n \in DOMAIN parent \cup {e[2]} |->
                      IF n = e[2] THEN e[1] ELSE parent[n]],
         edges' = edges, ends' = ends,
         NEW deeper, deeper = [n \in DOMAIN parent \cup {e[2]} |->
                                 IF n = e[2] THEN d[e[1]] + 1 ELSE d[n]]
  PROVE  Depths(deeper)'
<1>1. /\ DOMAIN parent' = DOMAIN parent \cup {e[2]} /\ parent'[e[2]] = e[1]
      /\ \A n \in DOMAIN parent : parent'[n] = parent[n]
  OBVIOUS
<1>2. d[e[1]] \in Nat /\ \A n \in DOMAIN parent : d[n] \in Nat
  BY DEF Depths
<1>3. /\ deeper \in [DOMAIN parent' -> Nat] /\ deeper[e[2]] = d[e[1]] + 1
      /\ \A n \in DOMAIN parent : deeper[n] = d[n]
  BY <1>1, <1>2
<1>4. from' = from
  BY DEF from
<1>5. /\ DOMAIN parent' \subseteq Vertex
      /\ from \in DOMAIN parent' /\ parent'[from] = NoNode /\ deeper[from] = 0
  BY <1>1, <1>3 DEF Depths
<1>6. ASSUME NEW n \in DOMAIN parent' \ {from}
      PROVE  /\ parent'[n] \in DOMAIN parent' /\ <<parent'[n], n>> \in edges
             /\ deeper[n] = deeper[parent'[n]] + 1
  <2>1. CASE n = e[2]
    BY <1>1, <1>3, <2>1
  <2>2. CASE n \in DOMAIN parent
    BY <1>1, <1>3, <2>2 DEF Depths
  <2> QED BY <1>1, <2>1, <2>2
<1> QED BY <1>3, <1>4, <1>5, <1>6 DEF Depths

LEMMA StartKeeps == ASSUME SearchInv, NEW pair \in Ends, FindPath(pair) PROVE SearchInv'
<1>1. /\ pair[1] \in Vertex /\ pair[2] \in Vertex /\ ends' = pair /\ edges' = edges
      /\ front' = 0 /\ near' = {} /\ path = <<>>
  BY PairAssumption DEF FindPath, SearchInv
<1>2. from' = pair[1] /\ to' = pair[2]
  BY <1>1 DEF from, to
<1>3. CASE pair[1] = pair[2]
  <2>1. phase' = "path" /\ path' = <<pair[1]>>
    BY <1>3 DEF FindPath
  <2>2. Len(path') = 1 /\ path' \in [1 .. 1 -> Vertex] /\ path'[1] = pair[1]
    BY <1>1, <2>1
  <2>3. (path \in Ways(Len(path)))'
    BY <1>2, <1>3, <2>2 DEF Ways
  <2> QED BY <1>1, <2>1, <2>2, <2>3 DEF SearchInv
<1>4. CASE pair[1] # pair[2]
  <2>1. /\ phase' = "searching" /\ queue' = <<pair[1]>> /\ path' = path
        /\ parent' = [n \in {pair[1]} |-> NoNode]
    BY <1>4 DEF FindPath
  <2>6. PICK d : d = [n \in {pair[1]} |-> 0]
    OBVIOUS
  <2>2. /\ Len(queue') = 1 /\ queue'[1] = pair[1] /\ queue' \in Seq(Vertex)
        /\ DOMAIN parent' = {pair[1]} /\ parent'[pair[1]] = NoNode
    BY <1>1, <2>1
  <2>3. d \in [{pair[1]} -> Nat] /\ d[pair[1]] = 0
    BY <2>6
  <2>4. Depths(d)'
    BY <1>1, <1>2, <2>2, <2>3 DEF Depths
  <2>5. Searching(d)'
    BY <1>1, <1>2, <1>4, <2>2, <2>3, <2>4 DEF Searching
  <2> QED BY <1>1, <2>1, <2>5 DEF SearchInv
<1> QED BY <1>3, <1>4

LEMMA NextKeeps == ASSUME SearchInv, LookAtNext PROVE SearchInv'
<1>1. PICK d : Searching(d)
  BY DEF SearchInv, LookAtNext
<1>2. /\ phase = "searching" /\ phase' = phase /\ path' = path /\ edges' = edges
      /\ ends' = ends /\ queue' = queue /\ parent' = parent
      /\ near = {} /\ front' = front + 1 /\ front < Len(queue)
      /\ near' = {e \in edges : e[1] = queue[front + 1]}
  BY DEF LookAtNext
<1>3. from' = from /\ to' = to
  BY <1>2 DEF from, to
<1>4. Depths(d)'
  BY <1>1, <1>2, <1>3 DEF Depths, Searching
<1>5. /\ front \in Nat /\ Len(queue) \in Nat /\ front' \in 1 .. Len(queue)
      /\ \A i \in 1 .. front' : i = front + 1 \/ i \in 1 .. front
      /\ \A i \in 1 .. Len(queue) : d[queue[i]] \in Nat
  <2>1. front \in Nat /\ Len(queue) \in Nat
    BY <1>1 DEF Searching
  <2>2. \A i \in 1 .. Len(queue) : queue[i] \in DOMAIN parent
    BY <1>1 DEF Searching
  <2>3. d \in [DOMAIN parent -> Nat]
    BY <1>1 DEF Searching, Depths
  <2>4. \A i \in 1 .. front + 1 : i = front + 1 \/ i \in 1 .. front
    BY <2>1
  <2> QED BY <1>2, <2>1, <2>2, <2>3, <2>4
<1>6. ASSUME NEW j \in 1 .. Len(queue) PROVE d[queue[j]] <= d[queue[front']] + 1
  <2>1. CASE front = 0
    <3>1. d[queue[j]] <= 0
      BY <1>1, <2>1 DEF Searching
    <3> QED BY <1>5, <3>1
  <2>2. CASE front # 0
    <3>1. front \in 1 .. Len(queue) /\ front <= front'
      BY <1>2, <1>5, <2>2
    <3>2. d[queue[j]] <= d[queue[front]] + 1 /\ d[queue[front]] <= d[queue[front']]
      BY <1>1, <1>5, <2>2, <3>1 DEF Searching
    <3> QED BY <1>5, <3>1, <3>2
  <2> QED BY <2>1, <2>2
<1>7. ASSUME NEW i \in 1 .. front', NEW e \in edges \ near', e[1] = queue[i]
      PROVE  e[2] \in DOMAIN parent /\ d[e[2]] <= d[queue[i]] + 1
  <2>1. i \in 1 .. front /\ e \in edges \ near
    BY <1>2, <1>5, <1>7
  <2> QED BY <1>1, <1>7, <2>1 DEF Searching
<1>8. \A e \in near' : front' > 0 /\ e[1] = queue[front']
  BY <1>2, <1>5
<1>9. near' \subseteq edges /\ front' # 0
  BY <1>2, <1>5
<1>10. Searching(d)'
  BY <1>1, <1>2, <1>3, <1>4, <1>5, <1>6, <1>7, <1>8, <1>9 DEF Searching
<1> QED BY <1>2, <1>10 DEF SearchInv

LEMMA GiveUpKeeps == ASSUME SearchInv, GiveUp PROVE SearchInv'
<1>1. PICK d : Searching(d)
  BY DEF SearchInv, GiveUp
<1>2. phase' = "none" /\ edges' = edges /\ ends' = ends /\ front = Len(queue) /\ near = {}
  BY DEF GiveUp, searchVars
<1>3. \A n \in Nat \ {0} : Ways(n) = {}
  BY <1>1, <1>2, AlongTheWay
<1>4. \A n \in Nat \ {0} : Ways(n)' = {}
  BY <1>2, <1>3 DEF Ways, from, to
<1> QED BY <1>2, <1>4 DEF SearchInv

LEMMA EdgeKeeps == ASSUME SearchInv, NEW e \in near, LookAtEdge(e) PROVE SearchInv'
<1>1. PICK d : Searching(d)
  BY DEF SearchInv, LookAtEdge
<1>2. /\ phase = "searching" /\ edges' = edges /\ ends' = ends /\ front' = front /\ path' = path
      /\ near' = near \ {e} /\ edges \subseteq Pair /\ path = <<>>
  BY DEF LookAtEdge, SearchInv
<1>3. from' = from /\ to' = to
  BY <1>2 DEF from, to
<1>4. /\ e \in edges /\ e[1] = current /\ e[2] \in Vertex /\ e = <<e[1], e[2]>>
      /\ front \in 1 .. Len(queue) /\ Len(queue) \in Nat /\ e[1] \in DOMAIN parent
  BY <1>1, <1>2, EdgesAre DEF Searching, current
<1>5. \A i \in 1 .. Len(queue) : queue[i] \in DOMAIN parent /\ d[queue[i]] \in Nat
  BY <1>1 DEF Searching, Depths
<1>6. CASE e[2] \in DOMAIN parent
  <2>1. phase' = phase /\ queue' = queue /\ parent' = parent
    BY <1>6 DEF LookAtEdge
  <2>2. Depths(d)'
    BY <1>1, <1>2, <1>3, <2>1 DEF Depths, Searching
  <2>3. d[e[2]] <= d[e[1]] + 1
    <3>1. PICK j \in 1 .. Len(queue) : e[2] = queue[j]
      BY <1>1, <1>6 DEF Searching
    <3> QED BY <1>1, <1>4, <3>1 DEF Searching, current
  <2>4. ASSUME NEW i \in 1 .. front, NEW x \in edges \ near', x[1] = queue[i]
        PROVE  x[2] \in DOMAIN parent /\ d[x[2]] <= d[queue[i]] + 1
    <3>1. CASE x = e
      BY <1>6, <2>3, <2>4, <3>1
    <3>2. CASE x \in edges \ near
      BY <1>1, <2>4, <3>2 DEF Searching
    <3> QED BY <1>2, <3>1, <3>2
  <2>5. Searching(d)'
    BY <1>1, <1>2, <1>3, <2>1, <2>2, <2>4 DEF Searching
  <2> QED BY <1>2, <2>1, <2>5 DEF SearchInv
<1>7. CASE e[2] \notin DOMAIN parent
  <2>0. PICK deeper : deeper = [n \in DOMAIN parent \cup {e[2]} |->
                                  IF n = e[2] THEN d[e[1]] + 1 ELSE d[n]]
    OBVIOUS
  <2>1. parent' = [n \in DOMAIN parent \cup {e[2]} |->
                     IF n = e[2] THEN e[1] ELSE parent[n]]
    <3>1. parent' = [n \in DOMAIN parent \cup {e[2]} |->
                       IF n = e[2] THEN current ELSE parent[n]]
      BY <1>7 DEF LookAtEdge
    <3> QED BY <1>4, <3>1
  <2>2. Depths(deeper)'
    <3>1. Depths(d)
      BY <1>1 DEF Searching
    <3> QED BY <1>2, <1>4, <1>7, <2>0, <2>1, <3>1, DepthsGrow
  <2>3. /\ DOMAIN parent' = DOMAIN parent \cup {e[2]}
        /\ deeper[e[2]] = d[e[1]] + 1 /\ \A n \in DOMAIN parent : deeper[n] = d[n]
        /\ d[e[1]] = d[queue[front]]
    BY <1>4, <1>7, <2>0, <2>1 DEF current
  <2>4. d[queue[front]] \in Nat
    BY <1>4, <1>5
  <2>5. CASE e[2] = to
    <3>1. phase' = "tracing" /\ node' = to /\ queue' = queue
      BY <1>7, <2>5 DEF LookAtEdge
    <3>2. deeper[to] = d[queue[front]] + 1 /\ to \in DOMAIN parent'
      BY <2>3, <2>5
    <3>3. \A n \in 1 .. deeper[to] : Ways(n) = {}
      <4>1. ASSUME NEW n \in 1 .. deeper[to], NEW w \in Ways(n) PROVE FALSE
        <5>1. n \in Nat \ {0} /\ front > 0 /\ n <= d[queue[front]] + 1
          BY <1>4, <2>4, <3>2
        <5> QED BY <1>1, <4>1, <5>1, AlongTheWay
      <4> QED BY <4>1
    <3>4. \A n \in 1 .. deeper[to] : Ways(n)' = {}
      BY <1>2, <3>3 DEF Ways, from, to
    <3>5. path' = <<>> /\ path' \in Seq(Vertex) /\ Len(path') = 0
      BY <1>2
    <3>6. to # NoNode /\ deeper[to] - deeper[to] = 0
      BY <1>4, <2>4, <2>5, <3>2, PairAssumption
    <3>7. Tracing(deeper)'
      BY <1>3, <2>2, <3>1, <3>2, <3>4, <3>5, <3>6 DEF Tracing
    <3> QED BY <1>2, <3>1, <3>7 DEF SearchInv
  <2>6. CASE e[2] # to
    <3> DEFINE n == Len(queue)
    <3>1. queue' = Append(queue, e[2]) /\ phase' = "searching"
      BY <1>2, <1>7, <2>6 DEF LookAtEdge, Enqueued
    <3>2. /\ queue' \in Seq(Vertex) /\ Len(queue') = n + 1 /\ queue'[n + 1] = e[2]
          /\ \A i \in 1 .. n : queue'[i] = queue[i]
          /\ n \in Nat \ {0}
      BY <1>1, <1>4, <3>1, AppendProperties DEF Searching
    <3> HIDE DEF n
    <3>3. \A i \in 1 .. n + 1 : i = n + 1 \/ i \in 1 .. n
      BY <3>2
    <3>4. /\ deeper[queue'[n + 1]] = d[queue[front]] + 1
          /\ \A i \in 1 .. n : deeper[queue'[i]] = d[queue[i]] /\ d[queue[i]] \in Nat
      BY <1>5, <2>3, <3>2 DEF n
    <3>5. front \in 1 .. n /\ front \in 1 .. n + 1 /\ deeper[queue'[front]] = d[queue[front]]
      BY <1>4, <3>2, <3>4 DEF n
    <3>6. ASSUME NEW j \in 1 .. n + 1 PROVE deeper[queue'[j]] <= d[queue[front]] + 1
      <4>1. CASE j = n + 1
        BY <2>4, <3>4, <4>1
      <4>2. CASE j \in 1 .. n
        <5>1. d[queue[j]] <= d[queue[front]] + 1
          <6>1. front # 0 /\ j \in 1 .. Len(queue)
            BY <1>4, <4>2 DEF n
          <6> QED BY <1>1, <6>1 DEF Searching
        <5> QED BY <3>4, <4>2, <5>1
      <4> QED BY <3>3, <4>1, <4>2
    <3>7. ASSUME NEW i \in 1 .. n + 1, NEW j \in 1 .. n + 1, i <= j
          PROVE  deeper[queue'[i]] <= deeper[queue'[j]]
      <4>1. CASE j = n + 1
        BY <3>4, <3>6, <4>1
      <4>2. CASE j \in 1 .. n
        <5>1. i \in 1 .. n
          BY <3>2, <3>7, <4>2
        <5>2. d[queue[i]] <= d[queue[j]]
          BY <1>1, <3>7, <4>2, <5>1 DEF Searching, n
        <5> QED BY <3>4, <4>2, <5>1, <5>2
      <4> QED BY <3>3, <4>1, <4>2
    <3>8. ASSUME NEW i \in 1 .. front, NEW x \in edges \ near', x[1] = queue'[i]
          PROVE  x[2] \in DOMAIN parent' /\ deeper[x[2]] <= deeper[queue'[i]] + 1
      <4>1. i \in 1 .. n /\ queue'[i] = queue[i] /\ deeper[queue'[i]] = d[queue[i]]
        BY <3>2, <3>4, <3>5
      <4>2. CASE x = e
        <5>1. d[queue[i]] = d[queue[front]]
          BY <1>4, <3>8, <4>1, <4>2 DEF current
        <5> QED BY <2>3, <2>4, <4>1, <4>2, <5>1
      <4>3. CASE x \in edges \ near
        <5>1. x[2] \in DOMAIN parent /\ d[x[2]] <= d[queue[i]] + 1
          BY <1>1, <3>8, <4>1, <4>3 DEF Searching
        <5> QED BY <2>3, <4>1, <5>1
      <4> QED BY <1>2, <4>2, <4>3
    <3>9. \A i \in 1 .. n + 1 : queue'[i] \in DOMAIN parent'
      BY <1>5, <2>3, <3>2, <3>3 DEF n
    <3>10. ASSUME NEW m \in DOMAIN parent' PROVE \E i \in 1 .. n + 1 : m = queue'[i]
      <4>1. CASE m = e[2]
        BY <3>2, <4>1
      <4>2. CASE m \in DOMAIN parent
        <5>1. PICK i \in 1 .. n : m = queue[i]
          BY <1>1, <4>2 DEF Searching, n
        <5>2. i \in 1 .. n + 1 /\ queue'[i] = queue[i]
          BY <3>2
        <5> QED BY <5>1, <5>2
      <4> QED BY <2>3, <4>1, <4>2
    <3>11. /\ to \in Vertex \ DOMAIN parent' /\ from # to
           /\ near' \subseteq edges /\ \A x \in near' : front > 0 /\ x[1] = queue'[front]
           /\ queue'[1] = from /\ front \in 0 .. n + 1 /\ front # 0
      <4>1. queue'[1] = queue[1]
        BY <3>2
      <4>2. queue'[front] = queue[front]
        BY <3>2, <3>5
      <4> QED BY <1>1, <1>2, <1>4, <2>3, <2>6, <3>5, <4>1, <4>2 DEF Searching
    <3>12. Searching(deeper)'
      BY <1>2, <1>3, <2>2, <3>2, <3>5, <3>6, <3>7, <3>8, <3>9, <3>10, <3>11 DEF Searching
    <3> QED BY <1>2, <3>1, <3>12 DEF SearchInv
  <2> QED BY <2>5, <2>6
<1> QED BY <1>6, <1>7

LEMMA TraceKeeps == ASSUME SearchInv, TraceBack PROVE SearchInv'
<1> DEFINE n == Len(path)
<1>1. PICK d : Tracing(d)
  BY DEF SearchInv, TraceBack
<1>2. /\ edges' = edges /\ ends' = ends /\ parent' = parent /\ phase = "tracing"
      /\ edges \subseteq Pair
  BY DEF TraceBack, searchVars, SearchInv
<1>3. from' = from /\ to' = to
  BY <1>2 DEF from, to
<1>4. \A k : Ways(k)' = Ways(k)
  BY <1>2, <1>3 DEF Ways
<1>5. /\ n \in Nat /\ path \in Seq(Vertex) /\ d[to] \in Nat /\ NoNode \notin DOMAIN parent
      /\ DOMAIN parent \subseteq Vertex
  BY <1>1, PairAssumption DEF Tracing, Depths
<1>6. CASE node # NoNode
  <2>1. /\ path' = <<node>> \o path /\ node' = parent[node] /\ phase' = phase
        /\ node \in DOMAIN parent /\ d[node] \in Nat
    BY <1>1, <1>6 DEF TraceBack, Tracing, Depths
  <2>2. /\ path' \in Seq(Vertex) /\ Len(path') = n + 1 /\ path'[1] = node
        /\ \A k \in 1 .. n : path'[k + 1] = path[k]
    BY <1>5, <2>1, ConcatProperties
  <2>3. n = d[to] - d[node]
    BY <1>1, <1>6 DEF Tracing
  <2>4. /\ n = 0 => node = to
        /\ n > 0 => path[n] = to /\ path[1] \in DOMAIN parent /\ parent[path[1]] = node
        /\ \A k \in 1 .. n - 1 : <<path[k], path[k + 1]>> \in edges
    BY <1>1 DEF Tracing
  <2> HIDE DEF n
  <2>5. ASSUME NEW k \in 1 .. n PROVE <<path'[k], path'[k + 1]>> \in edges
    <3>1. CASE k = 1
      <4>1. path[1] # from
        BY <1>1, <1>5, <2>1, <2>4, <3>1 DEF Tracing, Depths
      <4>2. <<parent[path[1]], path[1]>> \in edges
        BY <1>1, <1>5, <2>4, <3>1, <4>1 DEF Tracing, Depths
      <4>3. path'[1] = node /\ path'[1 + 1] = path[1] /\ parent[path[1]] = node
        BY <1>5, <2>2, <2>4, <3>1
      <4> QED BY <3>1, <4>2, <4>3
    <3>2. CASE k # 1
      <4>1. k - 1 \in 1 .. n - 1 /\ k - 1 \in 1 .. n /\ (k - 1) + 1 = k
        BY <1>5, <3>2
      <4>2. path'[k] = path[k - 1] /\ path'[k + 1] = path[k]
        BY <2>2, <4>1
      <4> QED BY <2>4, <4>1, <4>2
    <3> QED BY <3>1, <3>2
  <2>6. path'[n + 1] = to
    BY <1>5, <2>2, <2>4
  <2>7. node' \in DOMAIN parent \cup {NoNode}
    BY <1>1, <2>1 DEF Tracing, Depths
  <2>8. n + 1 = IF node' = NoNode THEN d[to] + 1 ELSE d[to] - d[node']
    <3>1. CASE node = from
      BY <1>1, <1>5, <2>1, <2>3, <3>1 DEF Tracing, Depths
    <3>2. CASE node # from
      <4>1. node' \in DOMAIN parent /\ d[node] = d[node'] + 1 /\ d[node'] \in Nat
        BY <1>1, <2>1, <3>2 DEF Tracing, Depths
      <4> QED BY <1>5, <2>1, <2>3, <4>1
    <3> QED BY <3>1, <3>2
  <2>9. Depths(d)'
    BY <1>1, <1>2, <1>3 DEF Depths, Tracing
  <2>10. Tracing(d)'
    <3>1. to \in DOMAIN parent /\ \A k \in 1 .. d[to] : Ways(k) = {}
      BY <1>1 DEF Tracing
    <3>2. (n + 1) - 1 = n /\ n + 1 > 0 /\ n + 1 \in Nat
      BY <1>5
    <3>3. /\ Len(path') > 0 /\ path'[Len(path')] = to
          /\ path'[1] \in DOMAIN parent /\ parent[path'[1]] = node'
          /\ \A k \in 1 .. Len(path') - 1 : <<path'[k], path'[k + 1]>> \in edges
      BY <2>1, <2>2, <2>5, <2>6, <3>2
    <3> QED BY <1>2, <1>3, <1>4, <2>2, <2>7, <2>8, <2>9, <3>1, <3>2, <3>3 DEF Tracing
  <2> QED BY <1>2, <2>1, <2>10 DEF SearchInv
<1>7. CASE node = NoNode
  <2>1. phase' = "path" /\ path' = path /\ n = d[to] + 1
    BY <1>1, <1>7 DEF TraceBack, Tracing
  <2>2. path[1] = from /\ path[n] = to
    <3>1. n > 0
      BY <1>5, <2>1
    <3>2. path[n] = to /\ path[1] \in DOMAIN parent /\ parent[path[1]] = NoNode
      BY <1>1, <1>7, <3>1 DEF Tracing
    <3>3. path[1] = from
      BY <1>1, <1>5, <3>2 DEF Tracing, Depths
    <3> QED BY <3>2, <3>3
  <2>3. path \in [1 .. n -> Vertex]
    BY <1>5
  <2>4. path \in Ways(n)
    BY <1>1, <2>2, <2>3 DEF Ways, Tracing
  <2>5. 1 .. n - 1 = 1 .. d[to]
    BY <1>5, <2>1
  <2>6. \A k \in 1 .. n - 1 : Ways(k) = {}
    BY <1>1, <2>5 DEF Tracing
  <2> QED BY <1>2, <1>4, <2>1, <2>4, <2>6 DEF SearchInv
<1> QED BY <1>6, <1>7

LEMMA SearchAlways == SearchSpec => []SearchInv
<1>1. SearchInit => SearchInv
  BY DEF SearchInit, SearchInv
<1>2. SearchInv /\ [SearchNext]_pathVars => SearchInv'
  <2> SUFFICES ASSUME SearchInv, [SearchNext]_pathVars PROVE SearchInv'
    OBVIOUS
  <2>1. CASE UNCHANGED pathVars
    <3>1. /\ edges' = edges /\ phase' = phase /\ ends' = ends /\ queue' = queue /\ front' = front
          /\ near' = near /\ parent' = parent /\ node' = node /\ path' = path
      BY <2>1 DEF pathVars, searchVars
    <3>2. from' = from /\ to' = to
      BY <3>1 DEF from, to
    <3>3. \A n : Ways(n)' = Ways(n)
      BY <3>1, <3>2 DEF Ways
    <3>4. ASSUME NEW d PROVE Depths(d)' <=> Depths(d)
      BY <3>1, <3>2 DEF Depths
    <3>5. ASSUME NEW d PROVE Searching(d)' <=> Searching(d)
      BY <3>1, <3>2, <3>4 DEF Searching
    <3>6. ASSUME NEW d PROVE Tracing(d)' <=> Tracing(d)
      BY <3>1, <3>2, <3>3, <3>4, Zenon DEF Tracing
    <3> QED BY <3>1, <3>3, <3>5, <3>6, Zenon DEF SearchInv
  <2>2. ASSUME NEW p \in Pair, JoinNodes(p) PROVE SearchInv'
    BY <2>2 DEF JoinNodes, SearchInv, searchVars
  <2> QED BY <2>1, <2>2, StartKeeps, NextKeeps, GiveUpKeeps, EdgeKeeps, TraceKeeps DEF SearchNext
<1> QED BY <1>1, <1>2, PTL DEF SearchSpec

(* find_path: a path that is returned is a shortest one, and none is       *)
(* returned only when there is none, for any graph, any two of its nodes   *)
(* and any order of its edges.                                             *)
THEOREM PathsAlwaysShortest == SearchSpec => []ShortestPath
<1>1. SearchInv => ShortestPath
  <2> SUFFICES ASSUME SearchInv PROVE ShortestPath
    OBVIOUS
  <2>1. Cardinality(Vertex) \in Nat
    BY PairAssumption, FS_CardinalityType
  <2>2. \A n \in 1 .. Cardinality(Vertex) : n \in Nat \ {0}
    BY <2>1
  <2> QED BY <2>2 DEF SearchInv, ShortestPath
<1> QED BY <1>1, SearchAlways, PTL
=============================================================================
