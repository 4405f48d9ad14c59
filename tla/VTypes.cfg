\* A file as the policy guide spells it.
SPECIFICATION FilesSpec
CONSTANTS
  Id = {"a", "b", "c"}
  ToolName = {"read", "send", "key=value"}
  NoName = ""
  Type = {"NORMAL", "SENSITIVE_SOURCE", "DATA_PROCESSOR", "EXTERNAL_DESTINATION"}
  NewNodes <- MCNodes
  NewEdges <- MCEdges
  Label = "key=value"
  Files <- ShortFile
PROPERTY TypesAsDeclared
