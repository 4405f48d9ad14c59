---------------------------- MODULE MCPolicyFiles ---------------------------
(***************************************************************************)
(* A small instance of PolicyFiles: three ids, two tools that two nodes    *)
(* each may stand for, nodes of every type, and edges that form a cycle    *)
(* and a loop, one of them with or without conditions.  ShortFile is the   *)
(* policy of docs/policy_guide.md without its processor.                   *)
(***************************************************************************)
EXTENDS PolicyFiles

MCNodes ==
  [id : {"a"}, tool_name : {"read", NoName}, node_type : {"SENSITIVE_SOURCE"}]
  \cup {[id |-> "b", tool_name |-> "read", node_type |-> "EXTERNAL_DESTINATION"],
        [id |-> "b", tool_name |-> "send", node_type |-> "DATA_PROCESSOR"]}
  \cup [id : {"c"}, tool_name : {"send"}, node_type : {"NORMAL"}]

MCEdges ==
  [from : {"a"}, to : {"b"}, conditional : BOOLEAN]
  \cup {[from |-> "b", to |-> "a", conditional |-> FALSE],
        [from |-> "c", to |-> "c", conditional |-> FALSE]}

ShortFile ==
  {[form |-> "json",
    entries |-> <<[kind |-> "node", id |-> "a", tool_name |-> "read",
                   node_type |-> "SENSITIVE_SOURCE"],
                  [kind |-> "node", id |-> "b", tool_name |-> "send",
                   node_type |-> "EXTERNAL_DESTINATION"],
                  [kind |-> "edge", from |-> "a", to |-> "b", conditional |-> FALSE]>>]}

(* And files with an edge to a node they do not define *)
MCFiles ==
  ShortFile \cup
    {[form |-> form,
      entries |-> <<[kind |-> "node", id |-> "a", tool_name |-> "read", node_type |-> "normal"],
                    [kind |-> "edge", from |-> "a", to |-> "b", conditional |-> c]>>] :
      form \in {"json", "dot"}, c \in BOOLEAN}
=============================================================================
