------------------------------- MODULE Policy -------------------------------
(***************************************************************************)
(* The policy a Guardian enforces, as mathematics: a graph of nodes, the   *)
(* index that maps a tool name to a node, and the predicates that          *)
(* PolicyValidator (src/src/policy_validator.cpp) evaluates on a tool name *)
(* and a history of calls.  A history is the sequence of the names of the  *)
(* tools recorded in a session, oldest first; a ToolCall's parameters and  *)
(* time stamp take part in no check and are left out.                      *)
(*                                                                         *)
(* The graph does not change while a Guardian uses it: Guardian's          *)
(* constructor loads it and hands the validator a const reference.         *)
(***************************************************************************)
EXTENDS Naturals, Sequences, FiniteSets

CONSTANTS
  Tool,           \* tool names a client may ask for, known or not
  Node,           \* node ids of the graph (nodes_)
  NodeOf,         \* the index tool_name_to_id_: a function from tool names
  TypeOf,         \* node_type of each node
  Edge,           \* pairs of node ids (adjacency_list_)
  ContextLength   \* calls of the history that enter a cache key (5)

NodeType ==
  {"NORMAL", "SENSITIVE_SOURCE", "DATA_PROCESSOR", "EXTERNAL_DESTINATION"}

ASSUME GraphAssumption ==
  /\ DOMAIN NodeOf \subseteq Tool
  /\ NodeOf \in [DOMAIN NodeOf -> Node]
  /\ TypeOf \in [Node -> NodeType]
  /\ Edge \subseteq Node \X Node

ASSUME ContextAssumption == ContextLength \in Nat \ {0}

-----------------------------------------------------------------------------
(* get_node_by_tool_name finds a node *)
IsKnown(t) == t \in DOMAIN NodeOf

HasType(t, type) == IsKnown(t) /\ TypeOf[NodeOf[t]] = type

(* has_edge, on node ids *)
HasEdge(from, to) == <<from, to>> \in Edge

(* SEEDED FAULT for EdgeAllows: looks at the first call, not at the last. *)
EdgeAllowsFromFirst(history, t) ==
  history # <<>> /\ IsKnown(history[1]) => HasEdge(NodeOf[history[1]], NodeOf[t])

(* The last call of the history and tool t are joined by an edge.  A last  *)
(* call whose tool the graph does not know constrains nothing.             *)
EdgeAllows(history, t) ==
  LET last == history[Len(history)]
  IN  history # <<>> /\ IsKnown(last) => HasEdge(NodeOf[last], NodeOf[t])

(* How often tool t occurs in the history, wherever it occurs. *)
Occurrences(history, t) == Cardinality({i \in 1 .. Len(history) : history[i] = t})

(* A sensitive source is followed by an external destination, and no data  *)
(* processor is called between them.                                       *)
Exfiltrates(history) ==
  \E i, j \in 1 .. Len(history) :
    /\ i < j
    /\ HasType(history[i], "SENSITIVE_SOURCE")
    /\ HasType(history[j], "EXTERNAL_DESTINATION")
    /\ \A k \in 1 .. Len(history) :
         i < k /\ k < j => ~HasType(history[k], "DATA_PROCESSOR")

(* SEEDED FAULT for Context: keeps one call too few. *)
ContextTooShort(history) ==
  IF Len(history) >= ContextLength
  THEN SubSeq(history, Len(history) - ContextLength + 2, Len(history))
  ELSE history

(* The part of a history that enters a cache key: its last ContextLength   *)
(* calls.                                                                  *)
Context(history) ==
  IF Len(history) > ContextLength
  THEN SubSeq(history, Len(history) - ContextLength + 1, Len(history))
  ELSE history

(* Every check of validate except the one on repetitions. *)
Allowed(history, t) ==
  /\ IsKnown(t)
  /\ EdgeAllows(history, t)
  /\ ~Exfiltrates(Append(history, t))
=============================================================================
