---------------------------- MODULE PolicyFiles -----------------------------
(***************************************************************************)
(* The JSON and DOT forms of a PolicyGraph (to_json, from_json, to_dot,    *)
(* from_dot in src/src/policy_graph.cpp) and a graph that is edited,       *)
(* written to files and read from files.  A file is a sequence of entries, *)
(* nodes first and then edges: the members of two arrays in JSON, lines in *)
(* DOT.  The writers go through unordered maps, so a graph is written in   *)
(* any order.  A reader goes through the entries twice, for the nodes and  *)
(* for the edges, and adds them to a graph of its own one by one; the      *)
(* first entry add_node or add_edge refuses makes it throw.                *)
(*                                                                         *)
(* What the properties tell apart is kept of the text: how a type is       *)
(* spelled, and which lines of a DOT file a pattern matches.               *)
(***************************************************************************)
EXTENDS PolicyGraph, Naturals, Sequences, SequencesExt

CONSTANTS
  NewNodes,     \* nodes and edges that are tried to be added
  NewEdges,
  Label,        \* the text of an edge's conditions in DOT
  Files         \* files written by hand

VARIABLES
  file,         \* the file that is read
  pass,         \* "closed" when none is, "nodes" and then "edges", and at the
                \* end "read" or "thrown"
  at,           \* the next entry
  built         \* the graph it gave so far

fileVars == <<file, pass, at, built>>
policyFilesVars == <<graph, fileVars>>

(* An entry: "id" [label="tool\n(type)", ...]; or "from" -> "to"; or, with *)
(* conditions, "from" -> "to" [label="k=v"]; and the same members in JSON. *)
(* A file that somebody wrote spells a type in any way.                    *)
NodeEntry ==
  [kind : {"node"}, id : Id, tool_name : ToolName \cup {NoName}, node_type : STRING]
EdgeEntry == [kind : {"edge"}, from : Id, to : Id, conditional : BOOLEAN]
File == [form : {"json", "dot"}, entries : Seq(NodeEntry \cup EdgeEntry)]

ASSUME NewAssumption == NewNodes \subseteq PolicyNode /\ NewEdges \subseteq PolicyEdge
ASSUME LabelAssumption == Label \in ToolName
ASSUME FilesAssumption == Files \subseteq File
ASSUME TypeAssumption ==
  Type = {"NORMAL", "SENSITIVE_SOURCE", "DATA_PROCESSOR", "EXTERNAL_DESTINATION"}

(* node_type_to_string *)
NodeTypeToString(type) ==
  [NORMAL |-> "normal", SENSITIVE_SOURCE |-> "sensitive_source",
   EXTERNAL_DESTINATION |-> "external_destination",
   DATA_PROCESSOR |-> "data_processor"][type]

(* SEEDED FAULT for StringToNodeType: one spelling is missing. *)
StringToNodeTypeTwo(s) ==
  CASE s = "sensitive_source" -> "SENSITIVE_SOURCE"
    [] s = "external_destination" -> "EXTERNAL_DESTINATION"
    [] OTHER -> "NORMAL"

(* string_to_node_type takes every other spelling for a normal node. *)
StringToNodeType(s) ==
  CASE s = "sensitive_source" -> "SENSITIVE_SOURCE"
    [] s = "external_destination" -> "EXTERNAL_DESTINATION"
    [] s = "data_processor" -> "DATA_PROCESSOR"
    [] OTHER -> "NORMAL"

-----------------------------------------------------------------------------
(* What the writers write of a node and of an edge *)
WrittenNode(n) ==
  [kind |-> "node", id |-> n.id, tool_name |-> n.tool_name,
   node_type |-> NodeTypeToString(n.node_type)]
WrittenEdge(e) ==
  [kind |-> "edge", from |-> e.from, to |-> e.to, conditional |-> e.conditional]

WrittenNodes(g) == {WrittenNode(g.nodes[i]) : i \in DOMAIN g.nodes}
WrittenEdges(g) == {WrittenEdge(e) : e \in UNION {g.adjacency[i] : i \in DOMAIN g.adjacency}}

(* The nodes in some order, and then the edges *)
Listings(g) ==
  {nodes \o arrows : nodes \in SetToSeqs(WrittenNodes(g)),
                     arrows \in SetToSeqs(WrittenEdges(g))}

ToJson(g) == {[form |-> "json", entries |-> list] : list \in Listings(g)}
ToDot(g) == {[form |-> "dot", entries |-> list] : list \in Listings(g)}

-----------------------------------------------------------------------------
(* SEEDED FAULT for IsNodeEntry: an edge line without label matches too. *)
IsAnyEntry(f, e) == e.kind = "edge" => f.form = "dot"

(* The pattern for nodes in from_dot, a quoted name and a bracket, is      *)
(* searched anywhere in a line: it matches an edge line with a label too,  *)
(* at the name of the node the edge leads to, and the label is taken for   *)
(* the name of its tool.                                                   *)
IsNodeEntry(f, e) == e.kind = "edge" => f.form = "dot" /\ e.conditional

NodeFrom(e) ==
  IF e.kind = "node"
  THEN [id |-> e.id, tool_name |-> e.tool_name, node_type |-> StringToNodeType(e.node_type)]
  ELSE [id |-> e.to, tool_name |-> Label, node_type |-> "NORMAL"]

EdgeOf(e) == [from |-> e.from, to |-> e.to, conditional |-> e.conditional]

-----------------------------------------------------------------------------
NoFile == [form |-> "json", entries |-> <<>>]

FilesInit ==
  /\ GraphInit
  /\ file = NoFile /\ pass = "closed" /\ at = 1 /\ built = EmptyGraph

(* A file with the entries of a graph, or one that somebody wrote *)
Open(f) ==
  /\ pass = "closed"
  /\ file' = f /\ pass' = "nodes" /\ at' = 1 /\ built' = EmptyGraph
  /\ UNCHANGED graph

HasEntry == at <= Len(file.entries)
entry == file.entries[at]

IsEdgeEntry == entry.kind = "edge"
JoinsNodes == HasNode(built, entry.from) /\ HasNode(built, entry.to)

ReadNode ==
  /\ pass = "nodes" /\ HasEntry /\ IsNodeEntry(file, entry)
  /\ CanAddNode(built, NodeFrom(entry))
  /\ built' = WithNode(built, NodeFrom(entry)) /\ at' = at + 1
  /\ UNCHANGED <<graph, file, pass>>

ReadEdge ==
  /\ pass = "edges" /\ HasEntry /\ IsEdgeEntry
  /\ CanAddEdge(built, EdgeOf(entry))
  /\ built' = WithEdge(built, EdgeOf(entry)) /\ at' = at + 1
  /\ UNCHANGED <<graph, file, pass>>

(* Entries of the other kind; and from_dot skips an edge that does not     *)
(* join two nodes.                                                         *)
SkipEntry ==
  /\ HasEntry
  /\ \/ pass = "nodes" /\ ~IsNodeEntry(file, entry)
     \/ pass = "edges" /\ ~IsEdgeEntry
     \/ pass = "edges" /\ IsEdgeEntry /\ file.form = "dot" /\ ~JoinsNodes
  /\ at' = at + 1
  /\ UNCHANGED <<graph, file, pass, built>>

Throw ==
  /\ HasEntry
  /\ \/ pass = "nodes" /\ IsNodeEntry(file, entry) /\ ~CanAddNode(built, NodeFrom(entry))
     \/ /\ pass = "edges" /\ IsEdgeEntry /\ ~CanAddEdge(built, EdgeOf(entry))
        /\ file.form = "dot" => JoinsNodes
  /\ pass' = "thrown"
  /\ UNCHANGED <<graph, file, at, built>>

NextPass ==
  /\ pass \in {"nodes", "edges"} /\ ~HasEntry
  /\ pass' = IF pass = "nodes" THEN "edges" ELSE "read"
  /\ at' = 1
  /\ UNCHANGED <<graph, file, built>>

Close ==
  file' = NoFile /\ pass' = "closed" /\ at' = 1 /\ built' = EmptyGraph

(* The graph that was read is used in place of the one there was. *)
Load == pass = "read" /\ graph' = built /\ Close

(* It is given up, or there is none. *)
GiveUpFile == pass \in {"read", "thrown"} /\ Close /\ UNCHANGED graph

(* The graph is edited while no file is read. *)
Edit ==
  /\ pass = "closed" /\ UNCHANGED fileVars
  /\ \/ \E n \in NewNodes : AddNode(n)
     \/ \E id \in Id : RemoveNode(id)
     \/ \E e \in NewEdges : AddEdge(e)
     \/ \E from, to \in Id : RemoveEdge(from, to)

FilesNext ==
  \/ Edit
  \/ \E f \in ToJson(graph) \cup ToDot(graph) \cup Files : Open(f)
  \/ ReadNode \/ ReadEdge \/ SkipEntry \/ Throw \/ NextPass
  \/ Load \/ GiveUpFile

FilesSpec == FilesInit /\ [][FilesNext]_policyFilesVars

-----------------------------------------------------------------------------
(* What to_json writes, from_json reads back, in whatever order the maps   *)
(* were written: nodes, types and edges.  A tool with one node is then     *)
(* found by its name, whatever the index of the graph that was written had *)
(* lost.                                                                   *)
JsonRoundTrip ==
  pass \in {"read", "thrown"} /\ file \in ToJson(graph) =>
    /\ pass = "read"
    /\ built.nodes = graph.nodes
    /\ built.adjacency = graph.adjacency
    /\ \A t \in ToolName, i \in Id : Stands(graph, t) = {i} => NodeByTool(built, t) = i

(* What to_dot writes, from_dot reads back, unless an edge has conditions: *)
(* its line is then taken for a second definition of the node it leads to, *)
(* and the reader throws.  It never returns another graph than was         *)
(* written.                                                                *)
DotRoundTrip ==
  pass \in {"read", "thrown"} /\ file \in ToDot(graph) =>
    IF \E i \in DOMAIN graph.adjacency : \E e \in graph.adjacency[i] : e.conditional
    THEN pass = "thrown"
    ELSE pass = "read" /\ built.nodes = graph.nodes /\ built.adjacency = graph.adjacency

(* A graph read from a file gives its nodes the types the file declares,   *)
(* as the policy guide spells them (from_json, string_to_node_type).       *)
TypesAsDeclared ==
  [][Load /\ file \in Files =>
       \A k \in DOMAIN file.entries :
         LET e == file.entries[k]
         IN  e.kind = "node" => graph'.nodes[e.id].node_type = e.node_type]_policyFilesVars
=============================================================================
