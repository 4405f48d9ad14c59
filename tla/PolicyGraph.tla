---------------------------- MODULE PolicyGraph ----------------------------
(***************************************************************************)
(* PolicyGraph (src/src/policy_graph.cpp): a policy graph while it is      *)
(* built and changed.  A graph is a value of three maps, as in the code:   *)
(* nodes_ by id, adjacency_list_ from an id to the edges that leave it,    *)
(* and the index tool_name_to_id_.  The operations are operators from      *)
(* graph to graph, because the readers of policy files build graphs with   *)
(* them too.                                                               *)
(*                                                                         *)
(* An operation whose condition does not hold throws before it changes     *)
(* anything.  Of a node only id, tool name and type are kept, and of an    *)
(* edge its ends and whether it has conditions: the rest is copied around  *)
(* and never looked at.  A list of edges is kept as a set: no operation    *)
(* depends on their order.                                                 *)
(***************************************************************************)
CONSTANTS
  Id,           \* node ids, the empty one not among them
  ToolName,     \* tool names, NoName not among them
  NoName,       \* the empty string: a node that stands for no tool
  Type          \* node types

ASSUME NoNameAssumption == NoName \notin Id \cup ToolName

VARIABLE graph

PolicyNode == [id : Id, tool_name : ToolName \cup {NoName}, node_type : Type]
PolicyEdge == [from : Id, to : Id, conditional : BOOLEAN]

EmptyGraph ==
  [nodes |-> [i \in {} |-> NoName],
   adjacency |-> [i \in {} |-> {}],
   index |-> [t \in {} |-> NoName]]

-----------------------------------------------------------------------------
(* Maps: a key set, a key erased *)
With(f, k, v) == [x \in DOMAIN f \cup {k} |-> IF x = k THEN v ELSE f[x]]
Without(f, k) == [x \in DOMAIN f \ {k} |-> f[x]]

HasNode(g, id) == id \in DOMAIN g.nodes

(* get_neighbors *)
Neighbors(g, id) == IF id \in DOMAIN g.adjacency THEN g.adjacency[id] ELSE {}

EdgeBetween(g, from, to) == \E e \in Neighbors(g, from) : e.to = to

(* get_node_by_tool_name, through the index; NoName when it finds nothing *)
NodeByTool(g, t) ==
  IF t \in DOMAIN g.index /\ HasNode(g, g.index[t]) THEN g.index[t] ELSE NoName

-----------------------------------------------------------------------------
CanAddNode(g, n) == ~HasNode(g, n.id)

(* SEEDED FAULT for WithNode: only the first node is indexed. *)
WithNodeUnindexed(g, n) ==
  [nodes     |-> With(g.nodes, n.id, n),
   adjacency |-> With(g.adjacency, n.id, Neighbors(g, n.id)),
   index     |-> IF DOMAIN g.index # {} THEN g.index
                 ELSE With(g.index, n.tool_name, n.id)]

(* add_node.  A tool name that is in the index already is taken over. *)
WithNode(g, n) ==
  [nodes     |-> With(g.nodes, n.id, n),
   adjacency |-> With(g.adjacency, n.id, Neighbors(g, n.id)),
   index     |-> IF n.tool_name = NoName THEN g.index
                 ELSE With(g.index, n.tool_name, n.id)]

(* The edges that enter or leave a node are dropped *)
WithoutEdgesOf(g, id) ==
  [i \in DOMAIN g.adjacency \ {id} |-> {e \in g.adjacency[i] : e.to # id}]

(* SEEDED FAULT for WithoutNode: edges to the node are left behind. *)
WithoutNodeOnly(g, id) ==
  [nodes     |-> Without(g.nodes, id),
   adjacency |-> Without(g.adjacency, id),
   index     |-> Without(g.index, g.nodes[id].tool_name)]

(* SEEDED FAULT for WithoutNode: the index keeps its entry. *)
WithoutNodeStale(g, id) ==
  [nodes     |-> Without(g.nodes, id),
   adjacency |-> WithoutEdgesOf(g, id),
   index     |-> g.index]

(* remove_node, with every edge that enters or leaves the node.  The entry *)
(* of its tool name goes, whichever node it points to.                     *)
WithoutNode(g, id) ==
  [nodes     |-> Without(g.nodes, id),
   adjacency |-> WithoutEdgesOf(g, id),
   index     |-> Without(g.index, g.nodes[id].tool_name)]

CanAddEdge(g, e) ==
  HasNode(g, e.from) /\ HasNode(g, e.to) /\ ~EdgeBetween(g, e.from, e.to)

(* add_edge *)
WithEdge(g, e) ==
  [nodes     |-> g.nodes,
   adjacency |-> With(g.adjacency, e.from, Neighbors(g, e.from) \cup {e}),
   index     |-> g.index]

CanRemoveEdge(g, from, to) == from \in DOMAIN g.adjacency /\ EdgeBetween(g, from, to)

(* remove_edge *)
WithoutEdge(g, from, to) ==
  [nodes     |-> g.nodes,
   adjacency |-> [g.adjacency EXCEPT ![from] = {e \in @ : e.to # to}],
   index     |-> g.index]

-----------------------------------------------------------------------------
AddNode(n) == CanAddNode(graph, n) /\ graph' = WithNode(graph, n)

RemoveNode(id) == HasNode(graph, id) /\ graph' = WithoutNode(graph, id)

AddEdge(e) == CanAddEdge(graph, e) /\ graph' = WithEdge(graph, e)

RemoveEdge(from, to) ==
  CanRemoveEdge(graph, from, to) /\ graph' = WithoutEdge(graph, from, to)

GraphInit == graph = EmptyGraph

GraphNext ==
  \/ \E n \in PolicyNode : AddNode(n)
  \/ \E id \in Id : RemoveNode(id)
  \/ \E e \in PolicyEdge : AddEdge(e)
  \/ \E from, to \in Id : RemoveEdge(from, to)

(* A graph in the hands of any program *)
GraphSpec == GraphInit /\ [][GraphNext]_graph

-----------------------------------------------------------------------------
(* The maps hold nodes under their own id, edges under the node they leave *)
(* (add_node, add_edge).                                                   *)
GraphTypeOK ==
  /\ graph.nodes \in [DOMAIN graph.nodes -> PolicyNode]
  /\ \A i \in DOMAIN graph.nodes : graph.nodes[i].id = i
  /\ graph.adjacency \in [DOMAIN graph.nodes -> SUBSET PolicyEdge]
  /\ \A i \in DOMAIN graph.nodes : \A e \in graph.adjacency[i] : e.from = i
  /\ graph.index \in [DOMAIN graph.index -> Id]
  /\ DOMAIN graph.index \subseteq ToolName

(* Every edge leads to a node, however nodes and edges came and went: a    *)
(* node added again under the id of a removed one has no way in that it    *)
(* was not given (add_edge, remove_node).                                  *)
EdgesJoinNodes ==
  \A i \in DOMAIN graph.adjacency : \A e \in graph.adjacency[i] :
    HasNode(graph, e.to)

(* Two nodes are joined by one edge in a direction, so that removing an    *)
(* edge takes the permission away and its conditions are no matter of      *)
(* which edge is looked at (add_edge).                                     *)
EdgesDistinct ==
  \A i \in DOMAIN graph.adjacency : \A d, e \in graph.adjacency[i] :
    d.to = e.to => d = e

(* The index leads only to nodes that are there and stand for the tool:    *)
(* get_node_by_tool_name never answers with a node of another tool, nor    *)
(* with one that was removed and added for another tool since.             *)
IndexSound ==
  \A t \in DOMAIN graph.index :
    HasNode(graph, graph.index[t]) /\ graph.nodes[graph.index[t]].tool_name = t

(* The nodes that stand for a tool *)
Stands(g, t) == {i \in DOMAIN g.nodes : g.nodes[i].tool_name = t}

(* A tool that a node stands for is found by its name, and it is lost only *)
(* when a node of it is removed: with two nodes for one tool, removing     *)
(* either loses it (add_node, remove_node, get_node_by_tool_name).         *)
IndexKeepsUp ==
  [][\A t \in ToolName :
       Stands(graph', t) # {} /\ NodeByTool(graph', t) = NoName =>
         \/ Stands(graph, t) # {} /\ NodeByTool(graph, t) = NoName
         \/ ~(Stands(graph, t) \subseteq Stands(graph', t))]_graph
=============================================================================
