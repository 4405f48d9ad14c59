------------------------- MODULE PolicyGraphProofs --------------------------
(***************************************************************************)
(* The invariants of PolicyGraph, for any ids, tool names and types and    *)
(* any sequence of its operations.  They are proved together, of any graph *)
(* g: each operation keeps Sound(g), part by part.  So they hold of the    *)
(* graph a program edits and of the graph a reader of policy files builds, *)
(* and what a file was written from can be followed entry by entry through *)
(* its reader: both formats are read back.                                 *)
(***************************************************************************)
EXTENDS PolicyFiles, FiniteSetTheorems, TLAPS

Edges(g) == UNION {g.adjacency[i] : i \in DOMAIN g.adjacency}

(* The invariants of `graph', for any graph g *)
Typed(g) ==
  /\ g.nodes \in [DOMAIN g.nodes -> PolicyNode]
  /\ \A i \in DOMAIN g.nodes : g.nodes[i].id = i
  /\ g.adjacency \in [DOMAIN g.nodes -> SUBSET PolicyEdge]
  /\ \A i \in DOMAIN g.nodes : \A e \in g.adjacency[i] : e.from = i
  /\ g.index \in [DOMAIN g.index -> Id]
  /\ DOMAIN g.index \subseteq ToolName

Joined(g) ==
  \A i \in DOMAIN g.adjacency : \A e \in g.adjacency[i] : e.to \in DOMAIN g.nodes

Distinct(g) ==
  \A i \in DOMAIN g.adjacency : \A d, e \in g.adjacency[i] : d.to = e.to => d = e

Indexed(g) ==
  \A t \in DOMAIN g.index :
    g.index[t] \in DOMAIN g.nodes /\ g.nodes[g.index[t]].tool_name = t

Finite(g) == IsFiniteSet(DOMAIN g.nodes) /\ IsFiniteSet(Edges(g))

Sound(g) == Typed(g) /\ Joined(g) /\ Distinct(g) /\ Indexed(g) /\ Finite(g)

-----------------------------------------------------------------------------
(* The empty graph *)
LEMMA EmptyGraphSound == Sound(EmptyGraph)
<1>1. DOMAIN EmptyGraph.nodes = {} /\ Edges(EmptyGraph) = {}
  BY DEF EmptyGraph, Edges
<1>2. Finite(EmptyGraph)
  BY <1>1, FS_EmptySet DEF Finite
<1>3. Typed(EmptyGraph) /\ Joined(EmptyGraph) /\ Distinct(EmptyGraph) /\ Indexed(EmptyGraph)
  BY DEF EmptyGraph, Typed, Joined, Distinct, Indexed
<1> QED
  BY <1>2, <1>3 DEF Sound

-----------------------------------------------------------------------------
(* add_node: the node has no edges yet, and no entry of the index led to it *)
LEMMA WithNodeSound ==
  ASSUME NEW g, NEW h, Sound(g), NEW n \in PolicyNode, CanAddNode(g, n), h = WithNode(g, n)
  PROVE  Sound(h)
<1>1. n.id \notin DOMAIN g.nodes /\ n.id \in Id
  BY DEF CanAddNode, HasNode, PolicyNode
<1>2. /\ h.nodes = With(g.nodes, n.id, n)
      /\ h.adjacency = With(g.adjacency, n.id, {})
      /\ h.index = IF n.tool_name = NoName THEN g.index
                   ELSE With(g.index, n.tool_name, n.id)
  BY <1>1 DEF WithNode, Neighbors, Sound, Typed
<1>3. /\ DOMAIN h.nodes = DOMAIN g.nodes \cup {n.id}
      /\ h.nodes[n.id] = n
      /\ \A i \in DOMAIN g.nodes : h.nodes[i] = g.nodes[i]
      /\ h.nodes \in [DOMAIN h.nodes -> PolicyNode]
  BY <1>1, <1>2 DEF With, Sound, Typed
<1>4. /\ DOMAIN h.adjacency = DOMAIN h.nodes
      /\ h.adjacency[n.id] = {}
      /\ \A i \in DOMAIN g.nodes : h.adjacency[i] = g.adjacency[i]
      /\ h.adjacency \in [DOMAIN h.nodes -> SUBSET PolicyEdge]
  <2>1. DOMAIN g.adjacency = DOMAIN g.nodes
    BY DEF Sound, Typed
  <2>2. {} \in SUBSET PolicyEdge
    OBVIOUS
  <2>3. With(g.adjacency, n.id, {})
          \in [DOMAIN g.adjacency \cup {n.id} -> SUBSET PolicyEdge]
    BY <2>1, <2>2 DEF With, Sound, Typed
  <2> QED
    BY <1>1, <1>2, <1>3, <2>1, <2>3 DEF With
<1>5. /\ DOMAIN h.index \subseteq DOMAIN g.index \cup {n.tool_name}
      /\ DOMAIN h.index \subseteq ToolName
      /\ h.index \in [DOMAIN h.index -> Id]
      /\ \A t \in DOMAIN h.index :
           \/ t = n.tool_name /\ h.index[t] = n.id
           \/ t \in DOMAIN g.index /\ h.index[t] = g.index[t]
  <2>1. CASE n.tool_name = NoName
    BY <1>2, <2>1 DEF Sound, Typed
  <2>2. CASE n.tool_name # NoName
    <3>1. n.tool_name \in ToolName
      BY <2>2 DEF PolicyNode
    <3>2. h.index = With(g.index, n.tool_name, n.id)
      BY <1>2, <2>2
    <3> QED
      BY <1>1, <3>1, <3>2 DEF With, Sound, Typed
  <2> QED
    BY <2>1, <2>2
<1>6. Typed(h)
  BY <1>3, <1>4, <1>5 DEF Sound, Typed
<1>7. Joined(h)
  BY <1>3, <1>4 DEF Sound, Joined, Typed
<1>8. Distinct(h)
  BY <1>3, <1>4 DEF Sound, Distinct, Typed
<1>9. Indexed(h)
  BY <1>3, <1>5 DEF Sound, Indexed
<1>10. Finite(h)
  <2>1. Edges(h) = Edges(g)
    BY <1>1, <1>3, <1>4 DEF Edges, Sound, Typed
  <2> QED
    BY <1>3, <2>1, FS_AddElement DEF Sound, Finite
<1> QED
  BY <1>6, <1>7, <1>8, <1>9, <1>10 DEF Sound

(* remove_node: the edges to the node go with it, and the index keeps only *)
(* entries of other tools, which led to other nodes                        *)
LEMMA WithoutNodeSound ==
  ASSUME NEW g, NEW h, Sound(g), NEW id \in DOMAIN g.nodes, h = WithoutNode(g, id)
  PROVE  Sound(h)
<1> DEFINE tool == g.nodes[id].tool_name
<1>1. /\ h.nodes = Without(g.nodes, id)
      /\ h.adjacency = WithoutEdgesOf(g, id)
      /\ h.index = Without(g.index, tool)
  BY DEF WithoutNode
<1>2. /\ DOMAIN h.nodes = DOMAIN g.nodes \ {id}
      /\ \A i \in DOMAIN h.nodes : h.nodes[i] = g.nodes[i]
      /\ h.nodes \in [DOMAIN h.nodes -> PolicyNode]
  BY <1>1 DEF Without, Sound, Typed
<1>3. /\ DOMAIN h.adjacency = DOMAIN h.nodes
      /\ \A i \in DOMAIN h.nodes :
           h.adjacency[i] = {e \in g.adjacency[i] : e.to # id}
      /\ h.adjacency \in [DOMAIN h.nodes -> SUBSET PolicyEdge]
  BY <1>1, <1>2 DEF WithoutEdgesOf, Sound, Typed
<1>4. /\ DOMAIN h.index = DOMAIN g.index \ {tool}
      /\ \A t \in DOMAIN h.index : h.index[t] = g.index[t]
      /\ h.index \in [DOMAIN h.index -> Id]
  BY <1>1 DEF Without, Sound, Typed
<1>5. Typed(h)
  BY <1>2, <1>3, <1>4 DEF Sound, Typed
<1>6. Joined(h)
  BY <1>2, <1>3 DEF Sound, Typed, Joined
<1>7. Distinct(h)
  BY <1>2, <1>3 DEF Sound, Typed, Distinct
<1>8. Indexed(h)
  BY <1>2, <1>4 DEF Sound, Indexed
<1>9. Finite(h)
  <2>1. Edges(h) \subseteq Edges(g)
    BY <1>2, <1>3 DEF Edges, Sound, Typed
  <2> QED
    BY <1>2, <2>1, FS_Subset DEF Sound, Finite
<1> QED
  BY <1>5, <1>6, <1>7, <1>8, <1>9 DEF Sound

(* Changing the edges that leave one node leaves nodes and index alone *)
LEMMA EdgesChange ==
  ASSUME NEW g, NEW h, Sound(g),
         NEW from \in DOMAIN g.nodes, NEW edges \in SUBSET PolicyEdge,
         h.nodes = g.nodes, h.index = g.index,
         DOMAIN h.adjacency = DOMAIN g.adjacency,
         h.adjacency[from] = edges,
         \A i \in DOMAIN g.adjacency : i # from => h.adjacency[i] = g.adjacency[i],
         h.adjacency \in [DOMAIN h.adjacency -> SUBSET PolicyEdge],
         \A e \in edges : e.from = from /\ e.to \in DOMAIN g.nodes,
         \A d, e \in edges : d.to = e.to => d = e,
         IsFiniteSet(Edges(h))
  PROVE  Sound(h)
<1>1. Typed(h)
  BY DEF Sound, Typed
<1>2. Joined(h)
  BY DEF Sound, Typed, Joined
<1>3. Distinct(h)
  BY DEF Sound, Typed, Distinct
<1>4. Indexed(h)
  BY DEF Sound, Indexed
<1>5. Finite(h)
  BY DEF Sound, Finite
<1> QED
  BY <1>1, <1>2, <1>3, <1>4, <1>5 DEF Sound

LEMMA WithEdgeSound ==
  ASSUME NEW g, NEW h, Sound(g), NEW e \in PolicyEdge, CanAddEdge(g, e), h = WithEdge(g, e)
  PROVE  Sound(h)
<1> DEFINE edges == g.adjacency[e.from] \cup {e}
<1>1. /\ e.from \in DOMAIN g.nodes /\ e.to \in DOMAIN g.nodes
      /\ DOMAIN g.adjacency = DOMAIN g.nodes
      /\ ~EdgeBetween(g, e.from, e.to)
  BY DEF CanAddEdge, HasNode, Sound, Typed
<1>2. Neighbors(g, e.from) = g.adjacency[e.from]
  BY <1>1 DEF Neighbors
<1>3. /\ h.nodes = g.nodes /\ h.index = g.index
      /\ h.adjacency = With(g.adjacency, e.from, edges)
  BY <1>2 DEF WithEdge
<1>4. edges \in SUBSET PolicyEdge
  BY <1>1 DEF Sound, Typed
<1>5. \A d \in edges : d.from = e.from /\ d.to \in DOMAIN g.nodes
  BY <1>1 DEF Sound, Typed, Joined
<1>6. \A c, d \in edges : c.to = d.to => c = d
  BY <1>1, <1>2 DEF Sound, Distinct, EdgeBetween
<1>7. /\ DOMAIN h.adjacency = DOMAIN g.adjacency
      /\ h.adjacency[e.from] = edges
      /\ \A i \in DOMAIN g.adjacency :
           i # e.from => h.adjacency[i] = g.adjacency[i]
      /\ h.adjacency \in [DOMAIN h.adjacency -> SUBSET PolicyEdge]
  BY <1>1, <1>3, <1>4 DEF With, Sound, Typed
<1>8. IsFiniteSet(Edges(h))
  <2>1. ASSUME NEW i \in DOMAIN h.adjacency, NEW d \in h.adjacency[i]
        PROVE  d = e \/ d \in g.adjacency[i]
    BY <1>7, <2>1
  <2>2. Edges(h) \subseteq Edges(g) \cup {e}
    BY <1>7, <2>1 DEF Edges
  <2> QED
    BY <2>2, FS_AddElement, FS_Subset DEF Sound, Finite
<1> HIDE DEF edges
<1> QED
  BY <1>1, <1>3, <1>4, <1>5, <1>6, <1>7, <1>8, EdgesChange

LEMMA WithoutEdgeSound ==
  ASSUME NEW g, NEW h, Sound(g), NEW from, NEW to, CanRemoveEdge(g, from, to),
         h = WithoutEdge(g, from, to)
  PROVE  Sound(h)
<1> DEFINE edges == {e \in g.adjacency[from] : e.to # to}
<1>1. from \in DOMAIN g.nodes /\ DOMAIN g.adjacency = DOMAIN g.nodes
  BY DEF CanRemoveEdge, Sound, Typed
<1>2. /\ h.nodes = g.nodes /\ h.index = g.index
      /\ h.adjacency = [g.adjacency EXCEPT ![from] = edges]
  BY DEF WithoutEdge, Sound, Typed
<1>3. edges \in SUBSET PolicyEdge
  BY <1>1 DEF Sound, Typed
<1>4. \A e \in edges : e.from = from /\ e.to \in DOMAIN g.nodes
  BY <1>1 DEF Sound, Typed, Joined
<1>5. \A d, e \in edges : d.to = e.to => d = e
  BY <1>1 DEF Sound, Distinct
<1>6. /\ DOMAIN h.adjacency = DOMAIN g.adjacency
      /\ h.adjacency[from] = edges
      /\ \A i \in DOMAIN g.adjacency :
           i # from => h.adjacency[i] = g.adjacency[i]
      /\ h.adjacency \in [DOMAIN h.adjacency -> SUBSET PolicyEdge]
  BY <1>1, <1>2, <1>3 DEF Sound, Typed
<1>7. IsFiniteSet(Edges(h))
  <2>1. Edges(h) \subseteq Edges(g)
    BY <1>6 DEF Edges
  <2> QED
    BY <2>1, FS_Subset DEF Sound, Finite
<1> HIDE DEF edges
<1> QED
  BY <1>1, <1>2, <1>3, <1>4, <1>5, <1>6, <1>7, EdgesChange

-----------------------------------------------------------------------------
(* So each operation keeps the invariants of `graph'. *)
GraphInv == Sound(graph)

LEMMA GraphInvParts ==
  GraphInv => GraphTypeOK /\ EdgesJoinNodes /\ EdgesDistinct /\ IndexSound
BY DEF GraphInv, Sound, Typed, Joined, Distinct, Indexed, GraphTypeOK, EdgesJoinNodes,
       EdgesDistinct, IndexSound, HasNode

LEMMA AddNodeKeeps ==
  ASSUME GraphInv, NEW n \in PolicyNode, AddNode(n) PROVE GraphInv'
BY WithNodeSound DEF AddNode, GraphInv

LEMMA RemoveNodeKeeps ==
  ASSUME GraphInv, NEW id, RemoveNode(id) PROVE GraphInv'
BY WithoutNodeSound DEF RemoveNode, HasNode, GraphInv

LEMMA AddEdgeKeeps ==
  ASSUME GraphInv, NEW e \in PolicyEdge, AddEdge(e) PROVE GraphInv'
BY WithEdgeSound DEF AddEdge, GraphInv

LEMMA RemoveEdgeKeeps ==
  ASSUME GraphInv, NEW from, NEW to, RemoveEdge(from, to) PROVE GraphInv'
BY WithoutEdgeSound DEF RemoveEdge, GraphInv

-----------------------------------------------------------------------------
LEMMA GraphStepKeeps == ASSUME GraphInv, GraphNext PROVE GraphInv'
<1>1. CASE \E n \in PolicyNode : AddNode(n)
  BY <1>1, AddNodeKeeps
<1>2. CASE \E id \in Id : RemoveNode(id)
  BY <1>2, RemoveNodeKeeps
<1>3. CASE \E e \in PolicyEdge : AddEdge(e)
  BY <1>3, AddEdgeKeeps
<1>4. CASE \E from, to \in Id : RemoveEdge(from, to)
  BY <1>4, RemoveEdgeKeeps
<1> QED
  BY <1>1, <1>2, <1>3, <1>4 DEF GraphNext

(* Whatever is done with a graph, the invariants hold together. *)
THEOREM GraphInvariant == GraphSpec => []GraphInv
<1>1. GraphInit => GraphInv
  BY EmptyGraphSound DEF GraphInit, GraphInv
<1>2. GraphInv /\ [GraphNext]_graph => GraphInv'
  <2> SUFFICES ASSUME GraphInv, [GraphNext]_graph PROVE GraphInv'
    OBVIOUS
  <2>1. CASE GraphNext
    BY <2>1, GraphStepKeeps
  <2>2. CASE UNCHANGED graph
    BY <2>2 DEF GraphInv
  <2> QED
    BY <2>1, <2>2
<1> QED
  BY <1>1, <1>2, PTL DEF GraphSpec

(* No edge leads to a node that was removed (remove_node, add_edge). *)
THEOREM EdgesAlwaysJoinNodes == GraphSpec => []EdgesJoinNodes
<1>1. GraphInv => EdgesJoinNodes
  BY GraphInvParts
<1> QED
  BY <1>1, GraphInvariant, PTL

(* Two nodes are joined by one edge in a direction (add_edge). *)
THEOREM EdgesAlwaysDistinct == GraphSpec => []EdgesDistinct
<1>1. GraphInv => EdgesDistinct
  BY GraphInvParts
<1> QED
  BY <1>1, GraphInvariant, PTL

(* The index never leads to a removed node or one of another tool          *)
(* (add_node, remove_node, get_node_by_tool_name).                         *)
THEOREM IndexAlwaysSound == GraphSpec => []IndexSound
<1>1. GraphInv => IndexSound
  BY GraphInvParts
<1> QED
  BY <1>1, GraphInvariant, PTL
-----------------------------------------------------------------------------
(* The lookup by tool name fails for exactly the names without an entry *)
LEMMA LookupFails ==
  ASSUME NEW g, Sound(g), NEW t
  PROVE  NodeByTool(g, t) = NoName <=> t \notin DOMAIN g.index
BY NoNameAssumption DEF Sound, Typed, Indexed, NodeByTool, HasNode

(* IndexKeepsUp, of one tool and one step *)
KeepsUp(t) ==
  Stands(graph', t) # {} /\ NodeByTool(graph', t) = NoName =>
    \/ Stands(graph, t) # {} /\ NodeByTool(graph, t) = NoName
    \/ ~(Stands(graph, t) \subseteq Stands(graph', t))

(* So IndexKeepsUp is a matter of the names that have an entry. *)
LEMMA LookupKeepsUp ==
  ASSUME GraphInv, GraphInv', NEW t \in ToolName,
         /\ Stands(graph', t) # {} /\ t \notin DOMAIN graph'.index
         => \/ Stands(graph, t) # {} /\ t \notin DOMAIN graph.index
            \/ ~(Stands(graph, t) \subseteq Stands(graph', t))
  PROVE  KeepsUp(t)
<1>1. NodeByTool(graph, t) = NoName <=> t \notin DOMAIN graph.index
  BY LookupFails DEF GraphInv
<1>2. NodeByTool(graph', t) = NoName <=> t \notin DOMAIN graph'.index
  BY LookupFails DEF GraphInv
<1> QED
  BY <1>1, <1>2 DEF KeepsUp

(* add_node: the entry of the new node's tool is made or taken over, and   *)
(* no other tool gains or loses a node.                                    *)
LEMMA AddNodeKeepsUp ==
  ASSUME GraphInv, NEW n \in PolicyNode, AddNode(n), NEW t \in ToolName
  PROVE  KeepsUp(t)
<1>1. /\ graph'.nodes = With(graph.nodes, n.id, n)
      /\ graph'.index = IF n.tool_name = NoName THEN graph.index
                        ELSE With(graph.index, n.tool_name, n.id)
      /\ n.id \notin DOMAIN graph.nodes
  BY DEF AddNode, CanAddNode, HasNode, WithNode
<1>2. t \notin DOMAIN graph'.index => t \notin DOMAIN graph.index /\ n.tool_name # t
  BY <1>1, NoNameAssumption DEF With
<1>3. n.tool_name # t => Stands(graph', t) = Stands(graph, t)
  BY <1>1 DEF With, Stands
<1> QED
  BY <1>2, <1>3, AddNodeKeeps, LookupKeepsUp

(* remove_node: the tool whose entry goes loses a node with it. *)
LEMMA RemoveNodeKeepsUp ==
  ASSUME GraphInv, NEW id \in Id, RemoveNode(id), NEW t \in ToolName
  PROVE  KeepsUp(t)
<1>1. /\ graph'.nodes = Without(graph.nodes, id)
      /\ graph'.index = Without(graph.index, graph.nodes[id].tool_name)
      /\ id \in DOMAIN graph.nodes
  BY DEF RemoveNode, WithoutNode, HasNode
<1>2. Stands(graph', t) \subseteq Stands(graph, t) /\ id \notin Stands(graph', t)
  BY <1>1 DEF Without, Stands
<1>3. t \in DOMAIN graph.index /\ t \notin DOMAIN graph'.index => id \in Stands(graph, t)
  BY <1>1 DEF Without, Stands
<1> QED
  BY <1>2, <1>3, RemoveNodeKeeps, LookupKeepsUp

LEMMA GraphStepKeepsUp ==
  ASSUME GraphInv, GraphNext, NEW t \in ToolName PROVE KeepsUp(t)
<1>1. CASE \E n \in PolicyNode : AddNode(n)
  BY <1>1, AddNodeKeepsUp
<1>2. CASE \E id \in Id : RemoveNode(id)
  BY <1>2, RemoveNodeKeepsUp
<1>3. ASSUME NEW e \in PolicyEdge, AddEdge(e) PROVE KeepsUp(t)
  BY <1>3 DEF AddEdge, WithEdge, KeepsUp, Stands, NodeByTool, HasNode
<1>4. ASSUME NEW from \in Id, NEW to \in Id, RemoveEdge(from, to) PROVE KeepsUp(t)
  BY <1>4 DEF RemoveEdge, WithoutEdge, KeepsUp, Stands, NodeByTool, HasNode
<1> QED
  BY <1>1, <1>2, <1>3, <1>4 DEF GraphNext

(* A tool with a node and no entry was so before, or a node of it went:    *)
(* add_node and remove_node leave no other way.                            *)
THEOREM IndexAlwaysKeepsUp == GraphSpec => IndexKeepsUp
<1>1. ASSUME GraphInv, [GraphNext]_graph, NEW t \in ToolName
      PROVE  graph' = graph \/ KeepsUp(t)
  BY <1>1, GraphStepKeepsUp
<1>2. GraphInv /\ [GraphNext]_graph =>
        [\A t \in ToolName :
           Stands(graph', t) # {} /\ NodeByTool(graph', t) = NoName =>
             \/ Stands(graph, t) # {} /\ NodeByTool(graph, t) = NoName
             \/ ~(Stands(graph, t) \subseteq Stands(graph', t))]_graph
  BY <1>1 DEF KeepsUp
<1> QED
  BY <1>2, GraphInvariant, PTL DEF GraphSpec, IndexKeepsUp
-----------------------------------------------------------------------------
(* What a writer makes of a node or an edge, a reader makes the same node  *)
(* or edge of.                                                             *)
LEMMA TypesReadBack ==
  ASSUME NEW t \in Type PROVE StringToNodeType(NodeTypeToString(t)) = t
<1>1. /\ NodeTypeToString("NORMAL") = "normal"
      /\ NodeTypeToString("SENSITIVE_SOURCE") = "sensitive_source"
      /\ NodeTypeToString("EXTERNAL_DESTINATION") = "external_destination"
      /\ NodeTypeToString("DATA_PROCESSOR") = "data_processor"
  BY DEF NodeTypeToString
<1>2. /\ StringToNodeType("normal") = "NORMAL"
      /\ StringToNodeType("sensitive_source") = "SENSITIVE_SOURCE"
      /\ StringToNodeType("external_destination") = "EXTERNAL_DESTINATION"
      /\ StringToNodeType("data_processor") = "DATA_PROCESSOR"
  BY Zenon DEF StringToNodeType
<1> QED
  BY <1>1, <1>2, TypeAssumption

LEMMA NodesReadBack ==
  ASSUME NEW n \in PolicyNode
  PROVE  WrittenNode(n).kind = "node" /\ NodeFrom(WrittenNode(n)) = n
<1>1. n.node_type \in Type /\ n = [id |-> n.id, tool_name |-> n.tool_name,
                                   node_type |-> n.node_type]
  BY DEF PolicyNode
<1> QED
  BY <1>1, TypesReadBack DEF WrittenNode, NodeFrom

LEMMA EdgesReadBack ==
  ASSUME NEW e \in PolicyEdge
  PROVE  WrittenEdge(e).kind = "edge" /\ EdgeOf(WrittenEdge(e)) = e
BY DEF PolicyEdge, WrittenEdge, EdgeOf

(* Whatever a file says, a reader takes a node or an edge out of it. *)
Readable(e) ==
  \/ e.kind = "node" /\ e.id \in Id /\ e.tool_name \in ToolName \cup {NoName}
  \/ e.kind = "edge" /\ e.from \in Id /\ e.to \in Id /\ e.conditional \in BOOLEAN

LEMMA AnyTypeRead == ASSUME NEW s PROVE StringToNodeType(s) \in Type
<1>1. StringToNodeType(s)
        \in {"NORMAL", "SENSITIVE_SOURCE", "DATA_PROCESSOR", "EXTERNAL_DESTINATION"}
  BY Zenon DEF StringToNodeType
<1> QED
  BY <1>1, TypeAssumption

LEMMA ReadableRead ==
  ASSUME NEW e, Readable(e)
  PROVE  /\ e.kind = "node" => NodeFrom(e) \in PolicyNode
         /\ e.kind = "edge" => NodeFrom(e) \in PolicyNode /\ EdgeOf(e) \in PolicyEdge
<1>1. "NORMAL" \in Type
  BY TypeAssumption
<1> QED
  BY <1>1, AnyTypeRead, LabelAssumption DEF Readable, NodeFrom, EdgeOf, PolicyNode, PolicyEdge

-----------------------------------------------------------------------------
(* A finite set in some order, every element once *)
LEMMA OrderedSet ==
  ASSUME NEW S, IsFiniteSet(S), NEW s \in SetToSeqs(S)
  PROVE  /\ s \in Seq(S)
         /\ \A j, k \in 1..Len(s) : s[j] = s[k] => j = k
         /\ \A x \in S : \E k \in 1..Len(s) : s[k] = x
<1> DEFINE n == Cardinality(S)
<1>1. n \in Nat
  BY FS_CardinalityType
<1>2. s \in [1..n -> S] /\ \A j, k \in 1..n : j # k => s[j] # s[k]
  BY DEF SetToSeqs
<1>3. s \in Injection(1..n, S)
  BY <1>2 DEF Injection, IsInjective
<1>4. Cardinality(1..n) = n
  BY <1>1, FS_Interval
<1>5. s \in Surjection(1..n, S)
  BY <1>3, <1>4, FS_Injection
<1>6. \A x \in S : \E k \in 1..n : s[k] = x
  BY <1>5 DEF Surjection
<1> HIDE DEF n
<1>7. s \in Seq(S) /\ Len(s) = n
  BY <1>1, <1>2
<1> QED
  BY <1>2, <1>6, <1>7

(* The entries of a graph, every one once and the nodes before the edges *)
Listed(list, g) ==
  /\ Len(list) \in Nat
  /\ \A k \in 1..Len(list) : list[k] \in WrittenNodes(g) \cup WrittenEdges(g)
  /\ \A w \in WrittenNodes(g) \cup WrittenEdges(g) : \E k \in 1..Len(list) : list[k] = w
  /\ \A j, k \in 1..Len(list) : list[j] = list[k] => j = k
  /\ \A j, k \in 1..Len(list) : list[j].kind = "node" /\ list[k].kind = "edge" => j < k

LEMMA WrittenKinds ==
  ASSUME NEW g, Sound(g)
  PROVE  /\ \A w \in WrittenNodes(g) : w.kind = "node"
         /\ \A w \in WrittenEdges(g) : w.kind = "edge"
         /\ IsFiniteSet(WrittenNodes(g)) /\ IsFiniteSet(WrittenEdges(g))
<1> DEFINE write == [i \in DOMAIN g.nodes |-> WrittenNode(g.nodes[i])]
           draw == [e \in Edges(g) |-> WrittenEdge(e)]
<1>1. \A w \in WrittenNodes(g) : w.kind = "node"
  BY DEF WrittenNodes, WrittenNode
<1>2. \A w \in WrittenEdges(g) : w.kind = "edge"
  BY DEF WrittenEdges, WrittenEdge
<1>3. write \in Surjection(DOMAIN g.nodes, WrittenNodes(g))
  BY DEF Surjection, WrittenNodes
<1>4. draw \in Surjection(Edges(g), WrittenEdges(g))
  BY DEF Surjection, WrittenEdges, Edges
<1>5. IsFiniteSet(DOMAIN g.nodes) /\ IsFiniteSet(Edges(g))
  BY DEF Sound, Finite
<1> QED
  BY <1>1, <1>2, <1>3, <1>4, <1>5, FS_Surjection

LEMMA ListingsListed ==
  ASSUME NEW g, Sound(g), NEW list \in Listings(g)
  PROVE  Listed(list, g)
<1> DEFINE N == WrittenNodes(g)
           E == WrittenEdges(g)
<1>1. PICK s \in SetToSeqs(N), t \in SetToSeqs(E) : list = s \o t
  BY DEF Listings
<1>2. /\ s \in Seq(N)
      /\ \A j, k \in 1..Len(s) : s[j] = s[k] => j = k
      /\ \A x \in N : \E k \in 1..Len(s) : s[k] = x
  BY WrittenKinds, OrderedSet
<1>3. /\ t \in Seq(E)
      /\ \A j, k \in 1..Len(t) : t[j] = t[k] => j = k
      /\ \A x \in E : \E k \in 1..Len(t) : t[k] = x
  BY WrittenKinds, OrderedSet
<1>4. (\A w \in N : w.kind = "node") /\ (\A w \in E : w.kind = "edge")
  BY WrittenKinds
<1> HIDE DEF N, E
<1>5. /\ Len(s) \in Nat /\ Len(t) \in Nat /\ Len(list) = Len(s) + Len(t)
      /\ \A k \in 1..Len(s) : list[k] = s[k] /\ s[k] \in N
      /\ \A k \in Len(s) + 1..Len(list) : list[k] = t[k - Len(s)] /\ t[k - Len(s)] \in E
      /\ \A k \in 1..Len(t) : list[Len(s) + k] = t[k]
  <2>1. s \in Seq(N) /\ t \in Seq(E) /\ list = s \o t
    BY <1>1, <1>2, <1>3
  <2>2. Len(s) \in Nat /\ Len(t) \in Nat /\ Len(list) = Len(s) + Len(t)
    BY <2>1
  <2>3. \A k \in 1..Len(s) : list[k] = s[k] /\ s[k] \in N
    BY <2>1, <2>2
  <2>4. \A k \in Len(s) + 1..Len(list) : list[k] = t[k - Len(s)] /\ t[k - Len(s)] \in E
    BY <2>1, <2>2
  <2>5. ASSUME NEW k \in 1..Len(t) PROVE list[Len(s) + k] = t[k]
    <3>1. Len(s) + k \in Len(s) + 1..Len(list) /\ (Len(s) + k) - Len(s) = k
      BY <2>2
    <3> QED
      BY <2>4, <3>1
  <2> QED
    BY <2>2, <2>3, <2>4, <2>5
<1>6. \A k \in 1..Len(list) : k \in 1..Len(s) \/ k \in Len(s) + 1..Len(list)
  BY <1>5
<1>7. \A k \in 1..Len(list) :
        /\ list[k] \in N \cup E
        /\ list[k].kind = "node" <=> k <= Len(s)
        /\ list[k].kind = "edge" <=> k > Len(s)
  BY <1>4, <1>5, <1>6
<1>8. \A w \in N \cup E : \E k \in 1..Len(list) : list[k] = w
  <2>1. ASSUME NEW w \in N PROVE \E k \in 1..Len(list) : list[k] = w
    <3>1. PICK k \in 1..Len(s) : s[k] = w
      BY <1>2, <2>1
    <3>2. k \in 1..Len(list) /\ list[k] = w
      BY <1>5, <3>1
    <3> QED
      BY <3>2
  <2>2. ASSUME NEW w \in E PROVE \E k \in 1..Len(list) : list[k] = w
    <3>1. PICK k \in 1..Len(t) : t[k] = w
      BY <1>3, <2>2
    <3>2. Len(s) + k \in 1..Len(list) /\ list[Len(s) + k] = w
      BY <1>5, <3>1
    <3> QED
      BY <3>2
  <2> QED
    BY <2>1, <2>2
<1>9. ASSUME NEW j \in 1..Len(list), NEW k \in 1..Len(list), list[j] = list[k]
      PROVE  j = k
  <2>1. CASE j \in 1..Len(s)
    <3>1. k \in 1..Len(s)
      BY <1>5, <1>7, <1>9, <2>1
    <3>2. s[j] = s[k]
      BY <1>5, <1>9, <2>1, <3>1
    <3> QED
      BY <1>2, <2>1, <3>1, <3>2
  <2>2. CASE j \in Len(s) + 1..Len(list)
    <3>1. k \in Len(s) + 1..Len(list)
      BY <1>5, <1>7, <1>9, <2>2
    <3>2. t[j - Len(s)] = t[k - Len(s)]
      BY <1>5, <1>9, <2>2, <3>1
    <3>3. j - Len(s) \in 1..Len(t) /\ k - Len(s) \in 1..Len(t)
      BY <1>5, <2>2, <3>1
    <3>4. j - Len(s) = k - Len(s)
      BY <1>3, <3>2, <3>3
    <3> QED
      BY <1>5, <3>4
  <2> QED
    BY <1>6, <2>1, <2>2
<1>10. \A j, k \in 1..Len(list) : list[j].kind = "node" /\ list[k].kind = "edge" => j < k
  BY <1>5, <1>7
<1> QED
  BY <1>5, <1>7, <1>8, <1>9, <1>10 DEF Listed, N, E
-----------------------------------------------------------------------------
(* How far a file of the graph g is read: entries before `a' of the file f *)
(* made the graph b.                                                       *)
Seen(f, a, w) == \E k \in 1..a - 1 : f.entries[k] = w

Unconditional(g) == \A i \in DOMAIN g.adjacency : \A e \in g.adjacency[i] : ~e.conditional

NodesRead(g, f, a, b) ==
  /\ DOMAIN b.nodes = {i \in DOMAIN g.nodes : Seen(f, a, WrittenNode(g.nodes[i]))}
  /\ \A i \in DOMAIN b.nodes : b.nodes[i] = g.nodes[i] /\ b.adjacency[i] = {}
  /\ f.form = "dot" => \A k \in 1..a - 1 :
       f.entries[k].kind = "edge" => ~f.entries[k].conditional

EdgesRead(g, f, a, b) ==
  /\ b.nodes = g.nodes
  /\ \A i \in DOMAIN g.nodes :
       b.adjacency[i] = {e \in g.adjacency[i] : Seen(f, a, WrittenEdge(e))}
  /\ f.form = "dot" => Unconditional(g)

AllRead(g, f, b) ==
  b.nodes = g.nodes /\ b.adjacency = g.adjacency /\ (f.form = "dot" => Unconditional(g))

LEMMA SeenMore ==
  ASSUME NEW f, NEW a \in Nat \ {0}, NEW w
  PROVE  Seen(f, a + 1, w) <=> Seen(f, a, w) \/ f.entries[a] = w
<1>1. 1..(a + 1) - 1 = (1..a - 1) \cup {a}
  OBVIOUS
<1> QED
  BY <1>1 DEF Seen

(* Every entry is a node or an edge of the graph, and none was seen before. *)
LEMMA EntryOfGraph ==
  ASSUME NEW g, NEW f, Sound(g), Listed(f.entries, g), NEW a \in 1..Len(f.entries)
  PROVE  /\ f.entries[a].kind = "node" => f.entries[a] \in WrittenNodes(g)
         /\ f.entries[a].kind = "edge" => f.entries[a] \in WrittenEdges(g)
         /\ ~Seen(f, a, f.entries[a])
<1>1. Len(f.entries) \in Nat
  BY DEF Listed
<1>2. ~Seen(f, a, f.entries[a])
  BY <1>1 DEF Listed, Seen
<1>3. f.entries[a] \in WrittenNodes(g) \cup WrittenEdges(g)
  BY DEF Listed
<1> QED
  BY <1>2, <1>3, WrittenKinds

(* At the end everything was seen. *)
LEMMA AllSeen ==
  ASSUME NEW g, NEW f, Sound(g), Listed(f.entries, g), NEW a \in Nat, a > Len(f.entries)
  PROVE  /\ \A i \in DOMAIN g.nodes : Seen(f, a, WrittenNode(g.nodes[i]))
         /\ \A i \in DOMAIN g.nodes : \A e \in g.adjacency[i] : Seen(f, a, WrittenEdge(e))
<1>1. \A k \in 1..Len(f.entries) : k \in 1..a - 1
  BY DEF Listed
<1>2. DOMAIN g.adjacency = DOMAIN g.nodes
  BY DEF Sound, Typed
<1>3. \A i \in DOMAIN g.nodes : WrittenNode(g.nodes[i]) \in WrittenNodes(g)
  BY DEF WrittenNodes
<1>4. \A i \in DOMAIN g.nodes : \A e \in g.adjacency[i] : WrittenEdge(e) \in WrittenEdges(g)
  BY <1>2 DEF WrittenEdges
<1> QED
  BY <1>1, <1>3, <1>4 DEF Listed, Seen

LEMMA ReadingStarts ==
  ASSUME NEW g, NEW f PROVE NodesRead(g, f, 1, EmptyGraph)
<1>1. 1..1 - 1 = {}
  OBVIOUS
<1>2. DOMAIN EmptyGraph.nodes = {}
  BY DEF EmptyGraph
<1> QED
  BY <1>1, <1>2 DEF NodesRead, Seen

(* A node entry is a node not yet read: add_node takes it. *)
LEMMA NodeStep ==
  ASSUME NEW g, NEW f, NEW a \in 1..Len(f.entries), NEW b, NEW h,
         Sound(g), Sound(b), Listed(f.entries, g), NodesRead(g, f, a, b),
         f.entries[a].kind = "node"
  PROVE  /\ CanAddNode(b, NodeFrom(f.entries[a]))
         /\ h = WithNode(b, NodeFrom(f.entries[a])) => NodesRead(g, f, a + 1, h)
<1>0. Len(f.entries) \in Nat /\ a \in Nat \ {0}
  BY DEF Listed
<1>1. PICK i \in DOMAIN g.nodes : f.entries[a] = WrittenNode(g.nodes[i])
  <2>1. f.entries[a] \in WrittenNodes(g)
    BY EntryOfGraph
  <2> QED
    BY <2>1 DEF WrittenNodes
<1>2. g.nodes[i] \in PolicyNode /\ g.nodes[i].id = i
  BY DEF Sound, Typed
<1>3. NodeFrom(f.entries[a]) = g.nodes[i]
  BY <1>1, <1>2, NodesReadBack
<1>4. i \notin DOMAIN b.nodes
  <2>1. ~Seen(f, a, WrittenNode(g.nodes[i]))
    BY <1>1, EntryOfGraph
  <2> QED
    BY <2>1 DEF NodesRead
<1>5. CanAddNode(b, NodeFrom(f.entries[a]))
  BY <1>2, <1>3, <1>4 DEF CanAddNode, HasNode
<1>6. ASSUME h = WithNode(b, NodeFrom(f.entries[a])) PROVE NodesRead(g, f, a + 1, h)
  <2>1. /\ h.nodes = With(b.nodes, i, g.nodes[i])
        /\ h.adjacency = With(b.adjacency, i, {})
    BY <1>2, <1>3, <1>4, <1>6 DEF WithNode, Neighbors, Sound, Typed
  <2>2. DOMAIN b.adjacency = DOMAIN b.nodes
    BY DEF Sound, Typed
  <2>3. DOMAIN h.nodes = DOMAIN b.nodes \cup {i}
    BY <2>1 DEF With
  <2>4. \A j \in DOMAIN h.nodes : h.nodes[j] = g.nodes[j] /\ h.adjacency[j] = {}
    BY <2>1, <2>2 DEF With, NodesRead
  <2>5. ASSUME NEW j \in DOMAIN g.nodes
        PROVE  Seen(f, a + 1, WrittenNode(g.nodes[j]))
                 <=> Seen(f, a, WrittenNode(g.nodes[j])) \/ j = i
    <3>1. WrittenNode(g.nodes[j]) = WrittenNode(g.nodes[i]) => j = i
      BY <1>2 DEF WrittenNode, Sound, Typed
    <3> QED
      BY <1>0, <1>1, <3>1, SeenMore
  <2>6. DOMAIN h.nodes = {j \in DOMAIN g.nodes : Seen(f, a + 1, WrittenNode(g.nodes[j]))}
    BY <2>3, <2>5 DEF NodesRead
  <2>7. f.form = "dot" => \A k \in 1..(a + 1) - 1 :
          f.entries[k].kind = "edge" => ~f.entries[k].conditional
    <3>1. \A k \in 1..(a + 1) - 1 : k \in 1..a - 1 \/ k = a
      BY <1>0
    <3> QED
      BY <3>1 DEF NodesRead
  <2> QED
    BY <2>4, <2>6, <2>7 DEF NodesRead
<1> QED
  BY <1>5, <1>6

(* Edge entries come when all nodes are read: the pattern for nodes finds  *)
(* one of them again in an edge line with a label.                         *)
LEMMA LabelStep ==
  ASSUME NEW g, NEW f, NEW a \in 1..Len(f.entries), NEW b,
         Sound(g), Listed(f.entries, g), NodesRead(g, f, a, b),
         f.entries[a].kind = "edge"
  PROVE  ~CanAddNode(b, NodeFrom(f.entries[a]))
<1>. PICK i \in DOMAIN g.nodes : \E e \in g.adjacency[i] : f.entries[a] = WrittenEdge(e)
  <2>1. f.entries[a] \in WrittenEdges(g)
    BY EntryOfGraph
  <2> QED
    BY <2>1 DEF WrittenEdges, Sound, Typed
<1>1. PICK e \in g.adjacency[i] : f.entries[a] = WrittenEdge(e)
  OBVIOUS
<1>2. e.to \in DOMAIN g.nodes
  BY <1>1 DEF Sound, Typed, Joined
<1>3. WrittenNode(g.nodes[e.to]) \in WrittenNodes(g)
  BY <1>2 DEF WrittenNodes
<1>4. PICK k \in 1..Len(f.entries) : f.entries[k] = WrittenNode(g.nodes[e.to])
  BY <1>3 DEF Listed
<1>5. f.entries[k].kind = "node"
  BY <1>4 DEF WrittenNode
<1>6. k < a
  BY <1>5 DEF Listed
<1>7. e.to \in DOMAIN b.nodes
  BY <1>2, <1>4, <1>6 DEF NodesRead, Seen, Listed
<1>8. NodeFrom(f.entries[a]).id = e.to
  BY <1>1 DEF NodeFrom, WrittenEdge
<1> QED
  BY <1>7, <1>8 DEF CanAddNode, HasNode

LEMMA NodeSkipped ==
  ASSUME NEW g, NEW f, NEW a \in 1..Len(f.entries), NEW b,
         Listed(f.entries, g), NodesRead(g, f, a, b),
         f.entries[a].kind = "edge", f.form = "dot" => ~f.entries[a].conditional
  PROVE  NodesRead(g, f, a + 1, b)
<1>0. Len(f.entries) \in Nat /\ a \in Nat \ {0}
  BY DEF Listed
<1>1. \A i \in DOMAIN g.nodes : Seen(f, a + 1, WrittenNode(g.nodes[i]))
                                  <=> Seen(f, a, WrittenNode(g.nodes[i]))
  BY <1>0, SeenMore DEF WrittenNode
<1>2. \A k \in 1..(a + 1) - 1 : k \in 1..a - 1 \/ k = a
  BY <1>0
<1> QED
  BY <1>1, <1>2 DEF NodesRead

(* After the first pass the nodes are there, and no edge. *)
LEMMA NodesDone ==
  ASSUME NEW g, NEW f, NEW a \in Nat, NEW b, a > Len(f.entries),
         Sound(g), Sound(b), Listed(f.entries, g), NodesRead(g, f, a, b)
  PROVE  EdgesRead(g, f, 1, b)
<1>1. DOMAIN b.nodes = DOMAIN g.nodes
  BY AllSeen DEF NodesRead
<1>2. b.nodes = g.nodes
  BY <1>1 DEF NodesRead, Sound, Typed
<1>3. 1..1 - 1 = {}
  OBVIOUS
<1>4. \A i \in DOMAIN g.nodes :
        b.adjacency[i] = {e \in g.adjacency[i] : Seen(f, 1, WrittenEdge(e))}
  BY <1>1, <1>3 DEF NodesRead, Seen
<1>5. ASSUME f.form = "dot", NEW i \in DOMAIN g.nodes, NEW e \in g.adjacency[i]
      PROVE  ~e.conditional
  <2>1. PICK k \in 1..a - 1 : f.entries[k] = WrittenEdge(e)
    <3>1. Seen(f, a, WrittenEdge(e))
      BY AllSeen
    <3> QED
      BY <3>1 DEF Seen
  <2>2. f.entries[k].kind = "edge" /\ f.entries[k].conditional = e.conditional
    BY <2>1 DEF WrittenEdge
  <2> QED
    BY <1>5, <2>2 DEF NodesRead
<1>6. DOMAIN g.adjacency = DOMAIN g.nodes
  BY DEF Sound, Typed
<1> QED
  BY <1>2, <1>4, <1>5, <1>6 DEF EdgesRead, Unconditional

(* An edge entry is an edge between nodes that are there, and not yet read: *)
(* add_edge takes it.                                                      *)
LEMMA EdgeStep ==
  ASSUME NEW g, NEW f, NEW a \in 1..Len(f.entries), NEW b, NEW h,
         Sound(g), Sound(b), Listed(f.entries, g), EdgesRead(g, f, a, b),
         f.entries[a].kind = "edge"
  PROVE  /\ CanAddEdge(b, EdgeOf(f.entries[a]))
         /\ h = WithEdge(b, EdgeOf(f.entries[a])) => EdgesRead(g, f, a + 1, h)
<1>0. Len(f.entries) \in Nat /\ a \in Nat \ {0}
  BY DEF Listed
<1>. PICK i \in DOMAIN g.nodes : \E e \in g.adjacency[i] : f.entries[a] = WrittenEdge(e)
  <2>1. f.entries[a] \in WrittenEdges(g)
    BY EntryOfGraph
  <2> QED
    BY <2>1 DEF WrittenEdges, Sound, Typed
<1>1. PICK e \in g.adjacency[i] : f.entries[a] = WrittenEdge(e)
  OBVIOUS
<1>2. e \in PolicyEdge /\ e.from = i /\ e.to \in DOMAIN g.nodes
  BY <1>1 DEF Sound, Typed, Joined
<1>3. EdgeOf(f.entries[a]) = e
  BY <1>1, <1>2, EdgesReadBack
<1>4. b.nodes = g.nodes /\ DOMAIN b.adjacency = DOMAIN g.nodes /\ DOMAIN g.adjacency = DOMAIN g.nodes
  BY DEF EdgesRead, Sound, Typed
<1>5. ASSUME NEW d \in b.adjacency[i], d.to = e.to PROVE FALSE
  <2>1. d \in g.adjacency[i] /\ Seen(f, a, WrittenEdge(d))
    BY DEF EdgesRead
  <2>2. d = e
    BY <1>1, <1>4, <1>5, <2>1 DEF Sound, Distinct
  <2> QED
    BY <1>1, <2>1, <2>2, EntryOfGraph
<1>6. CanAddEdge(b, EdgeOf(f.entries[a]))
  BY <1>2, <1>3, <1>4, <1>5 DEF CanAddEdge, HasNode, EdgeBetween, Neighbors
<1>7. ASSUME h = WithEdge(b, EdgeOf(f.entries[a])) PROVE EdgesRead(g, f, a + 1, h)
  <2>1. h.nodes = b.nodes /\ h.adjacency = With(b.adjacency, i, b.adjacency[i] \cup {e})
    BY <1>2, <1>3, <1>4, <1>7 DEF WithEdge, Neighbors
  <2>2. ASSUME NEW j \in DOMAIN g.nodes
        PROVE  h.adjacency[j] = {d \in g.adjacency[j] : Seen(f, a + 1, WrittenEdge(d))}
    <3>1. \A d \in g.adjacency[j] : d \in PolicyEdge /\ d.from = j
      BY DEF Sound, Typed
    <3>2. ASSUME NEW d \in g.adjacency[j]
          PROVE  Seen(f, a + 1, WrittenEdge(d)) <=> Seen(f, a, WrittenEdge(d)) \/ d = e
      <4>1. WrittenEdge(d) = WrittenEdge(e) => d = e
        BY <1>2, <3>1, EdgesReadBack
      <4> QED
        BY <1>0, <1>1, <4>1, SeenMore
    <3>3. CASE j = i
      <4>1. h.adjacency[i] = b.adjacency[i] \cup {e}
        BY <1>4, <2>1 DEF With
      <4> QED
        BY <1>1, <3>2, <3>3, <4>1 DEF EdgesRead
    <3>4. CASE j # i
      <4>1. h.adjacency[j] = b.adjacency[j]
        BY <1>4, <2>1, <3>4 DEF With
      <4> QED
        BY <1>2, <3>1, <3>2, <3>4, <4>1 DEF EdgesRead
    <3> QED
      BY <3>3, <3>4
  <2> QED
    BY <1>4, <2>1, <2>2 DEF EdgesRead
<1> QED
  BY <1>6, <1>7

LEMMA EdgeSkipped ==
  ASSUME NEW g, NEW f, NEW a \in 1..Len(f.entries), NEW b,
         Listed(f.entries, g), EdgesRead(g, f, a, b), f.entries[a].kind # "edge"
  PROVE  EdgesRead(g, f, a + 1, b)
<1>0. Len(f.entries) \in Nat /\ a \in Nat \ {0}
  BY DEF Listed
<1>1. \A e : Seen(f, a + 1, WrittenEdge(e)) <=> Seen(f, a, WrittenEdge(e))
  BY <1>0, SeenMore DEF WrittenEdge
<1> QED
  BY <1>1 DEF EdgesRead

LEMMA EdgesDone ==
  ASSUME NEW g, NEW f, NEW a \in Nat, NEW b, a > Len(f.entries),
         Sound(g), Sound(b), Listed(f.entries, g), EdgesRead(g, f, a, b)
  PROVE  AllRead(g, f, b)
<1>1. \A i \in DOMAIN g.nodes : b.adjacency[i] = g.adjacency[i]
  BY AllSeen DEF EdgesRead
<1>2. b.nodes = g.nodes
  BY DEF EdgesRead
<1>3. b.adjacency = g.adjacency
  BY <1>1, <1>2 DEF Sound, Typed
<1> QED
  BY <1>2, <1>3 DEF EdgesRead, AllRead
-----------------------------------------------------------------------------
(* Every tool that a node stands for has an entry in the index: so it is   *)
(* in a graph that was only added to.                                      *)
IndexFull(g) ==
  \A i \in DOMAIN g.nodes :
    g.nodes[i].tool_name = NoName \/ g.nodes[i].tool_name \in DOMAIN g.index

LEMMA ReadingKeepsIndex ==
  ASSUME NEW b, NEW h, IndexFull(b)
  PROVE  /\ \A n : h = WithNode(b, n) => IndexFull(h)
         /\ \A e : h = WithEdge(b, e) => IndexFull(h)
BY DEF IndexFull, WithNode, WithEdge, With

(* A file as the reader needs it *)
ReadableFile(f) ==
  Len(f.entries) \in Nat /\ \A k \in 1..Len(f.entries) : Readable(f.entries[k])

(* What is true of a reader on its way through a file of the graph g: it   *)
(* read the entries it passed, and only a condition can stop it.           *)
Reading(g, f, p, a, b) ==
  Listed(f.entries, g) =>
    /\ p = "nodes" => NodesRead(g, f, a, b)
    /\ p = "edges" => EdgesRead(g, f, a, b)
    /\ p = "read" => AllRead(g, f, b)
    /\ p = "thrown" => f.form = "dot" /\ ~Unconditional(g)

FilesInv ==
  /\ Sound(graph) /\ Sound(built) /\ IndexFull(built)
  /\ pass \in {"closed", "nodes", "edges", "read", "thrown"} /\ at \in Nat \ {0}
  /\ ReadableFile(file)
  /\ Reading(graph, file, pass, at, built)

LEMMA WrittenReadable ==
  ASSUME NEW g, Sound(g), NEW f, Listed(f.entries, g)
  PROVE  ReadableFile(f)
<1>1. ASSUME NEW w \in WrittenNodes(g) PROVE Readable(w)
  BY DEF WrittenNodes, WrittenNode, Readable, Sound, Typed, PolicyNode
<1>2. ASSUME NEW w \in WrittenEdges(g) PROVE Readable(w)
  BY DEF WrittenEdges, WrittenEdge, Readable, Sound, Typed, PolicyEdge
<1> QED
  BY <1>1, <1>2 DEF Listed, ReadableFile

LEMMA GivenReadable == ASSUME NEW f \in Files PROVE ReadableFile(f)
<1>1. f.entries \in Seq(NodeEntry \cup EdgeEntry)
  BY FilesAssumption DEF File
<1>2. ASSUME NEW e \in NodeEntry \cup EdgeEntry PROVE Readable(e)
  BY DEF NodeEntry, EdgeEntry, Readable
<1> QED
  BY <1>1, <1>2 DEF ReadableFile

LEMMA WrittenListed ==
  ASSUME NEW g, Sound(g), NEW f \in ToJson(g) \cup ToDot(g) PROVE Listed(f.entries, g)
<1>1. f.entries \in Listings(g)
  BY DEF ToJson, ToDot
<1> QED
  BY <1>1, ListingsListed

-----------------------------------------------------------------------------
(* Each action of the reader keeps FilesInv. *)
LEMMA OpenKeeps ==
  ASSUME FilesInv, NEW f \in ToJson(graph) \cup ToDot(graph) \cup Files, Open(f)
  PROVE  FilesInv'
<1>1. graph' = graph /\ file' = f /\ pass' = "nodes" /\ at' = 1 /\ built' = EmptyGraph
  BY DEF Open
<1>2. ReadableFile(f)
  BY GivenReadable, WrittenReadable, WrittenListed DEF FilesInv
<1>3. Sound(EmptyGraph) /\ IndexFull(EmptyGraph)
  BY EmptyGraphSound DEF IndexFull, EmptyGraph
<1>4. Reading(graph, f, "nodes", 1, EmptyGraph)
  BY ReadingStarts DEF Reading
<1> QED
  BY <1>1, <1>2, <1>3, <1>4 DEF FilesInv

LEMMA ReadNodeKeeps ==
  ASSUME FilesInv, ReadNode
  PROVE  FilesInv'
<1> DEFINE e == file.entries[at]
<1>1. /\ graph' = graph /\ file' = file /\ pass' = pass /\ at' = at + 1
      /\ built' = WithNode(built, NodeFrom(e)) /\ CanAddNode(built, NodeFrom(e))
      /\ pass = "nodes" /\ at <= Len(file.entries) /\ IsNodeEntry(file, e)
  BY DEF ReadNode, HasEntry, entry
<1>2. at \in 1..Len(file.entries) /\ Readable(e)
  BY <1>1 DEF FilesInv, ReadableFile
<1>3. NodeFrom(e) \in PolicyNode
  BY <1>2, ReadableRead DEF Readable
<1>4. Sound(built')
  BY <1>1, <1>3, WithNodeSound DEF FilesInv
<1>5. IndexFull(built')
  BY <1>1, ReadingKeepsIndex DEF FilesInv
<1>6. ASSUME Listed(file.entries, graph) PROVE NodesRead(graph, file, at + 1, built')
  <2>1. NodesRead(graph, file, at, built)
    BY <1>1, <1>6 DEF FilesInv, Reading
  <2>2. e.kind # "edge"
    BY <1>1, <1>2, <1>6, <2>1, LabelStep DEF FilesInv
  <2>3. e.kind = "node"
    BY <1>2, <2>2 DEF Readable
  <2> QED
    BY <1>1, <1>2, <1>6, <2>1, <2>3, NodeStep DEF FilesInv
<1>7. Reading(graph, file, pass, at + 1, built')
  BY <1>1, <1>6 DEF Reading
<1> QED
  BY <1>1, <1>4, <1>5, <1>7 DEF FilesInv

LEMMA ReadEdgeKeeps ==
  ASSUME FilesInv, ReadEdge
  PROVE  FilesInv'
<1> DEFINE e == file.entries[at]
<1>1. /\ graph' = graph /\ file' = file /\ pass' = pass /\ at' = at + 1
      /\ built' = WithEdge(built, EdgeOf(e)) /\ CanAddEdge(built, EdgeOf(e))
      /\ pass = "edges" /\ at <= Len(file.entries) /\ e.kind = "edge"
  BY DEF ReadEdge, HasEntry, IsEdgeEntry, entry
<1>2. at \in 1..Len(file.entries) /\ Readable(e)
  BY <1>1 DEF FilesInv, ReadableFile
<1>3. EdgeOf(e) \in PolicyEdge
  BY <1>1, <1>2, ReadableRead
<1>4. Sound(built')
  BY <1>1, <1>3, WithEdgeSound DEF FilesInv
<1>5. IndexFull(built')
  BY <1>1, ReadingKeepsIndex DEF FilesInv
<1>6. ASSUME Listed(file.entries, graph) PROVE EdgesRead(graph, file, at + 1, built')
  <2>1. EdgesRead(graph, file, at, built)
    BY <1>1, <1>6 DEF FilesInv, Reading
  <2> QED
    BY <1>1, <1>2, <1>6, <2>1, EdgeStep DEF FilesInv
<1>7. Reading(graph, file, pass, at + 1, built')
  BY <1>1, <1>6 DEF Reading
<1> QED
  BY <1>1, <1>4, <1>5, <1>7 DEF FilesInv

LEMMA SkipEntryKeeps ==
  ASSUME FilesInv, SkipEntry
  PROVE  FilesInv'
<1> DEFINE e == file.entries[at]
<1>1. /\ graph' = graph /\ file' = file /\ pass' = pass /\ at' = at + 1 /\ built' = built
      /\ at <= Len(file.entries)
      /\ \/ pass = "nodes" /\ ~IsNodeEntry(file, e)
         \/ pass = "edges" /\ (e.kind = "edge" => file.form = "dot" /\ ~JoinsNodes)
  BY DEF SkipEntry, HasEntry, IsEdgeEntry, entry
<1>2. at \in 1..Len(file.entries) /\ Readable(e)
  BY <1>1 DEF FilesInv, ReadableFile
<1>3. ASSUME pass = "nodes", Listed(file.entries, graph)
      PROVE  NodesRead(graph, file, at + 1, built)
  <2>1. NodesRead(graph, file, at, built)
    BY <1>3 DEF FilesInv, Reading
  <2>2. e.kind = "edge" /\ (file.form = "dot" => ~e.conditional)
    BY <1>1, <1>3 DEF IsNodeEntry
  <2> QED
    BY <1>2, <1>3, <2>1, <2>2, NodeSkipped
<1>4. ASSUME pass = "edges", Listed(file.entries, graph)
      PROVE  EdgesRead(graph, file, at + 1, built)
  <2>1. EdgesRead(graph, file, at, built)
    BY <1>4 DEF FilesInv, Reading
  <2>2. e.kind # "edge"
    <3>1. SUFFICES ASSUME e.kind = "edge" PROVE FALSE
      OBVIOUS
    <3>2. CanAddEdge(built, EdgeOf(e))
      BY <1>2, <1>4, <2>1, <3>1, EdgeStep DEF FilesInv
    <3>3. JoinsNodes
      BY <3>2 DEF CanAddEdge, EdgeOf, JoinsNodes, entry
    <3> QED
      BY <1>1, <1>4, <3>1, <3>3
  <2> QED
    BY <1>2, <1>4, <2>1, <2>2, EdgeSkipped
<1>5. Reading(graph, file, pass, at + 1, built)
  BY <1>1, <1>3, <1>4 DEF Reading
<1> QED
  BY <1>1, <1>5 DEF FilesInv

LEMMA ThrowKeeps ==
  ASSUME FilesInv, Throw
  PROVE  FilesInv'
<1> DEFINE e == file.entries[at]
<1>1. /\ graph' = graph /\ file' = file /\ pass' = "thrown" /\ at' = at /\ built' = built
      /\ at <= Len(file.entries)
      /\ \/ pass = "nodes" /\ IsNodeEntry(file, e) /\ ~CanAddNode(built, NodeFrom(e))
         \/ pass = "edges" /\ e.kind = "edge" /\ ~CanAddEdge(built, EdgeOf(e))
  BY DEF Throw, HasEntry, IsEdgeEntry, entry
<1>2. at \in 1..Len(file.entries) /\ Readable(e)
  BY <1>1 DEF FilesInv, ReadableFile
<1>3. ASSUME pass = "nodes", Listed(file.entries, graph)
      PROVE  file.form = "dot" /\ ~Unconditional(graph)
  <2>1. NodesRead(graph, file, at, built)
    BY <1>3 DEF FilesInv, Reading
  <2>2. e.kind # "node"
    BY <1>1, <1>2, <1>3, <2>1, NodeStep DEF FilesInv
  <2>3. e.kind = "edge" /\ file.form = "dot" /\ e.conditional
    BY <1>1, <1>2, <1>3, <2>2 DEF IsNodeEntry, Readable
  <2>4. e \in WrittenEdges(graph)
    BY <1>2, <1>3, <2>3, EntryOfGraph DEF FilesInv
  <2>5. ~Unconditional(graph)
    BY <2>3, <2>4 DEF WrittenEdges, WrittenEdge, Unconditional
  <2> QED
    BY <2>3, <2>5
<1>4. ASSUME pass = "edges", Listed(file.entries, graph) PROVE FALSE
  <2>1. EdgesRead(graph, file, at, built)
    BY <1>4 DEF FilesInv, Reading
  <2> QED
    BY <1>1, <1>2, <1>4, <2>1, EdgeStep DEF FilesInv
<1>5. Reading(graph, file, "thrown", at, built)
  BY <1>1, <1>3, <1>4 DEF Reading
<1> QED
  BY <1>1, <1>5 DEF FilesInv

LEMMA NextPassKeeps ==
  ASSUME FilesInv, NextPass
  PROVE  FilesInv'
<1>1. /\ graph' = graph /\ file' = file /\ at' = 1 /\ built' = built
      /\ pass \in {"nodes", "edges"} /\ at > Len(file.entries)
      /\ pass' = IF pass = "nodes" THEN "edges" ELSE "read"
  BY DEF NextPass, HasEntry, FilesInv, ReadableFile
<1>2. at \in Nat
  BY DEF FilesInv
<1>3. ASSUME pass = "nodes", Listed(file.entries, graph)
      PROVE  EdgesRead(graph, file, 1, built)
  <2>1. NodesRead(graph, file, at, built)
    BY <1>3 DEF FilesInv, Reading
  <2> QED
    BY <1>1, <1>2, <1>3, <2>1, NodesDone DEF FilesInv
<1>4. ASSUME pass = "edges", Listed(file.entries, graph)
      PROVE  AllRead(graph, file, built)
  <2>1. EdgesRead(graph, file, at, built)
    BY <1>4 DEF FilesInv, Reading
  <2> QED
    BY <1>1, <1>2, <1>4, <2>1, EdgesDone DEF FilesInv
<1>5. Reading(graph, file, pass', 1, built)
  BY <1>1, <1>3, <1>4 DEF Reading
<1> QED
  BY <1>1, <1>5 DEF FilesInv

LEMMA CloseKeeps ==
  ASSUME FilesInv, Close, Sound(graph')
  PROVE  FilesInv'
<1>1. file' = NoFile /\ pass' = "closed" /\ at' = 1 /\ built' = EmptyGraph
  BY DEF Close
<1>2. Sound(EmptyGraph) /\ IndexFull(EmptyGraph)
  BY EmptyGraphSound DEF IndexFull, EmptyGraph
<1>3. ReadableFile(NoFile)
  BY DEF ReadableFile, NoFile
<1>4. Reading(graph', NoFile, "closed", 1, EmptyGraph)
  BY DEF Reading
<1> QED
  BY <1>1, <1>2, <1>3, <1>4 DEF FilesInv

LEMMA EditKeeps ==
  ASSUME FilesInv, pass = "closed", UNCHANGED fileVars, Sound(graph')
  PROVE  FilesInv'
<1>1. file' = file /\ pass' = pass /\ at' = at /\ built' = built
  BY DEF fileVars
<1>2. Reading(graph', file, pass, at, built)
  BY DEF Reading
<1> QED
  BY <1>1, <1>2 DEF FilesInv

(* Editing a graph between files is a step of GraphSpec. *)
LEMMA EditIsGraphStep == Edit => GraphNext
BY NewAssumption DEF Edit, GraphNext

(* Graphs that are edited, written, read and loaded keep the invariants,   *)
(* and a reader is always where Reading says.                              *)
THEOREM FilesInvariant == FilesSpec => []FilesInv
<1>1. FilesInit => FilesInv
  <2> SUFFICES ASSUME FilesInit PROVE FilesInv
    OBVIOUS
  <2>1. Sound(EmptyGraph) /\ IndexFull(EmptyGraph)
    BY EmptyGraphSound DEF IndexFull, EmptyGraph
  <2>2. ReadableFile(NoFile) /\ Reading(graph, NoFile, "closed", 1, EmptyGraph)
    BY DEF ReadableFile, NoFile, Reading
  <2> QED
    BY <2>1, <2>2 DEF FilesInit, GraphInit, FilesInv
<1>2. FilesInv /\ [FilesNext]_policyFilesVars => FilesInv'
  <2> SUFFICES ASSUME FilesInv, [FilesNext]_policyFilesVars PROVE FilesInv'
    OBVIOUS
  <2>1. CASE Edit
    <3>1. Sound(graph')
      BY <2>1, EditIsGraphStep, GraphStepKeeps DEF FilesInv, GraphInv
    <3> QED
      BY <2>1, <3>1, EditKeeps DEF Edit
  <2>2. CASE \E f \in ToJson(graph) \cup ToDot(graph) \cup Files : Open(f)
    BY <2>2, OpenKeeps
  <2>3. CASE ReadNode
    BY <2>3, ReadNodeKeeps
  <2>4. CASE ReadEdge
    BY <2>4, ReadEdgeKeeps
  <2>5. CASE SkipEntry
    BY <2>5, SkipEntryKeeps
  <2>6. CASE Throw
    BY <2>6, ThrowKeeps
  <2>7. CASE NextPass
    BY <2>7, NextPassKeeps
  <2>8. CASE Load
    <3>1. Sound(graph')
      BY <2>8 DEF Load, FilesInv
    <3> QED
      BY <2>8, <3>1, CloseKeeps DEF Load
  <2>9. CASE GiveUpFile
    <3>1. Sound(graph')
      BY <2>9 DEF GiveUpFile, FilesInv
    <3> QED
      BY <2>9, <3>1, CloseKeeps DEF GiveUpFile
  <2>10. CASE UNCHANGED policyFilesVars
    <3>1. graph' = graph /\ file' = file /\ pass' = pass /\ at' = at /\ built' = built
      BY <2>10 DEF policyFilesVars, fileVars
    <3> QED
      BY <3>1 DEF FilesInv
  <2> QED
    BY <2>1, <2>2, <2>3, <2>4, <2>5, <2>6, <2>7, <2>8, <2>9, <2>10 DEF FilesNext
<1> QED
  BY <1>1, <1>2, PTL DEF FilesSpec

(* Loading a file breaks no invariant of the graph (from_json, from_dot).  *)
THEOREM LoadedGraphsSound ==
  FilesSpec => [](GraphTypeOK /\ EdgesJoinNodes /\ EdgesDistinct /\ IndexSound)
<1>1. FilesInv => GraphTypeOK /\ EdgesJoinNodes /\ EdgesDistinct /\ IndexSound
  BY GraphInvParts DEF FilesInv, GraphInv
<1> QED
  BY <1>1, FilesInvariant, PTL

(* What to_json writes, from_json reads back (to_json, from_json). *)
THEOREM JsonAlwaysRoundTrips == FilesSpec => []JsonRoundTrip
<1>1. FilesInv => JsonRoundTrip
  <2> SUFFICES ASSUME FilesInv, pass \in {"read", "thrown"}, file \in ToJson(graph)
               PROVE  /\ pass = "read"
                      /\ built.nodes = graph.nodes
                      /\ built.adjacency = graph.adjacency
                      /\ \A t \in ToolName, i \in Id :
                           Stands(graph, t) = {i} => NodeByTool(built, t) = i
    BY DEF JsonRoundTrip
  <2>1. Listed(file.entries, graph)
    BY WrittenListed DEF FilesInv
  <2>2. file.form # "dot"
    BY DEF ToJson
  <2>3. pass = "read" /\ AllRead(graph, file, built)
    BY <2>1, <2>2 DEF FilesInv, Reading
  <2>4. ASSUME NEW t \in ToolName, NEW i \in Id, Stands(graph, t) = {i}
        PROVE  NodeByTool(built, t) = i
    <3>1. i \in DOMAIN built.nodes /\ built.nodes[i].tool_name = t
      BY <2>3, <2>4 DEF AllRead, Stands
    <3>2. t \in DOMAIN built.index
      BY <3>1, NoNameAssumption DEF FilesInv, IndexFull
    <3>3. built.index[t] \in Stands(built, t)
      BY <3>2 DEF FilesInv, Sound, Indexed, Stands
    <3>4. built.index[t] = i
      BY <2>3, <2>4, <3>3 DEF AllRead, Stands
    <3> QED
      BY <3>1, <3>2, <3>4 DEF NodeByTool, HasNode
  <2> QED
    BY <2>3, <2>4 DEF AllRead
<1> QED
  BY <1>1, FilesInvariant, PTL

(* What to_dot writes, from_dot reads back, or it throws for a condition   *)
(* (to_dot, from_dot).                                                     *)
THEOREM DotAlwaysRoundTrips == FilesSpec => []DotRoundTrip
<1>1. FilesInv => DotRoundTrip
  <2> SUFFICES ASSUME FilesInv, pass \in {"read", "thrown"}, file \in ToDot(graph)
               PROVE  IF ~Unconditional(graph)
                      THEN pass = "thrown"
                      ELSE /\ pass = "read" /\ built.nodes = graph.nodes
                           /\ built.adjacency = graph.adjacency
    BY DEF DotRoundTrip, Unconditional
  <2>1. Listed(file.entries, graph)
    BY WrittenListed DEF FilesInv
  <2>2. file.form = "dot"
    BY DEF ToDot
  <2> QED
    BY <2>1, <2>2 DEF FilesInv, Reading, AllRead
<1> QED
  BY <1>1, FilesInvariant, PTL

(* A loaded graph is indexed in full, so loading one loses no tool: with   *)
(* files too, a tool is lost only when a node of it is removed (from_json, *)
(* from_dot, add_node, remove_node).                                       *)
THEOREM LoadedIndexKeepsUp == FilesSpec => IndexKeepsUp
<1>1. ASSUME FilesInv, [FilesNext]_policyFilesVars, NEW t \in ToolName
      PROVE  graph' = graph \/ KeepsUp(t)
  <2>1. CASE Edit
    BY <1>1, <2>1, EditIsGraphStep, GraphStepKeepsUp DEF FilesInv, GraphInv
  <2>2. CASE Load
    <3>1. graph' = built /\ Sound(built) /\ IndexFull(built)
      BY <1>1, <2>2 DEF Load, FilesInv
    <3>2. Stands(built, t) # {} => t \in DOMAIN built.index
      BY <3>1, NoNameAssumption DEF Stands, IndexFull
    <3> QED
      BY <3>1, <3>2, LookupFails DEF KeepsUp
  <2>3. CASE UNCHANGED graph
    BY <2>3
  <2> QED
    BY <1>1, <2>1, <2>2, <2>3
       DEF FilesNext, Open, ReadNode, ReadEdge, SkipEntry, Throw, NextPass, GiveUpFile, policyFilesVars
<1>2. FilesInv /\ [FilesNext]_policyFilesVars =>
        [\A t \in ToolName :
           Stands(graph', t) # {} /\ NodeByTool(graph', t) = NoName =>
             \/ Stands(graph, t) # {} /\ NodeByTool(graph, t) = NoName
             \/ ~(Stands(graph, t) \subseteq Stands(graph', t))]_graph
  BY <1>1 DEF KeepsUp
<1> QED
  BY <1>2, FilesInvariant, PTL DEF FilesSpec, IndexKeepsUp
=============================================================================
