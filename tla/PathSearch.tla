----------------------------- MODULE PathSearch ------------------------------
(***************************************************************************)
(* PolicyGraph::find_path (src/src/policy_graph.cpp): the shortest path    *)
(* between two nodes, by a search in breadth.  A graph is built, and then  *)
(* searched one edge at a time; the path is put together from its end, one *)
(* node at a time.                                                         *)
(*                                                                         *)
(* The edges of a node are looked at in any order: it is the order they    *)
(* were added in, which is any.                                            *)
(***************************************************************************)
EXTENDS Naturals, Sequences, FiniteSets

CONSTANTS
  Pair,         \* pairs of nodes there may be an edge between
  Ends,         \* pairs of nodes a path is looked for between
  NoNode,       \* the empty id: the parent of the node the search starts at
  MaxEdges      \* bound: the edges of a graph that is searched

(* The nodes of the graph that is searched *)
Vertex == UNION {{p[1], p[2]} : p \in Pair}

ASSUME PairAssumption ==
  /\ IsFiniteSet(Vertex) /\ Pair \subseteq Vertex \X Vertex
  /\ Ends \subseteq Vertex \X Vertex
  /\ NoNode \notin Vertex

VARIABLES
  edges,        \* the graph
  phase,        \* "building" it, "searching", "tracing" the path back, and
                \* what find_path returns then: "path" or "none"
  ends,         \* from_id and to_id
  queue,        \* the nodes that were reached, in this order
  front,        \* how many of them were looked at: the last one is current
  near,         \* the edges of current that are still to be looked at
  parent,       \* visited node -> the node it was reached from
  node,         \* the next node of the path
  path          \* the path from the node after that on

searchVars == <<ends, queue, front, near, parent>>
pathVars == <<edges, phase, searchVars, node, path>>

from == ends[1]
to == ends[2]
current == queue[front]

-----------------------------------------------------------------------------
SearchInit ==
  /\ edges = {} /\ phase = "building"
  /\ ends = <<NoNode, NoNode>> /\ queue = <<>> /\ front = 0 /\ near = {}
  /\ parent = [n \in {} |-> NoNode]
  /\ node = NoNode /\ path = <<>>

(* add_edge.  A pair of nodes is joined once (PolicyGraph). *)
JoinNodes(p) ==
  /\ phase = "building" /\ p \notin edges /\ Cardinality(edges) < MaxEdges
  /\ edges' = edges \cup {p}
  /\ UNCHANGED <<phase, searchVars, node, path>>

(* The search starts among nodes of the graph. *)
FindPath(pair) ==
  /\ phase = "building"
  /\ ends' = pair
  /\ IF pair[1] = pair[2]
     THEN phase' = "path" /\ path' = <<pair[1]>> /\ UNCHANGED <<queue, parent>>
     ELSE phase' = "searching" /\ queue' = <<pair[1]>>
          /\ parent' = [n \in {pair[1]} |-> NoNode] /\ UNCHANGED path
  /\ UNCHANGED <<edges, front, near, node>>

(* The loop over the queue: the next node and its edges *)
LookAtNext ==
  /\ phase = "searching" /\ near = {} /\ front < Len(queue)
  /\ front' = front + 1
  /\ near' = {e \in edges : e[1] = queue[front + 1]}
  /\ UNCHANGED <<edges, phase, ends, queue, parent, node, path>>

GiveUp ==
  /\ phase = "searching" /\ near = {} /\ front = Len(queue)
  /\ phase' = "none"
  /\ UNCHANGED <<edges, searchVars, node, path>>

(* SEEDED FAULT for Enqueued: the node found last is looked at first. *)
EnqueuedNext(n) == SubSeq(queue, 1, front) \o <<n>> \o SubSeq(queue, front + 1, Len(queue))

Enqueued(n) == Append(queue, n)

(* One edge of the node that is looked at: a node that was not visited     *)
(* gets its parent and waits in the queue, unless it is the one looked for.*)
LookAtEdge(e) ==
  /\ phase = "searching" /\ e \in near
  /\ near' = near \ {e}
  /\ IF e[2] \in DOMAIN parent THEN UNCHANGED <<phase, queue, parent, node>>
     ELSE /\ parent' = [n \in DOMAIN parent \cup {e[2]} |->
                          IF n = e[2] THEN current ELSE parent[n]]
          /\ IF e[2] = to THEN phase' = "tracing" /\ node' = to /\ UNCHANGED queue
             ELSE queue' = Enqueued(e[2]) /\ UNCHANGED <<phase, node>>
  /\ UNCHANGED <<edges, ends, front, path>>

(* The code appends and reverses the path when it is whole. *)
TraceBack ==
  /\ phase = "tracing"
  /\ IF node # NoNode
     THEN path' = <<node>> \o path /\ node' = parent[node] /\ UNCHANGED phase
     ELSE phase' = "path" /\ UNCHANGED <<node, path>>
  /\ UNCHANGED <<edges, searchVars>>

SearchNext ==
  \/ \E p \in Pair : JoinNodes(p)
  \/ \E pair \in Ends : FindPath(pair)
  \/ LookAtNext \/ GiveUp \/ TraceBack
  \/ \E e \in near : LookAtEdge(e)

SearchSpec == SearchInit /\ [][SearchNext]_pathVars

-----------------------------------------------------------------------------
(* The ways of n nodes from one end to the other, along edges *)
Ways(n) ==
  {w \in [1 .. n -> Vertex] :
     w[1] = from /\ w[n] = to /\ \A k \in 1 .. n - 1 : <<w[k], w[k + 1]>> \in edges}

(* A path that find_path returns goes along edges from one end to the      *)
(* other and no path is shorter, in whatever order the edges were added;   *)
(* it returns none only when there is none, which is_reachable relies on.  *)
ShortestPath ==
  /\ phase = "path" =>
       path \in Ways(Len(path)) /\ \A n \in 1 .. Len(path) - 1 : Ways(n) = {}
  /\ phase = "none" => \A n \in 1 .. Cardinality(Vertex) : Ways(n) = {}
=============================================================================
