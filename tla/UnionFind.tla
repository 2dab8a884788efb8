------------------------------- MODULE UnionFind -------------------------------
(***************************************************************************)
(* Connected components in spark/identity_resolution/graph_logic.py, the   *)
(* reference implementation of identity resolution: _UnionFind, and the    *)
(* two loops of assign_resolution that merge every edge and then look up   *)
(* every node.  Each iteration of a loop of find is a step.  Nodes are     *)
(* numbers, in the order of their names.                                   *)
(***************************************************************************)
EXTENDS Integers, Components

CONSTANTS
  Node,  \* node_list
  Pair   \* the edges there may be

ASSUME NodeAssumption == Node \subseteq Nat
ASSUME PairAssumption == Pair \subseteq Node \X Node

VARIABLES
  edges,   \* edges iterated over so far
  unread,  \* nodes the second loop has still to look up
  parent,  \* _parent
  loop,    \* the loop running: edges, nodes, or climb and compress in find
  use,     \* who called find: union for its first or second node, or member
  edge,    \* union's arguments
  arg,     \* find's argument
  node,    \* find's node, moved along the path by the second loop
  root,    \* find's root
  ra,      \* union's ra
  member,  \* member[n]: the root whose list in members_by_root has n
  rep      \* history: the root of every node

findVars == <<loop, use, edge, arg, node, root, ra>>
forestVars == <<edges, unread, parent, findVars, member, rep>>

Identity == [n \in Node |-> n]

ForestTypeOK ==
  /\ edges \subseteq Pair /\ unread \subseteq Node
  /\ parent \in [Node -> Node] /\ member \in [Node -> Node] /\ rep \in [Node -> Node]
  /\ loop \in {"edges", "nodes", "climb", "compress"}
  /\ use \in {"first", "second", "member"}
  /\ loop \in {"climb", "compress"} => arg \in Node /\ root \in Node
  /\ loop \in {"climb", "compress"} /\ use # "member" => edge \in edges
  /\ loop \in {"climb", "compress"} /\ use = "second" => ra \in Node
  /\ loop = "compress" => node \in Node

ForestInit ==
  /\ edges = {} /\ unread = Node
  /\ parent = Identity /\ member = Identity /\ rep = Identity
  /\ loop = "edges" /\ use = "first" /\ edge = <<>>
  /\ arg = 0 /\ node = 0 /\ root = 0 /\ ra = 0

-------------------------------------------------------------------------------
(* assign_resolution's loops                                               *)

(* uf.union(edge.src, edge.dst) calls find on the first of them.           *)
PickEdge(e) ==
  /\ loop = "edges" /\ e \notin edges
  /\ edges' = edges \cup {e}
  /\ loop' = "climb" /\ use' = "first" /\ edge' = e /\ arg' = e[1] /\ root' = e[1]
  /\ UNCHANGED <<unread, parent, node, ra, member, rep>>

(* edges is any iterable: it may end wherever it likes.                    *)
EdgesDone ==
  /\ loop = "edges"
  /\ loop' = "nodes"
  /\ UNCHANGED <<edges, unread, parent, use, edge, arg, node, root, ra, member, rep>>

(* for node in node_list, which is sorted: uf.find(node)                   *)
PickNode(n) ==
  /\ loop = "nodes" /\ \A m \in unread : n <= m
  /\ unread' = unread \ {n}
  /\ loop' = "climb" /\ use' = "member" /\ arg' = n /\ root' = n
  /\ UNCHANGED <<edges, parent, edge, node, ra, member, rep>>

-------------------------------------------------------------------------------
(* find                                                                    *)

Climb ==
  /\ loop = "climb" /\ parent[root] # root
  /\ root' = parent[root]
  /\ UNCHANGED <<edges, unread, parent, loop, use, edge, arg, node, ra, member, rep>>

Climbed ==
  /\ loop = "climb" /\ parent[root] = root
  /\ loop' = "compress" /\ node' = arg
  /\ UNCHANGED <<edges, unread, parent, use, edge, arg, root, ra, member, rep>>

(* Mutant: node and root swapped in the assignment. *)
CompressSwapped ==
  /\ loop = "compress" /\ parent[node] # root
  /\ parent' = [parent EXCEPT ![root] = node]
  /\ node' = parent[node]
  /\ UNCHANGED <<edges, unread, loop, use, edge, arg, root, ra, member, rep>>

(* self._parent[node], node = root, self._parent[node] *)
Compress ==
  /\ loop = "compress" /\ parent[node] # root
  /\ parent' = [parent EXCEPT ![node] = root]
  /\ node' = parent[node]
  /\ UNCHANGED <<edges, unread, loop, use, edge, arg, root, ra, member, rep>>

Found(caller) == loop = "compress" /\ parent[node] = root /\ use = caller

(* union's ra is found: find its second node.                              *)
FirstFound ==
  /\ Found("first")
  /\ ra' = root
  /\ loop' = "climb" /\ use' = "second" /\ arg' = edge[2] /\ root' = edge[2]
  /\ UNCHANGED <<edges, unread, parent, edge, node, member, rep>>

Larger(a, b)  == IF a < b THEN b ELSE a
Smaller(a, b) == IF a < b THEN a ELSE b

(* Mutant: the nodes of the edge are linked, not their roots. *)
UnionUnrooted ==
  /\ Found("second")
  /\ parent' = [parent EXCEPT ![Larger(edge[1], edge[2])] = Smaller(edge[1], edge[2])]
  /\ rep' = [n \in Node |-> IF rep[n] = Larger(ra, root) THEN Smaller(ra, root) ELSE rep[n]]
  /\ loop' = "edges"
  /\ UNCHANGED <<edges, unread, use, edge, arg, node, root, ra, member>>

(* The larger root is linked to the smaller one; the same root to itself.  *)
Union ==
  /\ Found("second")
  /\ parent' = [parent EXCEPT ![Larger(ra, root)] = Smaller(ra, root)]
  /\ rep' = [n \in Node |-> IF rep[n] = Larger(ra, root) THEN Smaller(ra, root) ELSE rep[n]]
  /\ loop' = "edges"
  /\ UNCHANGED <<edges, unread, use, edge, arg, node, root, ra, member>>

(* members_by_root.setdefault(uf.find(node), []).append(node)              *)
MemberFound ==
  /\ Found("member")
  /\ member' = [member EXCEPT ![arg] = root]
  /\ loop' = "nodes"
  /\ UNCHANGED <<edges, unread, parent, use, edge, arg, node, root, ra, rep>>

Finished == loop = "nodes" /\ unread = {}

ForestNext ==
  \/ \E e \in Pair : PickEdge(e)
  \/ EdgesDone
  \/ \E n \in unread : PickNode(n)
  \/ Climb \/ Climbed \/ Compress
  \/ FirstFound \/ Union \/ MemberFound

ForestSpec == ForestInit /\ [][ForestNext]_forestVars

(* A sequential program takes its next step. *)
FairForestSpec == ForestSpec /\ WF_forestVars(ForestNext)

-------------------------------------------------------------------------------
(* Properties                                                              *)

(* The lists of members_by_root are exactly the connected components,      *)
(* whatever the order of the edges and however paths were compressed.      *)
ClassesAreComponents ==
  Finished =>
    \A m, n \in Node : member[m] = member[n] <=> Connected(Node, edges, m, n)

(* Both loops of find come to an end, on the forest every earlier call     *)
(* left behind.                                                            *)
AssignmentEnds == <>Finished
===============================================================================
