----------------------------- MODULE IdentityProofs -----------------------------
(***************************************************************************)
(* Identity resolution and the customer marts made from it.                *)
(*                                                                         *)
(* UnionFind: the lists of members_by_root are the connected components,   *)
(* for every graph and every order of its edges.  The argument follows     *)
(* rep, the root every node has: path compression never changes it, a      *)
(* union merges two roots whose nodes the edge connects, and find returns  *)
(* it.                                                                     *)
(*                                                                         *)
(* CustomerMarts: what the published marts promise for any number of       *)
(* devices, customers, events and runs: identifiers lead to customers that *)
(* are there, the latest opt-out is what a customer's key says, and keys   *)
(* only move to identifiers of higher priority.                            *)
(***************************************************************************)
EXTENDS UnionFind, CustomerMarts, WellFoundedInduction, TLAPS

-------------------------------------------------------------------------------
(* UnionFind                                                               *)

InFind == loop \in {"climb", "compress"}

(* rep is the root of the parent forest, whose links go to smaller nodes.  *)
ForestInv ==
  \A n \in Node :
    /\ parent[n] <= n /\ rep[n] <= n
    /\ rep[parent[n]] = rep[n]
    /\ parent[n] = n => rep[n] = n
    /\ parent[rep[n]] = rep[n]

(* What find and union hold in their local variables.                      *)
FindInv ==
  /\ InFind => rep[root] = rep[arg]
  /\ loop = "compress" => parent[root] = root /\ rep[node] = root
  /\ InFind /\ use = "first" => arg = edge[1]
  /\ InFind /\ use = "second" => arg = edge[2] /\ parent[ra] = ra /\ ra = rep[edge[1]]

(* The edges whose union has returned.                                     *)
Merged == edges \ (IF InFind /\ use # "member" THEN {edge} ELSE {})

EdgesInv == \A e \in Merged : rep[e[1]] = rep[e[2]]

(* A node and its root are never told apart by a set no edge crosses.      *)
ClosedInv ==
  \A S \in SUBSET Node :
    (\A e \in edges : e[1] \in S <=> e[2] \in S)
      => \A n \in Node : n \in S <=> rep[n] \in S

(* Nodes looked up are in the list of their root.                          *)
MemberInv ==
  /\ loop = "edges" \/ (InFind /\ use # "member") => unread = Node
  /\ \A n \in Node \ unread :
       member[n] = rep[n] \/ (InFind /\ use = "member" /\ n = arg)

ForestIInv == ForestTypeOK /\ ForestInv /\ FindInv /\ EdgesInv /\ ClosedInv /\ MemberInv

-------------------------------------------------------------------------------

LEMMA ForestInitInv == ForestInit => ForestIInv
<1> SUFFICES ASSUME ForestInit PROVE ForestIInv
  OBVIOUS
<1> USE DEF ForestInit, Identity, InFind
<1>1. ForestTypeOK
  BY NodeAssumption, PairAssumption DEF ForestTypeOK
<1>2. ForestInv
  BY NodeAssumption DEF ForestInv
<1>3. FindInv
  BY DEF FindInv
<1>4. EdgesInv /\ ClosedInv
  BY DEF EdgesInv, Merged, ClosedInv
<1>5. MemberInv
  BY DEF MemberInv
<1> QED
  BY <1>1, <1>2, <1>3, <1>4, <1>5 DEF ForestIInv

(* Steps that leave parent and rep alone keep the forest.                  *)
LEMMA SameForest ==
  ASSUME ForestInv, UNCHANGED <<parent, rep>>
  PROVE  ForestInv'
BY DEF ForestInv

LEMMA SameClosed ==
  ASSUME ClosedInv, UNCHANGED rep, edges \subseteq edges'
  PROVE  ClosedInv'
BY DEF ClosedInv

LEMMA PickEdgeInv ==
  ASSUME ForestIInv, NEW e \in Pair, PickEdge(e)
  PROVE  ForestIInv'
<1> USE DEF ForestIInv, PickEdge, InFind
<1>0. e \in Node \X Node
  BY PairAssumption
<1>1. ForestTypeOK'
  BY <1>0 DEF ForestTypeOK
<1>2. ForestInv' /\ ClosedInv'
  BY SameForest, SameClosed
<1>3. FindInv'
  BY DEF FindInv
<1>4. EdgesInv'
  BY DEF EdgesInv, Merged
<1>5. MemberInv'
  BY DEF MemberInv
<1> QED
  BY <1>1, <1>2, <1>3, <1>4, <1>5

LEMMA EdgesDoneInv == ForestIInv /\ EdgesDone => ForestIInv'
<1> SUFFICES ASSUME ForestIInv, EdgesDone PROVE ForestIInv'
  OBVIOUS
<1> USE DEF ForestIInv, EdgesDone, InFind
<1>1. ForestTypeOK'
  BY DEF ForestTypeOK
<1>2. ForestInv' /\ ClosedInv'
  BY SameForest, SameClosed
<1>3. FindInv'
  BY DEF FindInv
<1>4. EdgesInv'
  BY DEF EdgesInv, Merged
<1>5. MemberInv'
  BY DEF MemberInv
<1> QED
  BY <1>1, <1>2, <1>3, <1>4, <1>5

LEMMA PickNodeInv ==
  ASSUME ForestIInv, NEW n \in unread, PickNode(n)
  PROVE  ForestIInv'
<1> USE DEF ForestIInv, PickNode, InFind
<1>1. ForestTypeOK'
  BY DEF ForestTypeOK
<1>2. ForestInv' /\ ClosedInv'
  BY SameForest, SameClosed
<1>3. FindInv'
  BY DEF FindInv
<1>4. EdgesInv'
  BY DEF EdgesInv, Merged
<1>5. MemberInv'
  BY DEF MemberInv, ForestTypeOK
<1> QED
  BY <1>1, <1>2, <1>3, <1>4, <1>5

LEMMA ClimbInv == ForestIInv /\ Climb => ForestIInv'
<1> SUFFICES ASSUME ForestIInv, Climb PROVE ForestIInv'
  OBVIOUS
<1> USE DEF ForestIInv, Climb, InFind
<1>1. ForestTypeOK'
  BY DEF ForestTypeOK
<1>2. ForestInv' /\ ClosedInv'
  BY SameForest, SameClosed
<1>3. FindInv'
  BY DEF FindInv, ForestInv, ForestTypeOK
<1>4. EdgesInv'
  BY DEF EdgesInv, Merged
<1>5. MemberInv'
  BY DEF MemberInv
<1> QED
  BY <1>1, <1>2, <1>3, <1>4, <1>5

LEMMA ClimbedInv == ForestIInv /\ Climbed => ForestIInv'
<1> SUFFICES ASSUME ForestIInv, Climbed PROVE ForestIInv'
  OBVIOUS
<1> USE DEF ForestIInv, Climbed, InFind
<1>1. ForestTypeOK'
  BY DEF ForestTypeOK
<1>2. ForestInv' /\ ClosedInv'
  BY SameForest, SameClosed
<1>3. FindInv'
  BY DEF FindInv, ForestInv, ForestTypeOK
<1>4. EdgesInv'
  BY DEF EdgesInv, Merged
<1>5. MemberInv'
  BY DEF MemberInv
<1> QED
  BY <1>1, <1>2, <1>3, <1>4, <1>5

(* A compressed node is linked to the root it has; roots keep theirs.      *)
LEMMA CompressInv == ForestIInv /\ Compress => ForestIInv'
<1> SUFFICES ASSUME ForestIInv, Compress PROVE ForestIInv'
  OBVIOUS
<1> USE DEF ForestIInv, Compress, InFind
<1>0. /\ node \in Node /\ root \in Node /\ parent \in [Node -> Node] /\ rep \in [Node -> Node]
      /\ parent[root] = root /\ rep[root] = root /\ rep[node] = root
  BY DEF ForestTypeOK, FindInv, ForestInv
<1>1. ForestTypeOK'
  BY <1>0 DEF ForestTypeOK
<1>2. parent[node] # node
  BY <1>0 DEF ForestInv
<1>3. ForestInv'
  <2> SUFFICES ASSUME NEW n \in Node
               PROVE  /\ parent'[n] <= n /\ rep[n] <= n
                      /\ rep[parent'[n]] = rep[n]
                      /\ parent'[n] = n => rep[n] = n
                      /\ parent'[rep[n]] = rep[n]
    BY DEF ForestInv
  <2>1. rep[n] # node
    BY <1>0, <1>2 DEF ForestInv
  <2>2. CASE n = node
    BY <1>0, <2>1, <2>2, NodeAssumption DEF ForestInv
  <2>3. CASE n # node
    BY <1>0, <2>1, <2>3 DEF ForestInv
  <2> QED
    BY <2>2, <2>3
<1>4. ClosedInv'
  BY SameClosed
<1>5. FindInv'
  <2>1. rep'[root'] = rep'[arg'] /\ parent'[root'] = root' /\ rep'[node'] = root'
    BY <1>0, <1>2 DEF FindInv, ForestInv
  <2>2. use = "second" => parent'[ra] = ra
    <3> SUFFICES ASSUME use = "second" PROVE parent'[ra] = ra
      OBVIOUS
    <3>1. ra \in Node /\ parent[ra] = ra
      BY DEF ForestTypeOK, FindInv
    <3> QED
      BY <1>0, <1>2, <3>1
  <2> QED
    BY <2>1, <2>2 DEF FindInv
<1>6. EdgesInv'
  BY DEF EdgesInv, Merged
<1>7. MemberInv'
  BY DEF MemberInv
<1> QED
  BY <1>1, <1>3, <1>4, <1>5, <1>6, <1>7

LEMMA FirstFoundInv == ForestIInv /\ FirstFound => ForestIInv'
<1> SUFFICES ASSUME ForestIInv, FirstFound PROVE ForestIInv'
  OBVIOUS
<1> USE DEF ForestIInv, FirstFound, Found, InFind
<1>0. edge \in Node \X Node
  BY PairAssumption DEF ForestTypeOK
<1>1. ForestTypeOK'
  BY <1>0 DEF ForestTypeOK
<1>2. ForestInv' /\ ClosedInv'
  BY SameForest, SameClosed
<1>3. root \in Node /\ rep[root] = root /\ rep[root] = rep[edge[1]]
  BY DEF ForestTypeOK, FindInv, ForestInv
<1>4. FindInv'
  BY <1>3 DEF FindInv
<1>5. EdgesInv'
  BY DEF EdgesInv, Merged
<1>6. MemberInv'
  BY DEF MemberInv
<1> QED
  BY <1>1, <1>2, <1>4, <1>5, <1>6

(* Two roots become one, and the edge just merged connects their nodes.    *)
LEMMA UnionInv == ForestIInv /\ Union => ForestIInv'
<1> SUFFICES ASSUME ForestIInv, Union PROVE ForestIInv'
  OBVIOUS
<1> USE DEF ForestIInv, Union, Found, InFind
<1> DEFINE big == Larger(ra, root)
           small == Smaller(ra, root)
<1>0. /\ edge \in Node \X Node /\ edge \in edges
      /\ ra \in Node /\ root \in Node
      /\ parent \in [Node -> Node] /\ rep \in [Node -> Node]
  BY PairAssumption DEF ForestTypeOK
<1>1. /\ parent[ra] = ra /\ rep[ra] = ra /\ ra = rep[edge[1]]
      /\ parent[root] = root /\ rep[root] = root /\ root = rep[edge[2]]
  BY <1>0 DEF FindInv, ForestInv
<1>2. /\ big \in Node /\ small \in Node /\ small <= big
      /\ parent[big] = big /\ rep[big] = big
      /\ parent[small] = small /\ rep[small] = small
      /\ {big, small} = {ra, root}
  BY <1>0, <1>1, NodeAssumption DEF Larger, Smaller
<1>3. /\ parent' = [parent EXCEPT ![big] = small]
      /\ rep' = [n \in Node |-> IF rep[n] = big THEN small ELSE rep[n]]
  OBVIOUS
<1> HIDE DEF big, small
<1>4. ForestTypeOK'
  <2>1. parent' \in [Node -> Node] /\ rep' \in [Node -> Node]
    BY <1>0, <1>2, <1>3
  <2> QED
    BY <2>1 DEF ForestTypeOK
<1>5. ForestInv'
  <2> SUFFICES ASSUME NEW n \in Node
               PROVE  /\ parent'[n] <= n /\ rep'[n] <= n
                      /\ rep'[parent'[n]] = rep'[n]
                      /\ parent'[n] = n => rep'[n] = n
                      /\ parent'[rep'[n]] = rep'[n]
    BY DEF ForestInv
  <2>1. /\ n \in Nat /\ parent[n] \in Node /\ rep[n] \in Node /\ parent[n] <= n /\ rep[n] <= n
        /\ rep[parent[n]] = rep[n] /\ parent[rep[n]] = rep[n]
        /\ parent[n] = n => rep[n] = n
        /\ big \in Nat /\ small \in Nat
    BY <1>0, <1>2, NodeAssumption DEF ForestInv
  <2>2. CASE rep[n] = big
    <3>1. rep'[n] = small /\ parent'[small] = small /\ rep'[small] = small
      BY <1>0, <1>2, <1>3, <2>2
    <3>2. CASE n = big
      BY <1>0, <1>2, <1>3, <2>1, <2>2, <3>1, <3>2
    <3>3. CASE n # big
      <4>1. parent'[n] = parent[n] /\ rep'[parent[n]] = small
        BY <1>0, <1>2, <1>3, <2>1, <2>2, <3>3
      <4> QED
        BY <1>2, <2>1, <2>2, <3>1, <3>3, <4>1
    <3> QED
      BY <3>2, <3>3
  <2>3. CASE rep[n] # big
    <3>1. n # big /\ rep'[n] = rep[n] /\ parent'[n] = parent[n] /\ parent'[rep[n]] = rep[n]
      BY <1>0, <1>2, <1>3, <2>1, <2>3
    <3>2. rep'[parent[n]] = rep[n]
      BY <1>3, <2>1, <2>3
    <3> QED
      BY <2>1, <3>1, <3>2
  <2> QED
    BY <2>2, <2>3
<1>6. FindInv'
  BY DEF FindInv
<1>7. EdgesInv'
  <2>1. rep'[edge[1]] = rep'[edge[2]]
    <3>1. edge[1] \in Node /\ edge[2] \in Node
      BY <1>0
    <3>2. rep[edge[1]] \in {big, small} /\ rep[edge[2]] \in {big, small}
      BY <1>1, <1>2
    <3>3. \A n \in Node : rep[n] \in {big, small} => rep'[n] = small
      BY <1>3
    <3> QED
      BY <3>1, <3>2, <3>3
  <2>2. ASSUME NEW e \in edges, e # edge
        PROVE  rep'[e[1]] = rep'[e[2]]
    <3>1. e \in Node \X Node /\ rep[e[1]] = rep[e[2]]
      BY <2>2, PairAssumption DEF ForestTypeOK, EdgesInv, Merged
    <3> QED
      BY <1>3, <3>1
  <2> QED
    BY <2>1, <2>2 DEF EdgesInv, Merged
<1>8. ClosedInv'
  <2> SUFFICES ASSUME NEW S \in SUBSET Node,
                      \A e \in edges : e[1] \in S <=> e[2] \in S,
                      NEW n \in Node
               PROVE  n \in S <=> rep'[n] \in S
    BY DEF ClosedInv
  <2>1. \A k \in Node : k \in S <=> rep[k] \in S
    BY DEF ClosedInv
  <2>2. ra \in S <=> root \in S
    BY <1>0, <1>1, <2>1
  <2>3. big \in S <=> small \in S
    BY <1>2, <2>2
  <2> QED
    BY <1>3, <2>1, <2>3
<1>9. MemberInv'
  BY DEF MemberInv
<1> QED
  BY <1>4, <1>5, <1>6, <1>7, <1>8, <1>9

LEMMA MemberFoundInv == ForestIInv /\ MemberFound => ForestIInv'
<1> SUFFICES ASSUME ForestIInv, MemberFound PROVE ForestIInv'
  OBVIOUS
<1> USE DEF ForestIInv, MemberFound, Found, InFind
<1>1. ForestTypeOK'
  BY DEF ForestTypeOK
<1>2. ForestInv' /\ ClosedInv'
  BY SameForest, SameClosed
<1>3. root = rep[arg]
  BY DEF ForestTypeOK, FindInv, ForestInv
<1>4. FindInv'
  BY DEF FindInv
<1>5. EdgesInv'
  BY DEF EdgesInv, Merged
<1>6. MemberInv'
  BY <1>3 DEF MemberInv, ForestTypeOK
<1> QED
  BY <1>1, <1>2, <1>4, <1>5, <1>6

LEMMA ForestInvInductive == ForestIInv /\ [ForestNext]_forestVars => ForestIInv'
<1> SUFFICES ASSUME ForestIInv, [ForestNext]_forestVars PROVE ForestIInv'
  OBVIOUS
<1>1. ASSUME NEW e \in Pair, PickEdge(e) PROVE ForestIInv'
  BY <1>1, PickEdgeInv
<1>2. CASE EdgesDone
  BY <1>2, EdgesDoneInv
<1>3. ASSUME NEW n \in unread, PickNode(n) PROVE ForestIInv'
  BY <1>3, PickNodeInv
<1>4. CASE Climb
  BY <1>4, ClimbInv
<1>5. CASE Climbed
  BY <1>5, ClimbedInv
<1>6. CASE Compress
  BY <1>6, CompressInv
<1>7. CASE FirstFound
  BY <1>7, FirstFoundInv
<1>8. CASE Union
  BY <1>8, UnionInv
<1>9. CASE MemberFound
  BY <1>9, MemberFoundInv
<1>10. CASE UNCHANGED forestVars
  BY <1>10 DEF forestVars, findVars, ForestIInv, ForestTypeOK, ForestInv, FindInv, EdgesInv, Merged,
               ClosedInv, MemberInv, InFind
<1> QED
  BY <1>1, <1>2, <1>3, <1>4, <1>5, <1>6, <1>7, <1>8, <1>9, <1>10 DEF ForestNext

(* The forest, the locals of find and the lists keep their types.          *)
THEOREM ForestTypeCorrect == ForestSpec => []ForestTypeOK
<1>1. ForestIInv => ForestTypeOK
  BY DEF ForestIInv
<1> QED
  BY ForestInitInv, ForestInvInductive, <1>1, PTL DEF ForestSpec

LEMMA ComponentsWhenFinished == ForestIInv => ClassesAreComponents
<1> SUFFICES ASSUME ForestIInv, Finished, NEW m \in Node, NEW n \in Node
             PROVE  member[m] = member[n] <=> Connected(Node, edges, m, n)
  BY DEF ClassesAreComponents
<1>1. member[m] = rep[m] /\ member[n] = rep[n]
  BY DEF ForestIInv, MemberInv, Finished, InFind
<1>2. \A e \in edges : e \in Node \X Node /\ rep[e[1]] = rep[e[2]]
  BY PairAssumption DEF ForestIInv, ForestTypeOK, EdgesInv, Merged, Finished, InFind
<1>3. ASSUME rep[m] = rep[n] PROVE Connected(Node, edges, m, n)
  BY <1>3 DEF ForestIInv, ClosedInv, Connected
<1>4. ASSUME Connected(Node, edges, m, n) PROVE rep[m] = rep[n]
  <2> DEFINE S == {k \in Node : rep[k] = rep[m]}
  <2>1. \A e \in edges : e[1] \in S <=> e[2] \in S
    BY <1>2
  <2>2. m \in S <=> n \in S
    BY <1>4, <2>1 DEF Connected
  <2> QED
    BY <2>2
<1> QED
  BY <1>1, <1>3, <1>4

(* Whatever the graph and the order of its edges, two nodes are in the     *)
(* same list of members_by_root exactly when edges connect them.           *)
THEOREM ComponentsCorrect == ForestSpec => []ClassesAreComponents
BY ForestInitInv, ForestInvInductive, ComponentsWhenFinished, PTL DEF ForestSpec

-------------------------------------------------------------------------------
(* CustomerMarts                                                           *)

(* A run reads events that are there, and its resolution covers them.      *)
RunInv ==
  /\ events \in Seq(Event)
  /\ seen \in Nat /\ seen <= Len(events)
  /\ published \in Nat /\ published <= Len(events)
  /\ phase = "dbt" => DOMAIN resolution = Vertices(seen, sold)

IInv == RunInv /\ GraphKeysResolve /\ OptOutHeld

-------------------------------------------------------------------------------

LEMMA InitInv == Init => IInv
BY DEF Init, IInv, RunInv, GraphKeysResolve, OptOutHeld

LEMMA ObserveInv ==
  ASSUME IInv, NEW e \in Event, Observe(e)
  PROVE  IInv'
<1> USE DEF Observe, IInv, RunInv, martVars
<1>1. /\ events' \in Seq(Event) /\ Len(events') = Len(events) + 1
      /\ \A i \in 1..Len(events) : events'[i] = events[i]
  OBVIOUS
<1>2. RunInv'
  <2>1. Vertices(seen, sold)' = Vertices(seen, sold)
    BY <1>1 DEF Vertices, Pairs
  <2> QED
    BY <1>1, <2>1
<1>3. GraphKeysResolve'
  BY DEF GraphKeysResolve
<1>4. OptOutHeld'
  BY <1>1 DEF OptOutHeld
<1> QED
  BY <1>2, <1>3, <1>4

LEMMA SellInv ==
  ASSUME IInv, NEW c \in Id, Sell(c)
  PROVE  IInv'
BY DEF Sell, IInv, RunInv, martVars, GraphKeysResolve, OptOutHeld, Vertices, Pairs

LEMMA StartJobInv == IInv /\ StartJob => IInv'
BY DEF StartJob, IInv, RunInv, feedVars, martVars, GraphKeysResolve, OptOutHeld

LEMMA JobDoneInv == IInv /\ JobDone => IInv'
<1> SUFFICES ASSUME IInv, JobDone PROVE IInv'
  OBVIOUS
<1> USE DEF JobDone, IInv, RunInv, feedVars, martVars
<1>1. RunInv'
  BY DEF Vertices, Pairs
<1>2. GraphKeysResolve' /\ OptOutHeld'
  BY DEF GraphKeysResolve, OptOutHeld
<1> QED
  BY <1>1, <1>2

LEMMA RunFailsInv == IInv /\ RunFails => IInv'
BY DEF RunFails, RunEnds, IInv, RunInv, feedVars, martVars, GraphKeysResolve, OptOutHeld

(* What the run's key says when its last event is an opt-out.              *)
LEMMA LatestStatement ==
  ASSUME RunInv, NEW k, seen > 0, seen \in Statements(k), events[seen].says = "no"
  PROVE  ~Consent(k)
<1> DEFINE latest == CHOOSE i \in Statements(k) : \A j \in Statements(k) : j <= i
<1>1. Statements(k) \subseteq 1..seen
  BY DEF Statements
<1>2. \A j \in Statements(k) : j <= seen
  BY <1>1 DEF RunInv
<1>3. latest \in Statements(k) /\ \A j \in Statements(k) : j <= latest
  BY <1>2
<1>4. latest = seen
  BY <1>1, <1>2, <1>3 DEF RunInv
<1> QED
  BY <1>4 DEF Consent

LEMMA PublishInv == IInv /\ Publish => IInv'
<1> SUFFICES ASSUME IInv, Publish PROVE IInv'
  OBVIOUS
<1> USE DEF Publish, RunEnds, IInv, feedVars
<1>1. RunInv'
  BY DEF RunInv
<1>2. GraphKeysResolve'
  <2>1. DOMAIN dim' = DOMAIN dim \cup Keys
    BY DEF DimCustomer
  <2>2. ASSUME NEW n \in DOMAIN graph' PROVE graph'[n] \in DOMAIN dim'
    <3>1. CASE n \in DOMAIN resolution /\ ~IsPublic(n)
      <4>1. graph'[n] = resolution[n]
        BY <2>2, <3>1 DEF IdentityGraph
      <4> QED
        BY <2>1, <3>1, <4>1 DEF Keys
    <3>2. CASE ~(n \in DOMAIN resolution /\ ~IsPublic(n))
      <4>1. n \in DOMAIN graph /\ graph'[n] = graph[n]
        BY <2>2, <3>2 DEF IdentityGraph
      <4> QED
        BY <2>1, <4>1 DEF GraphKeysResolve
    <3> QED
      BY <3>1, <3>2
  <2> QED
    BY <2>2 DEF GraphKeysResolve
<1>3. OptOutHeld'
  <2> SUFFICES ASSUME NEW c \in Id, seen > 0,
                      events[seen].customer = c, events[seen].says = "no"
               PROVE  /\ CustomerNode(c) \in DOMAIN graph'
                      /\ ~dim'[graph'[CustomerNode(c)]].consent
    BY DEF OptOutHeld
  <2> DEFINE k == resolution[CustomerNode(c)]
  <2>1. CustomerNode(c) \in DOMAIN resolution
    <3>1. seen \in {j \in 1..seen : events[j].customer # NoId} /\ events[seen].customer = c
      BY DEF RunInv, Id, NoId
    <3>2. <<events[seen].client, c>> \in Pairs(seen)
      BY <3>1 DEF Pairs
    <3> QED
      BY <3>2 DEF RunInv, Vertices
  <2>2. ~IsPublic(CustomerNode(c))
    BY MartsAssumption DEF IsPublic, CustomerNode, Client, Id
  <2>3. CustomerNode(c) \in DOMAIN graph' /\ graph'[CustomerNode(c)] = k
    BY <2>1, <2>2 DEF IdentityGraph
  <2>4. k \in Keys
    BY <2>1 DEF Keys
  <2>5. dim'[k] = CustomerRow(k)
    BY <2>4 DEF DimCustomer
  <2>6. seen \in Statements(k)
    BY DEF Statements, RunInv
  <2>7. ~Consent(k)
    BY <2>6, LatestStatement
  <2> QED
    BY <2>3, <2>5, <2>7 DEF CustomerRow
<1> QED
  BY <1>1, <1>2, <1>3

LEMMA InvInductive == IInv /\ [Next]_vars => IInv'
<1> SUFFICES ASSUME IInv, [Next]_vars PROVE IInv'
  OBVIOUS
<1>1. ASSUME NEW e \in Event, Observe(e) PROVE IInv'
  BY <1>1, ObserveInv
<1>2. ASSUME NEW c \in Id, Sell(c) PROVE IInv'
  BY <1>2, SellInv
<1>3. CASE StartJob
  BY <1>3, StartJobInv
<1>4. CASE JobDone
  BY <1>4, JobDoneInv
<1>5. CASE Publish
  BY <1>5, PublishInv
<1>6. CASE RunFails
  BY <1>6, RunFailsInv
<1>7. CASE UNCHANGED vars
  BY <1>7 DEF vars, feedVars, martVars, IInv, RunInv, GraphKeysResolve, OptOutHeld,
              Vertices, Pairs
<1> QED
  BY <1>1, <1>2, <1>3, <1>4, <1>5, <1>6, <1>7 DEF Next

(* Every identifier of the live graph leads to a row of the live dimension,*)
(* however often its key moved between runs.                               *)
THEOREM GraphResolves == Spec => []GraphKeysResolve
<1>1. IInv => GraphKeysResolve
  BY DEF IInv
<1> QED
  BY InitInv, InvInductive, <1>1, PTL DEF Spec

(* A customer whose opt-out is the latest event of the published run has   *)
(* no marketing consent under the key the graph gives them.                *)
THEOREM OptOutIsHeld == Spec => []OptOutHeld
<1>1. IInv => OptOutHeld
  BY DEF IInv
<1> QED
  BY InitInv, InvInductive, <1>1, PTL DEF Spec

-------------------------------------------------------------------------------
(* Keys only improve                                                       *)

(* The run's vertices and edges, and the component of a node in them.      *)
ComponentIn(n, ids, x) ==
  {m \in Vertices(n, ids) : Connected(Vertices(n, ids), Edges(n, ids), m, x)}

(* A run resolved what it read.                                            *)
ResolvedInv == phase = "dbt" => resolution = [x \in Vertices(seen, sold) |-> Key(x)]

(* What the last published run read, with the loyalty ids it read, holds   *)
(* every identifier of the graph, and an identifier that is no public      *)
(* device has its key in its own component of that.                        *)
GraphOf(ids) ==
  /\ ids \subseteq loyalty
  /\ phase # "idle" => ids \subseteq sold /\ published <= seen
  /\ DOMAIN graph \subseteq Vertices(published, ids)
  /\ \A x \in DOMAIN graph : x \notin Public(published) => graph[x] \in ComponentIn(published, ids, x)

KeyInv ==
  /\ TypeOK
  /\ ResolvedInv
  /\ \E ids \in SUBSET Id : GraphOf(ids)

LEMMA VerticesAreNodes ==
  ASSUME TypeOK, NEW n \in 0..Len(events), NEW ids \in SUBSET Id
  PROVE  Vertices(n, ids) \subseteq GraphNode
<1>1. ASSUME NEW i \in 1..n
      PROVE  /\ events[i].client \in Client
             /\ events[i].customer # NoId => events[i].customer \in Id
  <2>1. i \in 1..Len(events)
    BY DEF TypeOK
  <2>2. events[i] \in Event
    BY <2>1 DEF TypeOK
  <2> QED
    BY <2>2 DEF Event
<1>2. ASSUME NEW p \in Pairs(n) PROVE p[1] \in Client /\ p[2] \in Id
  BY <1>1 DEF Pairs
<1> QED
  BY <1>1, <1>2, MartsAssumption DEF Vertices, GraphNode, LoyaltyNode, CustomerNode, ClientNode, Client, Id

LEMMA EdgesInVertices ==
  ASSUME TypeOK, NEW n \in 0..Len(events), NEW ids \in SUBSET Id, NEW e \in Edges(n, ids)
  PROVE  e[1] \in Vertices(n, ids) /\ e[2] \in Vertices(n, ids)
<1>1. ASSUME NEW p \in Pairs(n)
      PROVE  ClientNode(p[1]) \in Vertices(n, ids) /\ CustomerNode(p[2]) \in Vertices(n, ids)
  BY DEF Pairs, Vertices
<1>2. CASE \E p \in Pairs(n) : e = <<ClientNode(p[1]), CustomerNode(p[2])>>
  BY <1>1, <1>2
<1>3. CASE \E c \in ids : /\ \E d \in Client : <<d, c>> \in Pairs(n)
                         /\ e = <<LoyaltyNode(c), CustomerNode(c)>>
  <2>1. PICK c \in ids, d \in Client : /\ <<d, c>> \in Pairs(n)
                                      /\ e = <<LoyaltyNode(c), CustomerNode(c)>>
    BY <1>3
  <2>2. CustomerNode(<<d, c>>[2]) \in Vertices(n, ids)
    BY <1>1, <2>1
  <2>3. LoyaltyNode(c) \in Vertices(n, ids)
    BY DEF Vertices
  <2> QED
    BY <2>1, <2>2, <2>3
<1> QED
  BY <1>2, <1>3 DEF Edges

(* More events and loyalty ids keep components together, as long as no     *)
(* device became public.                                                   *)
LEMMA ComponentsGrow ==
  ASSUME TypeOK, NEW n \in 0..Len(events), NEW k \in 0..Len(events), n <= k,
         NEW ids \in SUBSET Id, NEW more \in SUBSET Id, ids \subseteq more
  PROVE  /\ Vertices(n, ids) \subseteq Vertices(k, more)
         /\ Public(n) = Public(k) =>
              \A x \in Vertices(n, ids) : ComponentIn(n, ids, x) \subseteq ComponentIn(k, more, x)
<1>1. Pairs(n) \subseteq Pairs(k)
  BY DEF Pairs, TypeOK
<1>2. Vertices(n, ids) \subseteq Vertices(k, more)
  <2>1. 1..n \subseteq 1..k
    BY DEF TypeOK
  <2> QED
    BY <1>1, <2>1 DEF Vertices
<1>3. ASSUME Public(n) = Public(k), NEW x \in Vertices(n, ids), NEW m \in ComponentIn(n, ids, x)
      PROVE  m \in ComponentIn(k, more, x)
  <2>1. Edges(n, ids) \subseteq Edges(k, more)
    BY <1>1, <1>3 DEF Edges
  <2>2. ASSUME NEW S \in SUBSET Vertices(k, more),
               \A e \in Edges(k, more) : e[1] \in S <=> e[2] \in S
        PROVE  m \in S <=> x \in S
    <3> DEFINE T == S \cap Vertices(n, ids)
    <3>1. \A e \in Edges(n, ids) : e[1] \in T <=> e[2] \in T
      BY <2>1, <2>2, EdgesInVertices
    <3>2. m \in T <=> x \in T
      BY <1>3, <3>1 DEF ComponentIn, Connected
    <3> QED
      BY <1>3, <3>2 DEF ComponentIn
  <2> QED
    BY <1>2, <1>3, <2>2 DEF ComponentIn, Connected
<1> QED
  BY <1>2, <1>3

LEMMA LeastExists ==
  ASSUME NEW T \in SUBSET Nat, T # {}
  PROVE  \E s \in T : \A t \in T : s <= t
<1>1. \E s \in T : \A t \in T : ~(<<t, s>> \in OpToRel(<, Nat))
  BY NatLessThanWellFounded, WFMin
<1>2. ASSUME NEW s \in Nat, NEW t \in Nat, t < s
      PROVE  <<t, s>> \in OpToRel(<, Nat)
  BY <1>2 DEF OpToRel
<1>3. PICK s \in T : \A t \in T : ~(<<t, s>> \in OpToRel(<, Nat))
  BY <1>1
<1>4. \A t \in T : ~(t < s)
  BY <1>2, <1>3
<1> QED
  BY <1>4

(* A run's key is a member of the component that no member precedes.       *)
LEMMA RepNodeLeads ==
  ASSUME TypeOK, NEW x \in Vertices(seen, sold)
  PROVE  /\ RepNode(x) \in ComponentIn(seen, sold, x)
         /\ \A k \in ComponentIn(seen, sold, x) : SortKey(RepNode(x)) <= SortKey(k)
<1> DEFINE members == ComponentIn(seen, sold, x)
           keys == {SortKey(m) : m \in members}
<1>1. Component(x) = members
  BY DEF Component, ComponentIn
<1>2. x \in members
  BY DEF ComponentIn, Connected
<1>3. members \subseteq GraphNode
  BY VerticesAreNodes DEF ComponentIn, TypeOK
<1>4. \A m \in members : SortKey(m) \in Nat
  BY <1>3, MartsAssumption DEF GraphNode, SortKey
<1>5. keys \in SUBSET Nat /\ keys # {}
  BY <1>2, <1>4
<1>6. \E s \in keys : \A t \in keys : s <= t
  BY <1>5, LeastExists
<1>7. \E m \in members : \A k \in members : SortKey(m) <= SortKey(k)
  BY <1>6
<1> QED
  BY <1>1, <1>7 DEF RepNode

(* A key is a node, and max(loyalty_id) of a key a loyalty id or none.     *)
LEMMA KeyIsNode ==
  ASSUME TypeOK, NEW x \in Vertices(seen, sold)
  PROVE  Key(x) \in GraphNode
<1>1. Vertices(seen, sold) \subseteq GraphNode
  BY VerticesAreNodes DEF TypeOK
<1>2. RepNode(x) \in GraphNode
  BY <1>1, RepNodeLeads DEF ComponentIn
<1> QED
  BY <1>1, <1>2 DEF Key

LEMMA LoyaltyIsId ==
  ASSUME TypeOK, NEW k
  PROVE  LoyaltyOf(k) \in Id \cup {NoId}
<1> DEFINE ids == {c \in sold : resolution[LoyaltyNode(c)] = k}
           left == {NId - c : c \in ids}
<1> SUFFICES ASSUME ids # {} PROVE \E c \in ids : \A d \in ids : d <= c
  BY DEF LoyaltyOf, TypeOK
<1>1. ids \subseteq Id
  BY DEF TypeOK
<1>2. left \in SUBSET Nat /\ left # {}
  BY <1>1, MartsAssumption DEF Id
<1>3. \E s \in left : \A t \in left : s <= t
  BY <1>2, LeastExists
<1>4. PICK c \in ids : \A d \in ids : NId - c <= NId - d
  BY <1>3
<1>5. \A d \in ids : d <= c
  BY <1>1, <1>4, MartsAssumption DEF Id
<1> QED
  BY <1>5

LEMMA ConsentIsBoolean == ASSUME NEW k PROVE Consent(k) \in BOOLEAN
BY DEF Consent

-------------------------------------------------------------------------------

LEMMA InitKey == Init => KeyInv
<1> SUFFICES ASSUME Init PROVE KeyInv
  OBVIOUS
<1>1. TypeOK
  BY DEF Init, TypeOK
<1>2. ResolvedInv
  BY DEF Init, ResolvedInv
<1>3. GraphOf({})
  BY DEF Init, GraphOf
<1> QED
  BY <1>1, <1>2, <1>3 DEF KeyInv

(* What a run read of the feeds does not change when they grow.            *)
LEMMA SameReading ==
  ASSUME TypeOK, NEW e \in Event, events' = Append(events, e)
  PROVE  \A n \in 0..Len(events), ids \in SUBSET Id :
           /\ Pairs(n)' = Pairs(n) /\ Public(n)' = Public(n)
           /\ Vertices(n, ids)' = Vertices(n, ids) /\ Edges(n, ids)' = Edges(n, ids)
<1> SUFFICES ASSUME NEW n \in 0..Len(events), NEW ids \in SUBSET Id
             PROVE  /\ Pairs(n)' = Pairs(n) /\ Public(n)' = Public(n)
                    /\ Vertices(n, ids)' = Vertices(n, ids) /\ Edges(n, ids)' = Edges(n, ids)
  OBVIOUS
<1>1. \A i \in 1..n : events'[i] = events[i]
  BY DEF TypeOK
<1>2. Pairs(n)' = Pairs(n)
  BY <1>1 DEF Pairs
<1>3. Public(n)' = Public(n)
  BY <1>2 DEF Public
<1>4. Vertices(n, ids)' = Vertices(n, ids)
  BY <1>1, <1>2 DEF Vertices
<1>5. Edges(n, ids)' = Edges(n, ids)
  BY <1>2, <1>3 DEF Edges
<1> QED
  BY <1>2, <1>3, <1>4, <1>5

LEMMA ObserveKey ==
  ASSUME KeyInv, NEW e \in Event, Observe(e)
  PROVE  KeyInv'
<1> USE DEF Observe, KeyInv, martVars
<1>1. TypeOK'
  BY DEF TypeOK
<1>2. \A n \in 0..Len(events), ids \in SUBSET Id :
        /\ Public(n)' = Public(n)
        /\ Vertices(n, ids)' = Vertices(n, ids) /\ Edges(n, ids)' = Edges(n, ids)
  BY SameReading
<1>3. seen \in 0..Len(events) /\ published \in 0..Len(events) /\ sold \in SUBSET Id
  BY DEF TypeOK
<1>4. ResolvedInv'
  <2>1. /\ Vertices(seen, sold)' = Vertices(seen, sold)
        /\ Edges(seen, sold)' = Edges(seen, sold)
        /\ Public(seen)' = Public(seen)
    BY <1>2, <1>3
  <2>2. ASSUME NEW x PROVE Component(x)' = Component(x)
    BY <2>1 DEF Component
  <2>3. ASSUME NEW x PROVE Key(x)' = Key(x)
    <3>1. IsPublic(x)' <=> IsPublic(x)
      BY <2>1 DEF IsPublic
    <3>2. RepNode(x)' = RepNode(x)
      BY <2>2 DEF RepNode
    <3> QED
      BY <3>1, <3>2 DEF Key
  <2> QED
    BY <2>1, <2>3 DEF ResolvedInv
<1>5. PICK ids \in SUBSET Id : GraphOf(ids)
  OBVIOUS
<1>6. GraphOf(ids)'
  <2>1. /\ Vertices(published, ids)' = Vertices(published, ids)
        /\ Edges(published, ids)' = Edges(published, ids)
        /\ Public(published)' = Public(published)
    BY <1>2, <1>3
  <2>2. ASSUME NEW x PROVE ComponentIn(published, ids, x)' = ComponentIn(published, ids, x)
    BY <2>1 DEF ComponentIn
  <2> QED
    BY <1>5, <2>1, <2>2 DEF GraphOf
<1> QED
  BY <1>1, <1>4, <1>6

(* Steps that leave the events alone leave every reading of them.          *)
LEMMA SameFeed ==
  ASSUME events' = events
  PROVE  \A n, ids : /\ Public(n)' = Public(n)
                     /\ Vertices(n, ids)' = Vertices(n, ids) /\ Edges(n, ids)' = Edges(n, ids)
BY DEF Public, Pairs, Vertices, Edges

(* ... and the runs' keys, when what the run read stays too.               *)
LEMMA SameResolved ==
  ASSUME events' = events, seen' = seen, sold' = sold, resolution' = resolution,
         phase' = phase, ResolvedInv
  PROVE  ResolvedInv'
<1>1. Public(seen)' = Public(seen)
  BY SameFeed
<1>2. Vertices(seen, sold)' = Vertices(seen, sold)
  BY SameFeed
<1>3. Edges(seen, sold)' = Edges(seen, sold)
  BY SameFeed
<1>4. ASSUME NEW x PROVE Component(x)' = Component(x)
  BY <1>2, <1>3 DEF Component
<1>5. ASSUME NEW x PROVE Key(x)' = Key(x)
  <2>1. IsPublic(x)' <=> IsPublic(x)
    BY <1>1 DEF IsPublic
  <2>2. RepNode(x)' = RepNode(x)
    BY <1>4 DEF RepNode
  <2> QED
    BY <2>1, <2>2 DEF Key
<1> QED
  BY <1>2, <1>5 DEF ResolvedInv

LEMMA SameComponents ==
  ASSUME events' = events, published' = published
  PROVE  /\ Public(published)' = Public(published)
         /\ \A ids : Vertices(published, ids)' = Vertices(published, ids)
         /\ \A ids, x : ComponentIn(published, ids, x)' = ComponentIn(published, ids, x)
<1>1. Public(published)' = Public(published)
  BY SameFeed
<1>2. ASSUME NEW ids PROVE Vertices(published, ids)' = Vertices(published, ids)
  BY SameFeed
<1>3. ASSUME NEW ids PROVE Edges(published, ids)' = Edges(published, ids)
  BY SameFeed
<1>4. ASSUME NEW ids, NEW x
      PROVE  ComponentIn(published, ids, x)' = ComponentIn(published, ids, x)
  BY <1>2, <1>3 DEF ComponentIn
<1> QED
  BY <1>1, <1>2, <1>4

LEMMA SellKey ==
  ASSUME KeyInv, NEW c \in Id, Sell(c)
  PROVE  KeyInv'
<1> USE DEF Sell, KeyInv, martVars
<1>1. TypeOK'
  BY DEF TypeOK
<1>2. ResolvedInv'
  BY SameResolved
<1>3. PICK ids \in SUBSET Id : GraphOf(ids)
  OBVIOUS
<1>4. GraphOf(ids)'
  BY <1>3, SameComponents DEF GraphOf
<1> QED
  BY <1>1, <1>2, <1>4

LEMMA StartJobKey == KeyInv /\ StartJob => KeyInv'
<1> SUFFICES ASSUME KeyInv, StartJob PROVE KeyInv'
  OBVIOUS
<1> USE DEF StartJob, KeyInv, feedVars, martVars
<1>1. TypeOK'
  BY DEF TypeOK
<1>2. ResolvedInv'
  BY DEF ResolvedInv
<1>3. PICK ids \in SUBSET Id : GraphOf(ids)
  OBVIOUS
<1>4. GraphOf(ids)'
  BY <1>3, SameComponents DEF GraphOf, TypeOK
<1> QED
  BY <1>1, <1>2, <1>4

LEMMA JobDoneKey == KeyInv /\ JobDone => KeyInv'
<1> SUFFICES ASSUME KeyInv, JobDone PROVE KeyInv'
  OBVIOUS
<1> USE DEF JobDone, KeyInv, feedVars, martVars
<1>1. TypeOK'
  <2>1. Vertices(seen, sold) \subseteq GraphNode
    BY VerticesAreNodes DEF TypeOK
  <2>2. \A x \in Vertices(seen, sold) : Key(x) \in GraphNode
    BY KeyIsNode
  <2> QED
    BY <2>1, <2>2 DEF TypeOK
<1>2. ResolvedInv'
  <2>1. Public(seen)' = Public(seen)
    BY SameFeed
  <2>2. Vertices(seen, sold)' = Vertices(seen, sold)
    BY SameFeed
  <2>3. Edges(seen, sold)' = Edges(seen, sold)
    BY SameFeed
  <2>4. ASSUME NEW x PROVE Component(x)' = Component(x)
    BY <2>2, <2>3 DEF Component
  <2>5. ASSUME NEW x PROVE Key(x)' = Key(x)
    <3>1. IsPublic(x)' <=> IsPublic(x)
      BY <2>1 DEF IsPublic
    <3>2. RepNode(x)' = RepNode(x)
      BY <2>4 DEF RepNode
    <3> QED
      BY <3>1, <3>2 DEF Key
  <2> QED
    BY <2>2, <2>5 DEF ResolvedInv
<1>3. PICK ids \in SUBSET Id : GraphOf(ids)
  OBVIOUS
<1>4. GraphOf(ids)'
  BY <1>3, SameComponents DEF GraphOf
<1> QED
  BY <1>1, <1>2, <1>4

LEMMA RunFailsKey == KeyInv /\ RunFails => KeyInv'
<1> SUFFICES ASSUME KeyInv, RunFails PROVE KeyInv'
  OBVIOUS
<1> USE DEF RunFails, RunEnds, KeyInv, feedVars, martVars
<1>1. TypeOK'
  BY DEF TypeOK
<1>2. ResolvedInv'
  BY DEF ResolvedInv
<1>3. PICK ids \in SUBSET Id : GraphOf(ids)
  OBVIOUS
<1>4. GraphOf(ids)'
  BY <1>3, SameComponents DEF GraphOf
<1> QED
  BY <1>1, <1>2, <1>4

(* What a published run makes of the graph.                                *)
LEMMA PublishedGraph ==
  ASSUME KeyInv, Publish
  PROVE  /\ \A x \in Vertices(seen, sold) :
              ~IsPublic(x) => x \in DOMAIN graph' /\ graph'[x] = RepNode(x)
         /\ \A x : x \in DOMAIN graph' /\ (x \notin Vertices(seen, sold) \/ IsPublic(x))
                     => x \in DOMAIN graph /\ graph'[x] = graph[x]
         /\ DOMAIN graph \subseteq DOMAIN graph'
<1>1. resolution = [x \in Vertices(seen, sold) |-> Key(x)]
  BY DEF KeyInv, ResolvedInv, Publish
<1>2. \A x \in Vertices(seen, sold) : ~IsPublic(x) => resolution[x] = RepNode(x)
  BY <1>1 DEF Key
<1>3. DOMAIN resolution = Vertices(seen, sold)
  BY <1>1
<1> QED
  BY <1>2, <1>3 DEF Publish, IdentityGraph

LEMMA PublishKey == KeyInv /\ Publish => KeyInv'
<1> SUFFICES ASSUME KeyInv, Publish PROVE KeyInv'
  OBVIOUS
<1>1. TypeOK'
  <2>1. DOMAIN dim' = DOMAIN dim \cup Keys
    BY DEF Publish, DimCustomer
  <2>2. Keys \subseteq GraphNode
    BY DEF Keys, KeyInv, TypeOK
  <2>3. \A k \in Keys : CustomerRow(k) \in Row
    BY LoyaltyIsId, ConsentIsBoolean DEF CustomerRow, Row, KeyInv
  <2>4. \A k \in DOMAIN dim' : dim'[k] \in Row
    BY <2>3 DEF Publish, DimCustomer, KeyInv, TypeOK
  <2>5. DOMAIN graph' \subseteq GraphNode /\ \A n \in DOMAIN graph' : graph'[n] \in GraphNode
    BY DEF Publish, IdentityGraph, KeyInv, TypeOK
  <2>6. DOMAIN dim' \subseteq GraphNode
    BY <2>1, <2>2 DEF KeyInv, TypeOK
  <2> QED
    BY <2>4, <2>5, <2>6 DEF Publish, RunEnds, feedVars, KeyInv, TypeOK
<1>2. ResolvedInv'
  BY DEF ResolvedInv, Publish, RunEnds
<1>3. PICK ids \in SUBSET Id : GraphOf(ids)
  BY DEF KeyInv
<1>4. /\ Vertices(published, ids) \subseteq Vertices(seen, sold)
      /\ sold \in SUBSET Id /\ sold \subseteq loyalty
  BY <1>3, ComponentsGrow DEF GraphOf, Publish, KeyInv, TypeOK
<1>5. DOMAIN graph' \subseteq Vertices(seen, sold)
  BY <1>3, <1>4, PublishedGraph DEF GraphOf
<1>6. ASSUME NEW x \in DOMAIN graph', x \notin Public(seen)
      PROVE  graph'[x] \in ComponentIn(seen, sold, x)
  BY <1>5, <1>6, PublishedGraph, RepNodeLeads DEF IsPublic, KeyInv
<1>7. PICK new \in SUBSET Id : new = sold
  BY <1>4
<1>8. GraphOf(new)'
  <2>1. Public(published)' = Public(seen)
    BY DEF Publish, feedVars, Public, Pairs
  <2>2. Vertices(published, new)' = Vertices(seen, sold)
    BY <1>7 DEF Publish, feedVars, Vertices, Pairs
  <2>3. Edges(published, new)' = Edges(seen, sold)
    BY <1>7, <2>1 DEF Publish, feedVars, Edges, Pairs, Public
  <2>4. ASSUME NEW x PROVE ComponentIn(published, new, x)' = ComponentIn(seen, sold, x)
    BY <2>2, <2>3 DEF ComponentIn
  <2> QED
    BY <1>4, <1>5, <1>6, <1>7, <2>1, <2>2, <2>4 DEF GraphOf, Publish, RunEnds, feedVars
<1> QED
  BY <1>1, <1>2, <1>8 DEF KeyInv

LEMMA KeyInductive == KeyInv /\ [Next]_vars => KeyInv'
<1> SUFFICES ASSUME KeyInv, [Next]_vars PROVE KeyInv'
  OBVIOUS
<1>1. ASSUME NEW e \in Event, Observe(e) PROVE KeyInv'
  BY <1>1, ObserveKey
<1>2. ASSUME NEW c \in Id, Sell(c) PROVE KeyInv'
  BY <1>2, SellKey
<1>3. CASE StartJob
  BY <1>3, StartJobKey
<1>4. CASE JobDone
  BY <1>4, JobDoneKey
<1>5. CASE Publish
  BY <1>5, PublishKey
<1>6. CASE RunFails
  BY <1>6, RunFailsKey
<1>7. CASE UNCHANGED vars
  <2> USE <1>7 DEF vars, feedVars, martVars, KeyInv
  <2>1. TypeOK'
    BY DEF TypeOK
  <2>2. ResolvedInv'
    BY SameResolved
  <2>3. PICK ids \in SUBSET Id : GraphOf(ids)
    OBVIOUS
  <2>4. GraphOf(ids)'
    BY <2>3, SameComponents DEF GraphOf
  <2> QED
    BY <2>1, <2>2, <2>4
<1> QED
  BY <1>1, <1>2, <1>3, <1>4, <1>5, <1>6, <1>7 DEF Next

(* The marts' state has its type, whatever the runs read: keys are nodes,  *)
(* and a row's loyalty id is one of the loyalty ids or none.               *)
THEOREM CustomerTypeCorrect == Spec => []TypeOK
<1>1. KeyInv => TypeOK
  BY DEF KeyInv
<1> QED
  BY InitKey, KeyInductive, <1>1, PTL DEF Spec

(* A published run moves an identifier's key only to a representative of   *)
(* higher priority, as long as no device became public since the last one. *)
LEMMA PublishImproves ==
  ASSUME KeyInv, Publish, Public(published) = Public(seen), NEW x \in DOMAIN graph
  PROVE  SortKey(graph'[x]) <= SortKey(graph[x])
<1>1. PICK ids \in SUBSET Id : GraphOf(ids)
  BY DEF KeyInv
<1>2. x \in Vertices(published, ids)
  BY <1>1 DEF GraphOf
<1>3. /\ ids \subseteq sold /\ published <= seen /\ sold \in SUBSET Id
      /\ published \in 0..Len(events) /\ seen \in 0..Len(events)
  BY <1>1 DEF GraphOf, KeyInv, TypeOK, Publish
<1>4. /\ Vertices(published, ids) \subseteq Vertices(seen, sold)
      /\ ComponentIn(published, ids, x) \subseteq ComponentIn(seen, sold, x)
  BY <1>2, <1>3, ComponentsGrow DEF KeyInv
<1>5. CASE IsPublic(x)
  <2>1. graph'[x] = graph[x]
    BY <1>5, PublishedGraph
  <2>2. graph[x] \in GraphNode
    BY DEF KeyInv, TypeOK
  <2>3. SortKey(graph[x]) \in Nat
    BY <2>2, MartsAssumption DEF GraphNode, SortKey
  <2> QED
    BY <2>1, <2>3
<1>6. CASE ~IsPublic(x)
  <2>1. graph'[x] = RepNode(x)
    BY <1>2, <1>4, <1>6, PublishedGraph
  <2>2. x \notin Public(published)
    BY <1>6 DEF IsPublic, Public
  <2>3. graph[x] \in ComponentIn(seen, sold, x)
    BY <1>1, <1>4, <2>2 DEF GraphOf
  <2> QED
    BY <1>2, <1>4, <2>1, <2>3, RepNodeLeads DEF KeyInv
<1> QED
  BY <1>5, <1>6

(* From one published run to the next every identifier's key only improves,*)
(* unless a device became public in between and its component fell apart.  *)
THEOREM KeysImprove == Spec => KeysOnlyImprove
<1> DEFINE Improves == Public(published) = Public(published') =>
                         \A n \in DOMAIN graph : SortKey(graph'[n]) <= SortKey(graph[n])
<1>1. KeyInv /\ [Next]_vars => [Improves]_martVars
  <2> SUFFICES ASSUME KeyInv, Next, martVars' # martVars, Public(published) = Public(published'),
                      NEW n \in DOMAIN graph
               PROVE  SortKey(graph'[n]) <= SortKey(graph[n])
    BY DEF vars
  <2>1. Publish
    BY DEF Next, Observe, Sell, StartJob, JobDone, RunFails
  <2>2. Public(published) = Public(seen)
    BY <2>1 DEF Publish
  <2> QED
    BY <2>1, <2>2, PublishImproves
<1> QED
  BY InitKey, KeyInductive, <1>1, PTL DEF Spec, KeysOnlyImprove
===============================================================================
