----------------------------- MODULE CustomerMarts -----------------------------
(***************************************************************************)
(* From clickstream events and POS loyalty ids to Customer 360: the hourly *)
(* marketing run resolves identities from scratch (the Spark job           *)
(* identity_resolution_job.py, which mirrors graph_logic.py), then builds  *)
(* marketing.dim_customer and marketing.identity_graph on top of what they *)
(* hold already (incremental, delete+insert by key) and publishes both     *)
(* (WapPublish).  Keys follow the connected components, so they move as    *)
(* events come in.                                                         *)
(***************************************************************************)
EXTENDS Integers, Sequences, FiniteSets, Components

CONSTANTS
  NClient,    \* number of devices (client_id)
  NId,        \* number of identifiers used as customer_id or loyalty_id
  Threshold,  \* identity_public_device_threshold
  MaxEvents   \* bound: clickstream events

ASSUME MartsAssumption == {NClient, NId, Threshold, MaxEvents} \subseteq Nat

Client == 1..NClient
Id     == 1..NId
NoId   == 0

(* "client:" < "customer:" < "loyalty:", the order of their names. *)
GraphNode       == 1..(NClient + 2 * NId)
ClientNode(d)   == d
CustomerNode(c) == NClient + c
LoyaltyNode(c)  == NClient + NId + c

Event == [client : Client, customer : Id \cup {NoId}, says : {"nothing", "yes", "no"}]

VARIABLES
  events,      \* canonical clickstream, by event time
  loyalty,     \* loyalty ids in the POS files
  phase,       \* of the marketing run: idle, job, dbt
  seen,        \* number of events the run's Spark job read
  sold,        \* loyalty ids it read
  resolution,  \* identity_resolution: node -> customer_key
  dim,         \* live dim_customer: key -> row
  graph,       \* live identity_graph: identifier -> key
  published    \* history: number of events the last published run read

feedVars == <<events, loyalty>>
martVars == <<dim, graph, published>>
vars == <<feedVars, phase, seen, sold, resolution, martVars>>

Row == [loyalty : Id \cup {NoId}, consent : BOOLEAN]

TypeOK ==
  /\ events \in Seq(Event) /\ loyalty \subseteq Id
  /\ phase \in {"idle", "job", "dbt"}
  /\ seen \in 0..Len(events) /\ sold \subseteq loyalty /\ published \in 0..Len(events)
  /\ DOMAIN resolution \subseteq GraphNode /\ \A n \in DOMAIN resolution : resolution[n] \in GraphNode
  /\ DOMAIN dim \subseteq GraphNode /\ \A k \in DOMAIN dim : dim[k] \in Row
  /\ DOMAIN graph \subseteq GraphNode /\ \A n \in DOMAIN graph : graph[n] \in GraphNode

Init ==
  /\ events = <<>> /\ loyalty = {}
  /\ phase = "idle" /\ seen = 0 /\ sold = {} /\ resolution = <<>>
  /\ dim = <<>> /\ graph = <<>> /\ published = 0

-------------------------------------------------------------------------------
(* The feeds                                                               *)

Observe(e) ==
  /\ Len(events) < MaxEvents
  /\ e.customer = NoId => e.says = "nothing"
  /\ events' = Append(events, e)
  /\ UNCHANGED <<loyalty, phase, seen, sold, resolution, martVars>>

Sell(c) ==
  /\ loyalty' = loyalty \cup {c}
  /\ UNCHANGED <<events, phase, seen, sold, resolution, martVars>>

-------------------------------------------------------------------------------
(* The Spark job                                                           *)

Pairs(n) == {<<events[i].client, events[i].customer>> : i \in {j \in 1..n : events[j].customer # NoId}}

(* find_public_devices *)
Public(n) == {d \in Client : Cardinality({c \in Id : <<d, c>> \in Pairs(n)}) >= Threshold}

(* build_edges: session_link and loyalty_value_match *)
Edges(n, ids) ==
  {<<ClientNode(p[1]), CustomerNode(p[2])>> : p \in {q \in Pairs(n) : q[1] \notin Public(n)}}
  \cup {<<LoyaltyNode(c), CustomerNode(c)>> :
          c \in {i \in ids : \E d \in Client : <<d, i>> \in Pairs(n)}}

Vertices(n, ids) ==
  {LoyaltyNode(c) : c \in ids}
  \cup {CustomerNode(p[2]) : p \in Pairs(n)}
  \cup {ClientNode(events[i].client) : i \in 1..n}

(* Priority of a component's nodes: loyalty, then customer, then client.   *)
SortKey(n) ==
  IF n > NClient + NId THEN n - NClient - NId
  ELSE IF n > NClient THEN n - NClient + NId
  ELSE n + 2 * NId

(* GraphFrames' connected components, of what the run read.                *)
Component(n) ==
  LET V == Vertices(seen, sold)
      E == Edges(seen, sold)
  IN  {m \in V : Connected(V, E, m, n)}

(* Mutant: the smallest name represents the component. *)
RepNodeByName(n) == CHOOSE m \in Component(n) : \A k \in Component(n) : m <= k

RepNode(n) ==
  LET members == Component(n)
  IN  CHOOSE m \in members : \A k \in members : SortKey(m) <= SortKey(k)

IsPublic(n) == n \in Client /\ n \in Public(seen)

(* assign_resolution; customer_key is taken as injective. *)
Key(n) == IF IsPublic(n) THEN n ELSE RepNode(n)

StartJob ==
  /\ phase = "idle"
  /\ phase' = "job" /\ seen' = Len(events) /\ sold' = loyalty
  /\ UNCHANGED <<feedVars, resolution, martVars>>

JobDone ==
  /\ phase = "job"
  /\ phase' = "dbt" /\ resolution' = [n \in Vertices(seen, sold) |-> Key(n)]
  /\ UNCHANGED <<feedVars, seen, sold, martVars>>

-------------------------------------------------------------------------------
(* The dbt models of the run                                               *)

Keys == {resolution[n] : n \in DOMAIN resolution}

(* Mutant: the node's name, not the value split_node takes from it. *)
LoyaltyOfNode(k) ==
  LET nodes == {n \in DOMAIN resolution : n > NClient + NId /\ resolution[n] = k}
  IN  IF nodes = {} THEN NoId ELSE CHOOSE n \in nodes : \A m \in nodes : m <= n

(* dim_customer's identity_base: max(loyalty_id) of a key. *)
LoyaltyOf(k) ==
  LET ids == {c \in sold : resolution[LoyaltyNode(c)] = k}
  IN  IF ids = {} THEN NoId ELSE CHOOSE c \in ids : \A d \in ids : d <= c

(* int_customer_consent: the statements of a key, of its customers and of  *)
(* its devices, and the latest of them.                                    *)
Statements(k) ==
  {i \in 1..seen :
     /\ events[i].says # "nothing"
     /\ k \in {resolution[CustomerNode(events[i].customer)],
                resolution[ClientNode(events[i].client)]}}

(* Mutant: the earliest statement counts. *)
ConsentEarliest(k) ==
  IF Statements(k) = {} THEN LoyaltyOf(k) # NoId
  ELSE events[CHOOSE i \in Statements(k) : \A j \in Statements(k) : i <= j].says = "yes"

Consent(k) ==
  IF Statements(k) = {} THEN LoyaltyOf(k) # NoId
  ELSE events[CHOOSE i \in Statements(k) : \A j \in Statements(k) : j <= i].says = "yes"

CustomerRow(k) == [loyalty |-> LoyaltyOf(k), consent |-> Consent(k)]

(* Mutant: the dimension is rebuilt, not merged into. *)
DimCustomerRebuilt == [k \in Keys |-> CustomerRow(k)]

(* delete+insert by customer_key: a key without a new row keeps its old one. *)
DimCustomer ==
  [k \in DOMAIN dim \cup Keys |-> IF k \in Keys THEN CustomerRow(k) ELSE dim[k]]

(* delete+insert by identifier of the rows that are not public devices.    *)
IdentityGraph ==
  LET resolved == {n \in DOMAIN resolution : ~IsPublic(n)}
  IN  [n \in DOMAIN graph \cup resolved |-> IF n \in resolved THEN resolution[n] ELSE graph[n]]

(* What a run read and resolved is read by no later run: the next one      *)
(* overwrites it first.                                                    *)
RunEnds == phase' = "idle" /\ seen' = 0 /\ sold' = {} /\ resolution' = <<>>

Publish ==
  /\ phase = "dbt"
  /\ dim' = DimCustomer /\ graph' = IdentityGraph /\ published' = seen
  /\ RunEnds
  /\ UNCHANGED feedVars

(* The Spark step, a dbt task or the publish fails: live stays as it is.   *)
RunFails ==
  /\ phase # "idle"
  /\ RunEnds
  /\ UNCHANGED <<feedVars, martVars>>

Next ==
  \/ \E e \in Event : Observe(e)
  \/ \E c \in Id : Sell(c)
  \/ StartJob \/ JobDone
  \/ Publish \/ RunFails

Spec == Init /\ [][Next]_vars

-------------------------------------------------------------------------------
(* Properties                                                              *)

(* No identifier leads Customer 360 to a customer that is not there,       *)
(* however often keys moved: dim_customer keeps superseded keys.           *)
GraphKeysResolve == \A n \in DOMAIN graph : graph[n] \in DOMAIN dim

(* "stablest identifier": from one published run to the next an            *)
(* identifier's key only moves to a representative of higher priority,     *)
(* unless a device became public in between and its component fell apart.  *)
KeysOnlyImprove ==
  [][Public(published) = Public(published') =>
       \A n \in DOMAIN graph : SortKey(graph'[n]) <= SortKey(graph[n])]_martVars

(* An opt-out the last published run read as its latest event is what the  *)
(* customer's current key says, however the key got there.                 *)
OptOutHeld ==
  \A c \in Id :
    /\ published > 0
    /\ events[published].customer = c /\ events[published].says = "no"
    => /\ CustomerNode(c) \in DOMAIN graph
       /\ ~dim[graph[CustomerNode(c)]].consent

(* "an opt-out revokes on the next run" (dim_customer.sql): after such a   *)
(* run no row with the customer's loyalty id has marketing consent.        *)
OptOutRevokes ==
  \A c \in Id :
    /\ published > 0
    /\ events[published].customer = c /\ events[published].says = "no"
    => \A k \in DOMAIN dim : dim[k].loyalty = c => ~dim[k].consent
===============================================================================
