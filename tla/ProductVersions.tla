---------------------------- MODULE ProductVersions ----------------------------
(***************************************************************************)
(* dim_product (transformation/dbt_project/models/marts/marketing/         *)
(* dim_product.sql): the Type 2 history of every product, built by the     *)
(* catalog DAG from the product master and the days a product was seen in  *)
(* POS or inventory (int_product_catalog).  Every run reads whatever the   *)
(* master and the feeds say at that moment; feeds are corrected, so a day  *)
(* of activity may appear late or go away.                                 *)
(***************************************************************************)
EXTENDS Integers

CONSTANTS
  Product,   \* product ids
  Attrs,     \* states of a master row (its record_hash); one is "unknown"
  LastDay,    \* bound: the last day of the clock
  MaxFrom    \* bound: the last day a version starts on

ASSUME ProductAssumption == LastDay \in Nat /\ MaxFrom \in Nat

(* effective_to of the current version (null). *)
NoEnd == -1

ActivityDay == 0..LastDay
(* A version can start after today, a day after each earlier one. *)
Version == [from : Nat, to : Nat \cup {NoEnd}, current : BOOLEAN, hash : Attrs]

VARIABLES
  today,     \* the clock
  master,    \* master[p]: the attributes the catalog has for p
  activity,  \* activity[p]: the days p was seen, as the feeds stand now
  versions   \* versions[p]: the published rows of dim_product

productVars == <<today, master, activity, versions>>

ProductsTypeOK ==
  /\ today \in ActivityDay
  /\ master \in [Product -> Attrs]
  /\ activity \in [Product -> SUBSET ActivityDay]
  /\ versions \in [Product -> SUBSET Version]

ProductsInit ==
  /\ today = 0
  /\ master \in [Product -> Attrs]
  /\ activity = [p \in Product |-> {}]
  /\ versions = [p \in Product |-> {}]

-------------------------------------------------------------------------------
(* The feeds and the catalog                                               *)

NextDay ==
  /\ today < LastDay
  /\ today' = today + 1
  /\ UNCHANGED <<master, activity, versions>>

ChangeMaster(p, a) ==
  /\ master' = [master EXCEPT ![p] = a]
  /\ UNCHANGED <<today, activity, versions>>

See(p, d) ==
  /\ d <= today
  /\ activity' = [activity EXCEPT ![p] = @ \cup {d}]
  /\ UNCHANGED <<today, master, versions>>

(* A corrected file or a canonical rebuild takes the activity of a day away. *)
Unsee(p, d) ==
  /\ activity' = [activity EXCEPT ![p] = @ \ {d}]
  /\ UNCHANGED <<today, master, versions>>

-------------------------------------------------------------------------------
(* One run of the model                                                    *)

FirstSeen(p) == CHOOSE d \in activity[p] : \A e \in activity[p] : d <= e
LastSeen(p)  == CHOOSE d \in activity[p] : \A e \in activity[p] : e <= d

Current(p) == {e \in versions[p] : e.current}
Changed(p) == {e \in Current(p) : activity[p] # {} /\ e.hash # master[p]}

(* Mutant: without greatest(...), the day the product was last seen. *)
NewFromLastSeen(p, e) == LastSeen(p)

(* Not on or before the start of the version it replaces. *)
NewFrom(p, e) == IF LastSeen(p) > e.from THEN LastSeen(p) ELSE e.from + 1

Opened(p, from) == [from |-> from, to |-> NoEnd, current |-> TRUE, hash |-> master[p]]

Closed(e, to) == [from |-> e.from, to |-> to, current |-> FALSE, hash |-> e.hash]

ClosedVersions(p) == {Closed(e, NewFrom(p, e)) : e \in Changed(p)}

(* Mutant: the closed versions of earlier changes are not carried over. *)
UnchangedCurrentOnly(p) == Current(p) \ Changed(p)

UnchangedHistory(p) == versions[p] \ Changed(p)

NewAndUpdatedCurrent(p) ==
  IF activity[p] # {} /\ Current(p) = {}
  THEN {Opened(p, FirstSeen(p))}
  ELSE {Opened(p, NewFrom(p, e)) : e \in Changed(p)}

(* The run publishes every product at once (WapPublish).                   *)
CatalogRun ==
  /\ \A p \in Product : \A e \in Changed(p) : NewFrom(p, e) <= MaxFrom
  /\ versions' = [p \in Product |->
       ClosedVersions(p) \cup UnchangedHistory(p) \cup NewAndUpdatedCurrent(p)]
  /\ UNCHANGED <<today, master, activity>>

ProductsNext ==
  \/ NextDay
  \/ \E p \in Product, a \in Attrs : ChangeMaster(p, a)
  \/ \E p \in Product, d \in ActivityDay : See(p, d) \/ Unsee(p, d)
  \/ CatalogRun

ProductsSpec == ProductsInit /\ [][ProductsNext]_productVars

-------------------------------------------------------------------------------
(* Properties                                                              *)

(* Versions of a product tile its time line (no_scd2_overlaps,             *)
(* no_scd2_gaps, one_current_per_natural_key, unique product_key): one     *)
(* current version, open-ended; every other ends on the day the next one   *)
(* starts; no two start on the same day.                                   *)
Tiles(vs) ==
  vs # {} =>
    /\ \E c \in vs :
         /\ c.current /\ c.to = NoEnd
         /\ \A v \in vs \ {c} : ~v.current /\ v.from < c.from
    /\ \A v \in vs : ~v.current =>
         /\ v.from < v.to
         /\ \E w \in vs : w.from = v.to
    /\ \A v, w \in vs : v # w =>
         /\ v.from # w.from
         /\ ~v.current /\ v.from < w.from => v.to <= w.from

VersionsTile == \A p \in Product : Tiles(versions[p])

(* History is never rewritten: a closed version stays as it is, and a      *)
(* current one stays or is closed, keeping its key and its attributes, so  *)
(* the product_key a fact holds keeps its meaning.                         *)
HistoryImmutable ==
  [][\A p \in Product : \A v \in versions[p] :
       \/ v \in versions'[p]
       \/ /\ v.current
          /\ \E w \in versions'[p] : ~w.current /\ w.from = v.from /\ w.hash = v.hash]_productVars
===============================================================================
