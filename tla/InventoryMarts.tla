----------------------------- MODULE InventoryMarts -----------------------------
(***************************************************************************)
(* The inventory marts of warehouse_daily_batch_pipeline: running balances *)
(* per hour (finance.fact_inventory_snapshot), the dense daily position    *)
(* and the daily rollup made from them, and the serving view that adds     *)
(* Flink hours on top.  Every run reads int_inventory_hourly as it stands: *)
(* hours turn final, change, or are gone (InventoryCoverage).  All three   *)
(* tables are incremental (delete+insert of new and changed rows), built   *)
(* in pending and published together (WapPublish), while the catalog DAG   *)
(* publishes new product versions at any moment.                           *)
(***************************************************************************)
EXTENDS Integers, FiniteSetsExt, Sums

CONSTANTS
  Product,      \* product_id; the store stays the same throughout
  Opening,      \* Opening[p]: the opening count of the products that have one
  Hour,         \* hours since the start that may see movement
  HoursPerDay,  \* 24 in the code
  Movement,     \* the rows <<product, hour>> of int_inventory_hourly can have
  MaxVersion    \* bound: versions of a product in dim_product

ASSUME MartsAssumption ==
  /\ DOMAIN Opening \subseteq Product /\ \A p \in DOMAIN Opening : Opening[p] \in Int
  /\ Hour \subseteq Nat /\ IsFiniteSet(Hour) /\ HoursPerDay \in Nat \ {0}
  /\ Movement \in [Product \X Hour -> SUBSET [delta : Int, estimated : BOOLEAN]]
  /\ MaxVersion \in Nat

NotPublished == 0
Version      == 1..MaxVersion
Day          == {h \div HoursPerDay : h \in Hour}
HourOfDay(h) == h % HoursPerDay
DayOf(h)     == h \div HoursPerDay

NoMovement == [delta |-> 0, estimated |-> FALSE]

VARIABLES
  version,   \* version[p]: its current version in live dim_product
  hourly,    \* int_inventory_hourly of the run: <<product, hour>> -> row
  built,     \* the marts the run has built in pending
  running,   \* a warehouse run is past its staging models
  pending,   \* its fact, position and rollup
  live,      \* the published ones
  read       \* history: hourly of the last published run

martVars == <<version, hourly, built, running, pending, live, read>>

FactRow  == [hour : Hour, key : Version, onHand : Int, estimated : BOOLEAN]
Position == [ending : Int, stockout : 0..HoursPerDay, moved : BOOLEAN]
Rollup   == [ending : Int, minimum : Int]

IsHourly(f) ==
  DOMAIN f \subseteq Product \X Hour /\ \A x \in DOMAIN f : f[x] \in Movement[x]

IsMarts(m) ==
  /\ m.fact \in [Product -> SUBSET FactRow]
  /\ DOMAIN m.position \subseteq Product \X Nat
  /\ \A x \in DOMAIN m.position : m.position[x] \in Position
  /\ DOMAIN m.rollup \subseteq Product \X Day \X Version
  /\ \A x \in DOMAIN m.rollup : m.rollup[x] \in Rollup

MartsTypeOK ==
  /\ version \in [Product -> Version \cup {NotPublished}]
  /\ IsHourly(hourly) /\ IsHourly(read)
  /\ built \subseteq {"fact", "position", "rollup"} /\ running \in BOOLEAN
  /\ IsMarts(pending) /\ IsMarts(live)

Empty == [fact |-> [p \in Product |-> {}], position |-> <<>>, rollup |-> <<>>]

MartsInit ==
  /\ version = [p \in Product |-> NotPublished]
  /\ hourly = <<>> /\ read = <<>>
  /\ built = {} /\ running = FALSE
  /\ pending = Empty /\ live = Empty

-------------------------------------------------------------------------------
(* fact_inventory_snapshot                                                 *)

OpeningQty(p) == IF p \in DOMAIN Opening THEN Opening[p] ELSE 0

(* The row of an hour, a zero one where nothing moved (any more).          *)
MovementIn(table, p, h) ==
  IF <<p, h>> \in DOMAIN table THEN table[<<p, h>>] ELSE NoMovement

(* with_running_balance *)
Balance(table, p, h) ==
  OpeningQty(p)
  + Total([g \in {x \in Hour : x <= h} |-> MovementIn(table, p, g).delta])

(* Rows that join a version live dim_product has. *)
Existing(p) == {r \in pending.fact[p] : r.key \in 1..version[p]}
HoursOf(p)  == {h \in Hour : <<p, h>> \in DOMAIN hourly} \cup {r.hour : r \in Existing(p)}

(* Mutant: the current version of the product, whatever the row had. *)
KeysOfCurrent(p, h) == {version[p]} \ {NotPublished}

(* coalesce(e.product_key, p.product_key), not null: a stored hour keeps   *)
(* its key; hours of a product that is not published are held back.        *)
KeysOf(p, h) ==
  LET stored == {r.key : r \in {e \in Existing(p) : e.hour = h}}
  IN  IF stored # {} THEN stored ELSE {version[p]} \ {NotPublished}

(* Mutant: only hours that moved are emitted. *)
ComputedMoved(p) ==
  UNION {{[hour |-> h, key |-> k, onHand |-> Balance(hourly, p, h),
           estimated |-> MovementIn(hourly, p, h).estimated] : k \in KeysOf(p, h)}
         : h \in {g \in Hour : <<p, g>> \in DOMAIN hourly}}

Computed(p) ==
  UNION {{[hour |-> h, key |-> k, onHand |-> Balance(hourly, p, h),
           estimated |-> MovementIn(hourly, p, h).estimated] : k \in KeysOf(p, h)}
         : h \in HoursOf(p)}

(* Rows that are new or differ from the stored ones replace what has their *)
(* unique key; the others stay.                                            *)
Upserted(p) ==
  LET new == Computed(p) \ Existing(p)
  IN  {r \in pending.fact[p] : ~\E n \in new : n.hour = r.hour /\ n.key = r.key} \cup new

BuildFact ==
  /\ running /\ built = {}
  /\ built' = {"fact"}
  /\ pending' = [pending EXCEPT !.fact = [p \in Product |-> Upserted(p)]]
  /\ UNCHANGED <<version, hourly, running, live, read>>

-------------------------------------------------------------------------------
(* inventory_position_daily                                                *)

Latest(rows) == CHOOSE r \in rows : \A q \in rows : q.hour <= r.hour

FactDays == UNION {{DayOf(r.hour) : r \in Existing(p)} : p \in Product}
Days     == IF FactDays = {} THEN {} ELSE Min(FactDays)..Max(FactDays)
Pairs    == {p \in Product : Existing(p) # {} \/ p \in DOMAIN Opening}

(* Mutant: a day without movement starts over from the opening count. *)
EndingNotCarried(p, d) ==
  LET rows == {r \in Existing(p) : DayOf(r.hour) = d}
  IN  IF rows = {} THEN OpeningQty(p) ELSE Latest(rows).onHand

(* The last day_end at or before the day, or the opening count. *)
Ending(p, d) ==
  LET rows == {r \in Existing(p) : DayOf(r.hour) <= d}
  IN  IF rows = {} THEN OpeningQty(p) ELSE Latest(rows).onHand

Starting(p, d) == IF d \in Days /\ d - 1 \in Days THEN Ending(p, d - 1) ELSE OpeningQty(p)

MovedOn(p, d) == {r \in Existing(p) : DayOf(r.hour) = d}

Segments(p, d) ==
  {[hour |-> 0, order |-> 0, qty |-> Starting(p, d)]}
  \cup {[hour |-> HourOfDay(r.hour), order |-> 1, qty |-> r.onHand] : r \in MovedOn(p, d)}

(* lead(segment_hour) - segment_hour *)
HoursHeld(s, segments) ==
  LET later == {t \in segments : t.hour > s.hour \/ (t.hour = s.hour /\ t.order > s.order)}
  IN  Min({t.hour : t \in later} \cup {HoursPerDay}) - s.hour

Stockout(p, d) ==
  LET segments == Segments(p, d)
  IN  Total([s \in {t \in segments : t.qty <= 0} |-> HoursHeld(s, segments)])

Upsert(old, new) ==
  [x \in DOMAIN old \cup DOMAIN new |-> IF x \in DOMAIN new THEN new[x] ELSE old[x]]

BuildPosition ==
  /\ running /\ "fact" \in built /\ "position" \notin built
  /\ built' = built \cup {"position"}
  /\ pending' = [pending EXCEPT !.position = Upsert(@,
       [x \in Pairs \X Days |-> [ending   |-> Ending(x[1], x[2]),
                                 stockout |-> Stockout(x[1], x[2]),
                                 moved    |-> MovedOn(x[1], x[2]) # {}]])]
  /\ UNCHANGED <<version, hourly, running, live, read>>

-------------------------------------------------------------------------------
(* inventory_daily_product_store                                           *)

Available(qty) == Max({qty, 0})

(* The rows of a product key on a day. *)
DayRows(marts, p, d, k) == {r \in marts.fact[p] : DayOf(r.hour) = d /\ r.key = k}

DailyRollup(p, d, k) ==
  LET rows == DayRows(pending, p, d, k)
  IN  [ending |-> Latest(rows).onHand, minimum |-> Min({Available(r.onHand) : r \in rows})]

BuildRollup ==
  /\ running /\ "fact" \in built /\ "rollup" \notin built
  /\ built' = built \cup {"rollup"}
  /\ pending' = [pending EXCEPT !.rollup = Upsert(@,
       [x \in {y \in Product \X Day \X Version : DayRows(pending, y[1], y[2], y[3]) # {}} |->
          DailyRollup(x[1], x[2], x[3])])]
  /\ UNCHANGED <<version, hourly, running, live, read>>

-------------------------------------------------------------------------------
(* The run, and the catalog DAG                                            *)

(* What int_inventory_hourly can hold. *)
HourlyTables ==
  UNION {{table \in [hours -> UNION {Movement[x] : x \in hours}] : IsHourly(table)}
         : hours \in SUBSET (Product \X Hour)}

(* dbt_staging_and_intermediate and wap_clone_live_to_pending. *)
StartRun(table) ==
  /\ ~running
  /\ running' = TRUE /\ hourly' = table
  /\ UNCHANGED <<version, built, pending, live, read>>

(* The next run drops and clones what this one built. *)
RunEnds == running' = FALSE /\ hourly' = <<>> /\ built' = {} /\ UNCHANGED version

Publish ==
  /\ built = {"fact", "position", "rollup"}
  /\ live' = pending /\ read' = hourly
  /\ RunEnds /\ UNCHANGED pending

RunFails ==
  /\ running
  /\ pending' = live
  /\ RunEnds /\ UNCHANGED <<live, read>>

(* dbt_mart_models is repeated from its first model, on what the failed    *)
(* attempt has left in pending.                                            *)
AttemptFails ==
  /\ running /\ built # {}
  /\ built' = {}
  /\ UNCHANGED <<version, hourly, running, pending, live, read>>

(* Mutant: versions numbered past the ones the catalog has. *)
CatalogPublishesUnbounded(p) ==
  /\ version[p] <= MaxVersion
  /\ version' = [version EXCEPT ![p] = @ + 1]
  /\ UNCHANGED <<hourly, built, running, pending, live, read>>

(* A first or a changed product (ProductVersions). *)
CatalogPublishes(p) ==
  /\ version[p] < MaxVersion
  /\ version' = [version EXCEPT ![p] = @ + 1]
  /\ UNCHANGED <<hourly, built, running, pending, live, read>>

MartsNext ==
  \/ \E table \in HourlyTables : StartRun(table)
  \/ BuildFact \/ BuildPosition \/ BuildRollup
  \/ Publish \/ AttemptFails \/ RunFails
  \/ \E p \in Product : CatalogPublishes(p)

MartsSpec == MartsInit /\ [][MartsNext]_martVars

-------------------------------------------------------------------------------
(* serving.inventory_current_position: a view over live                    *)

LiveHours == UNION {{r.hour : r \in live.fact[p]} : p \in Product}

(* Mutant: the newest hour of the pair itself. *)
AfterOwnHours(p) == {h \in Hour : \A r \in live.fact[p] : r.hour < h}

(* published_through: hours after the newest one of the whole fact. *)
AfterPublished(p) == {h \in Hour : \A g \in LiveHours : g < h}

(* current_on_hand_qty over the Flink hours in speed. *)
CurrentOnHand(p, speed) ==
  (IF live.fact[p] = {} THEN OpeningQty(p) ELSE Latest(live.fact[p]).onHand)
  + Total([h \in AfterPublished(p) |-> speed[h]])

-------------------------------------------------------------------------------
(* Properties                                                              *)

(* Every balance is the opening count plus all movement the last published *)
(* run read up to that hour, and every hour it read is there, however the  *)
(* hours were rewritten, removed or held back before: "so it cannot keep a *)
(* stale number" (fact_inventory_snapshot.sql).                            *)
BalancesFollowSource ==
  \A p \in Product :
    /\ \A r \in live.fact[p] :
         /\ r.onHand = Balance(read, p, r.hour)
         /\ r.estimated = MovementIn(read, p, r.hour).estimated
    /\ live.fact[p] # {} =>
         \A h \in Hour : <<p, h>> \in DOMAIN read => \E r \in live.fact[p] : r.hour = h

(* "A rewritten hour keeps the product_key already stored for it", so no   *)
(* hour is in the fact twice, whatever versions the catalog published.     *)
OneRowPerHour ==
  \A p \in Product : \A r, q \in live.fact[p] : r.hour = q.hour => r = q

(* The balance a pair has at the end of an hour.                           *)
HeldAt(p, h) ==
  LET rows == {r \in live.fact[p] : r.hour <= h}
  IN  IF rows = {} THEN OpeningQty(p) ELSE Latest(rows).onHand

(* Positions are dense and count every hour a balance at or below zero is  *)
(* held, on days without movement too; the rollup agrees with the fact.    *)
RollupsFollowFact ==
  LET days == {DayOf(h) : h \in LiveHours}
      pairs == {p \in Product : live.fact[p] # {} \/ p \in DOMAIN Opening}
      grid == IF days = {} THEN {} ELSE pairs \X (Min(days)..Max(days))
  IN  /\ DOMAIN live.position = grid
      /\ \A x \in grid :
           LET hours == (HoursPerDay * x[2])..(HoursPerDay * (x[2] + 1) - 1) IN
           /\ live.position[x].ending = HeldAt(x[1], Max(hours))
           /\ live.position[x].stockout = Cardinality({h \in hours : HeldAt(x[1], h) <= 0})
           /\ live.position[x].moved <=> \E r \in live.fact[x[1]] : r.hour \in hours
      /\ \A p \in Product : \A r \in live.fact[p] :
           LET rows == DayRows(live, p, DayOf(r.hour), r.key)
               row  == live.rollup[<<p, DayOf(r.hour), r.key>>]
           IN  /\ row.minimum <= Available(r.onHand)
               /\ (\A q \in rows : q.hour <= r.hour) => row.ending = r.onHand

(* The view counts every movement of a published pair once: from the last  *)
(* published run up to the newest hour of the fact, from Flink after it.   *)
CurrentCountsOnce ==
  \A p \in Product : live.fact[p] # {} =>
    \A speed \in [Hour -> {0, 1}] :
      CurrentOnHand(p, speed) =
        OpeningQty(p)
        + Total([h \in Hour |-> IF \E g \in LiveHours : h <= g
                                THEN MovementIn(read, p, h).delta ELSE speed[h]])
===============================================================================
