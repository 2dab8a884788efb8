------------------------------ MODULE AtomicGold ------------------------------
(***************************************************************************)
(* What Write-Audit-Publish promises the readers of live Gold (ADR-009):   *)
(* each DAG-owned set of tables moves forward as one unit, to a newer run, *)
(* and never loses the rows of a run it already showed.                    *)
(*                                                                         *)
(* gold[t] is the set of run numbers whose rows a reader of table t sees.  *)
(***************************************************************************)
EXTENDS Naturals

CONSTANTS Dag,      \* the publishing DAGs
          Table,    \* every Gold table
          Scope,    \* Scope[d]: the tables DAG d owns
          RunNumber \* the numbers a DAG's runs can have

VARIABLE gold

Init == gold = [t \in Table |-> {}]

(* DAG d makes run r visible in every table it owns, in one step. *)
Publish(d, r) ==
  /\ \A t \in Scope[d] : \A q \in gold[t] : q < r
  /\ gold' = [t \in Table |-> IF t \in Scope[d] THEN gold[t] \cup {r}
                                               ELSE gold[t]]

Next == \E d \in Dag, r \in RunNumber : Publish(d, r)

Spec == Init /\ [][Next]_gold
===============================================================================
