-------------------------- MODULE MCMetadataObserver --------------------------
(* A DAG that publishes and the quality DAG, which seed the catalog         *)
(* at the same time; two objects, so that a YAML can drop one.              *)
EXTENDS MetadataObserver, TLC

CONSTANTS publishing, quality, o1, o2

Symmetry == Permutations({o1, o2})
===============================================================================
