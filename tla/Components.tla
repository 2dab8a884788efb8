------------------------------ MODULE Components ------------------------------
(***************************************************************************)
(* What connected components are, for the two programs that compute them:  *)
(* the union-find of graph_logic.py (UnionFind) and GraphFrames in the     *)
(* Spark job (CustomerMarts).                                              *)
(***************************************************************************)

(* Two nodes of V are connected by the edges E when no set of nodes that   *)
(* the edges never leave or enter holds one without the other.             *)
Connected(V, E, m, n) ==
  \A S \in SUBSET V :
    (\A e \in E : e[1] \in S <=> e[2] \in S) => (m \in S <=> n \in S)
===============================================================================
