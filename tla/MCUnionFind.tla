----------------------------- MODULE MCUnionFind -----------------------------
(* Instances of UnionFind for TLC: clients 1 to 3, customers 4 and 5,      *)
(* loyalty ids 6 and 7; the edges build_edges makes of them.               *)
EXTENDS UnionFind

MCPair == ({1, 2, 3} \X {4, 5}) \cup {<<6, 4>>, <<7, 5>>}
==============================================================================
