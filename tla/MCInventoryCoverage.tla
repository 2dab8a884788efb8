-------------------------- MODULE MCInventoryCoverage --------------------------
EXTENDS InventoryCoverage, TLC

CONSTANTS p1, p2, e1, e2, e3

Symmetry == Permutations({p1, p2}) \cup Permutations(Event)
===============================================================================
