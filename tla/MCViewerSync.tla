----------------------------- MODULE MCViewerSync -----------------------------
(* ViewerSync on a small instance.                                           *)
EXTENDS ViewerSync, TLC

CONSTANT MaxUnderWay    \* bound: requests, signals and catch-ups under way at a time

UnderWay ==
    Cardinality({p \in PReq : preq[p].at # "idle"})
    + Cardinality({v \in Viewers : signal[v] # NoItem})
    + Cardinality({v \in Viewers : stream[v].at \in {"subscribed", "catchup"}})

FewUnderWay == UnderWay <= MaxUnderWay

Symmetry == Permutations(Items) \cup Permutations(Viewers) \cup Permutations(PReq)
===============================================================================
