----------------------------- MODULE MCHeapFile -----------------------------
(* Values for TLC's runs of HeapFile.                                      *)
EXTENDS HeapFile

CONSTANTS a, b

Filled(x, n) == [i \in 1 .. n |-> x]

(* Records of two contents, one shorter than a slot entry, the largest a   *)
(* page can take, and two that are refused.                                *)
MCBytes == {a, b}
MCRecords ==
  {Filled(a, 3), Filled(b, 4), Filled(b, PageSize - 8), << >>, Filled(b, PageSize - 7)}
=============================================================================
