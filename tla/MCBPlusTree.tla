---------------------------- MODULE MCBPlusTree ----------------------------
(* Values for TLC's runs of BPlusTree.                                     *)
EXTENDS BPlusTree

CONSTANTS r, s

MCKeys == 1 .. 3
MCRowIds == {r, s}
OneRowId == {r}

(* What the last delete returned influences nothing that comes after; the  *)
(* properties of a step still see it.                                      *)
View == <<nodes, cand, root, meta, metas, touched, grown, torn, kept>>
=============================================================================
