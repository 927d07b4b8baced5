----------------------------- MODULE MCDatabase -----------------------------
(* Values for TLC's runs of Database.                                      *)
EXTENDS Database, TLC

CONSTANTS table, ix, a, b

OneIndex == {ix}
None == {}
MCFollowed == {"failed", "leftover"}
MCKeys == {a, b}

(* Keys are only compared for equality, and every property treats them     *)
(* alike.                                                                  *)
MCSymmetry == Permutations(MCKeys)
=============================================================================
