---------------------------- MODULE MCHashIndex ----------------------------
(* Values for TLC's runs of HashIndex: two keys share a bucket.            *)
EXTENDS HashIndex

CONSTANTS r, s

MCKeys == 1 .. 3
MCRowIds == {r, s}
MCHash == [key \in MCKeys |-> (7 * key) % 5]

(* What the last delete returned influences nothing that comes after; the  *)
(* properties of a step still see it.                                      *)
View == <<pages, cand, num_buckets, meta, touched, grown, hurt>>
=============================================================================
