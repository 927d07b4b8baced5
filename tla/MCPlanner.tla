----------------------------- MODULE MCPlanner -----------------------------
(* Values for TLC's runs of Planner.                                       *)
EXTENDS Planner

CONSTANTS a, b, auto_a, auto_b, row1, row2

MCColumns == {a, b}
MCKeys == 1 .. 2
MCRowIds == {row1, row2}
MCNames == {auto_a, auto_b}
MCAutoName == [c \in MCColumns |-> IF c = a THEN auto_a ELSE auto_b]

(* Nothing tells the two rows apart, nor the two columns with their names. *)
Swap(x, y) == x :> y @@ y :> x
Same(x, y) == x :> x @@ y :> y
MCSymmetry ==
  {p @@ q : p \in Permutations(MCRowIds),
            q \in {Same(a, b) @@ Same(auto_a, auto_b), Swap(a, b) @@ Swap(auto_a, auto_b)}}

Compared(columns, ops, keys) == [left : columns, op : ops, right : keys]
Turned(columns, ops, keys) == [left : keys, op : ops, right : columns]

(* No WHERE; one comparison, written either way; two of them; and one with *)
(* an OR or with a comparison of two columns.                              *)
Single == Compared(MCColumns, Op, MCKeys) \cup Turned(MCColumns, Op, {1})
Driver == Compared(MCColumns, {"=", ">"}, {1})
Either == UNION {Compared({c}, {"="}, {2}) : c \in MCColumns}
Equal == UNION {Compared({c}, {"="}, MCColumns \ {c}) : c \in MCColumns}
MCWhere ==
  {<< >>} \cup {<<{c}>> : c \in Single}
  \cup {<<{c}, {d}>> : c \in Driver, d \in Driver}
  \cup {<<{c}, e>> : c \in Driver, e \in {Either} \cup {{f} : f \in Equal}}
=============================================================================
