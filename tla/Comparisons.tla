---------------------------- MODULE Comparisons ----------------------------
(* The comparisons of a predicate: _COMPARATORS of queryx/execution/       *)
(* operators.py, on integers; = and != compare any values.                 *)
EXTENDS Integers

RangeOps == {"<", ">", "<=", ">="}
Op == RangeOps \cup {"=", "!="}

Compare(x, op, y) ==
  CASE op = "=" -> x = y
    [] op = "!=" -> x # y
    [] op = "<" -> x < y
    [] op = ">" -> x > y
    [] op = "<=" -> x <= y
    [] op = ">=" -> x >= y
=============================================================================
