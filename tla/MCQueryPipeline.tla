-------------------------- MODULE MCQueryPipeline --------------------------
(* Values for TLC's runs of QueryPipeline: a table T with columns A and B, *)
(* which may be joined with a table U with columns A and C or with itself, *)
(* and a table V of which the column N is TEXT.                            *)
EXTENDS QueryPipeline

CONSTANTS A, B, C, N, T, U, V, X, Blank, S

MCColumns == T :> <<A, B>> @@ U :> <<A, C>> @@ V :> <<A, N>>
MCTypes == T :> <<"INT", "INT">> @@ U :> <<"INT", "INT">> @@ V :> <<"INT", "TEXT">>
MCStrings == <<Blank, S>>
MCKeys == 0 .. 1

a == Col(<<A>>)
b == Col(<<B>>)
name == Col(<<N>>)
TA == Col(<<T, A>>)
Is(x, op, y) == Comparison(x, op, y)
Both(x, y) == Binary("and", x, y)
Either(x, y) == Binary("or", x, y)
Asc(key) == [key |-> key, descending |-> FALSE]
Desc(key) == [key |-> key, descending |-> TRUE]
CountAll == Agg("COUNT", Star)

From == [kind |-> "Select", table |-> T, table_alias |-> None, join |-> None,
         projections |-> <<Star>>, distinct |-> FALSE,
         where |-> None, group_by |-> << >>, having |-> None,
         order_by |-> << >>, limit |-> None]

Somewhere == {None, Both(Is(a, ">", Lit(0)), Is(b, "=", Lit(1)))}
MCPlain ==
  {[From EXCEPT !.projections = p, !.distinct = d, !.where = w, !.order_by = o, !.limit = l] :
     p \in {<<Star>>, <<b>>}, d \in BOOLEAN, w \in Somewhere,
     o \in {<< >>, <<Desc(<<A>>)>>, <<Asc(<<A>>), Desc(<<B>>)>>}, l \in {None, 0, 2}}

(* Predicates with two and three operators in every arrangement.           *)
Atoms == {Is(a, "=", Lit(1)), b}
Nested(exprs) == {Not(x) : x \in exprs}
  \cup UNION {{Both(x, y), Either(x, y)} : x \in exprs, y \in exprs}
MCPredicates == Nested(Atoms) \cup Nested(Nested({a, b})) \cup
  {Is(Is(a, "=", Lit(1)), "!=", b), Is(Lit(-1), "<", a), Is(Not(a), "<=", Either(a, b)), Lit(0)}
MCNested == {[From EXCEPT !.where = w] : w \in MCPredicates}

MCGrouped ==
  {[From EXCEPT !.projections = p, !.group_by = <<A>>, !.having = h, !.order_by = o,
                !.distinct = d, !.limit = l] :
     p \in {<<TA, CountAll>>, <<Agg("MIN", b)>>},
     h \in {None, Is(CountAll, ">", Lit(1)), Not(Is(Agg("SUM", b), "=", CountAll)),
            Both(Is(a, "=", Lit(0)), Is(Agg("SUM", Col(<<T, B>>)), ">", Lit(0))),
            Is(TA, "=", Lit(1))},
     o \in {<< >>, <<Desc(<<A>>)>>}, d \in BOOLEAN, l \in {None, 1}}

MCScalar ==
  {[From EXCEPT !.projections = p, !.where = w, !.limit = l] :
     p \in {<<CountAll, Agg("MAX", b)>>, <<Agg("SUM", a), Agg("AVG", b)>>,
            <<CountAll, a>>},
     w \in Somewhere, l \in {None, 0}}

MCJoined ==
  {[q EXCEPT !.join = [table |-> U, alias |-> None, on |-> on]] :
     on \in {Is(TA, "=", Col(<<U, A>>)), Is(Col(<<U, C>>), "=", Col(<<T, B>>)),
             Is(TA, "<", Col(<<C>>)), Is(a, "=", Col(<<C>>))},
     q \in {From,
            [From EXCEPT !.where = Is(a, ">", Lit(0))],
            [From EXCEPT !.where = Is(b, ">", Lit(0)), !.limit = 1],
            [From EXCEPT !.projections = <<b, Col(<<U, A>>)>>,
                         !.order_by = <<Desc(<<C>>)>>, !.limit = 1]}}

MCSelfJoined ==
  {[From EXCEPT !.table_alias = alias,
                !.join = [table |-> T, alias |-> X, on |-> Is(Col(<<X, A>>), "=", Col(<<U, B>>))]] :
     alias \in {None, U, X}}

(* With numbers and strings: well-typed, equal at most, and mistaken.      *)
TypedWhere ==
  {name, Not(name), Is(name, "=", Lit(S)), Is(name, ">=", Lit(S)), Is(name, "!=", Lit(0)),
   Either(a, Is(Is(name, "=", Lit(Blank)), "<", Lit(1))),
   Is(name, ">", Lit(0)), Is(Lit(Blank), "<=", a),
   Either(a, Is(name, "<", a)), Both(Is(a, "=", Lit(1)), Is(name, "<", Lit(0))),
   Is(a, "=", Lit(S)), Is(a, "!=", Lit(1)), Both(Is(Lit(0), "!=", Col(<<V, A>>)), name)}
MCTyped ==
  LET Plain == [From EXCEPT !.table = V]
      ByName == [Plain EXCEPT !.group_by = <<N>>, !.projections = <<name, CountAll>>]
  IN  {[Plain EXCEPT !.where = w] : w \in TypedWhere}
      \cup {[Plain EXCEPT !.projections = p] :
              p \in {<<Agg("MIN", name), Agg("MAX", name)>>, <<CountAll, Agg("SUM", name)>>}}
      \cup {[Plain EXCEPT !.projections = <<name>>, !.distinct = TRUE,
                           !.order_by = <<Desc(<<N>>), Asc(<<A>>)>>]}
      \cup {[ByName EXCEPT !.having = h] :
              h \in {Is(Agg("MIN", name), "<", Lit(S)), Is(name, ">", CountAll), name,
                     Is(Agg("AVG", Col(<<V, N>>)), "=", Lit(1))}}
      \cup {[Plain EXCEPT !.join = [table |-> U, alias |-> None, on |-> on]] :
              on \in {Is(name, "=", Col(<<U, A>>)), Is(Col(<<V, N>>), "=", Col(<<U, A>>)),
                      Is(Col(<<C>>), "<", name)}}
      \cup {[From EXCEPT !.join = [table |-> V, alias |-> None, on |-> on]] :
              on \in {Is(TA, "=", Col(<<V, N>>)), Is(name, ">", Lit(Blank))}}

(* What the validation lets pass, and a few more that it does not.         *)
MCMistaken ==
  {[From EXCEPT !.where = Is(TA, "=", Lit(1))],
   [From EXCEPT !.where = Both(Is(Lit(1), ">", TA), Is(b, "<=", Lit(0)))],
   [From EXCEPT !.where = Is(a, "!=", Lit(1)), !.projections = <<a, CountAll>>],
   [From EXCEPT !.where = Either(b, Not(TA))],
   [From EXCEPT !.where = Both(b, Is(CountAll, "=", Lit(1)))],
   [From EXCEPT !.join = [table |-> U, alias |-> None, on |-> Is(CountAll, "=", Lit(1))]],
   [From EXCEPT !.where = Is(Col(<<C>>), "=", Lit(1))],
   [From EXCEPT !.table = X],
   [From EXCEPT !.order_by = <<Asc(<<T, A>>)>>],
   [From EXCEPT !.projections = <<Star, a>>],
   [From EXCEPT !.projections = <<b>>, !.group_by = <<A>>],
   [From EXCEPT !.projections = <<CountAll>>, !.distinct = TRUE]}

(* The statements that are not run here.  Without 0, which is also -0.     *)
MCWhere == {None, Both(Is(a, ">", Lit(2)), Is(b, "=", Lit(1)))}
MCOthers ==
  {[kind |-> "Explain", query |-> q] : q \in {From, [From EXCEPT !.table = X, !.where = Not(a)]}}
  \cup {[kind |-> "Insert", table |-> T, columns |-> c, rows |-> r] :
          c \in {<< >>, <<B, A>>}, r \in {<< <<Lit(-1), Lit(S)>> >>, << <<Lit(1)>>, <<Lit(2)>> >>}}
  \cup {[kind |-> "Update", table |-> T, where |-> w, assignments |-> s] :
          w \in MCWhere, s \in {<<[column |-> A, value |-> Lit(-1)]>>,
                                  <<[column |-> A, value |-> Lit(S)],
                                    [column |-> B, value |-> Lit(2)]>>}}
  \cup {[kind |-> "Delete", table |-> T, where |-> w] : w \in MCWhere}
  \cup {[kind |-> "CreateTable", table |-> T,
         columns |-> <<[name |-> A, type |-> "INT"], [name |-> B, type |-> "TEXT"]>>],
        [kind |-> "CreateIndex", name |-> X, table |-> T, column |-> A],
        [kind |-> "DropTable", table |-> T], [kind |-> "DropIndex", name |-> X]}

MCStatements == MCPlain \cup MCNested \cup MCGrouped \cup MCScalar \cup MCJoined
                \cup MCSelfJoined \cup MCTyped \cup MCMistaken \cup MCOthers

(* A query with all its clauses.                                           *)
MCLong ==
  [From EXCEPT !.table_alias = U, !.distinct = TRUE, !.where = Either(Both(a, b), Not(b)),
               !.projections = <<TA, CountAll>>,
               !.group_by = <<A, B>>, !.having = Is(CountAll, ">", Lit(-1)),
               !.order_by = <<Desc(<<T, A>>), Asc(<<B>>)>>, !.limit = 1]

(* Texts that differ from one of a statement in one place: a token is      *)
(* missing, there is one more, or two are exchanged.                       *)
Extra == {Name(A)[1], Token("NUMBER", 1)} \cup
         {Word(t) : t \in {"(", ")", ",", ".", "=", "-", "*", "NOT", "AND", ";", "WHERE", "BY", "ASC"}}
Edited(text) ==
  LET inside == 1 .. Len(text) - 1
  IN  {RemoveAt(text, n) : n \in inside}
      \cup {InsertAt(text, n, t) : n \in inside \cup {Len(text)}, t \in Extra}
      \cup {ReplaceAt(ReplaceAt(text, n, text[n + 1]), n + 1, text[n]) : n \in inside \ {Len(text) - 1}}

(* WHERE, with any few tokens behind it.                                   *)
MCLoose == [1 .. 5 -> {Name(A)[1]} \cup {Word(t) : t \in {"=", "AND", "OR", "NOT", "(", ")"}}]

MCTexts ==
  UNION {Edited(Written(s, FALSE)) : s \in MCOthers \cup {MCLong}}
  \cup {Words(<<"SELECT", "*", "FROM">>) \o Name(T) \o Words(<<"WHERE">>) \o text \o Words(<<"EOF">>) :
          text \in MCLoose}
=============================================================================
