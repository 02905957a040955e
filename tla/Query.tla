-------------------------------- MODULE Query --------------------------------
(***************************************************************************)
(* A select of the language (ast.rs) and its plan (query.rs): which join    *)
(* hangs off which.  Node 0 is the driving relation, node i the i-th join.  *)
(*                                                                          *)
(* A query is [table, binder, joins, where, groupby, shape, orderby, bound],*)
(* and tree once it is planned;                                             *)
(* a join [kind, table, binder, on, where, as, name, under, orderby, limit].*)
(* Every table has the primary key "id" and no other unique column.         *)
(***************************************************************************)
EXTENDS Naturals, Sequences, FiniteSets, SequencesExt

CONSTANT Null

NoName == ""
NoLimit == 99  \* more than any table holds

\* Expressions of a clause.
Col(b, c)       == [op |-> "col", of |-> b, col |-> c]
Value(v)        == [op |-> "value", value |-> v]
True            == [op |-> "true"]
Cmp(rel, l, r)  == [op |-> "cmp", rel |-> rel, l |-> l, r |-> r]
IfGiven(l, v)   == [op |-> "==?", l |-> l, value |-> v]
IsNull(l)       == [op |-> "is null", l |-> l]
OneOf(l, vs)    == [op |-> "in", l |-> l, values |-> vs]
Both(p, q)      == [op |-> "and", p |-> p, q |-> q]
Either(p, q)    == [op |-> "or", p |-> p, q |-> q]
No(p)           == [op |-> "not", p |-> p]
Exists(t, b, p) == [op |-> "exists", table |-> t, binder |-> b, where |-> p]

\* What a query is bounded by.
Unbounded    == [by |-> "nothing"]
Limit(n)     == [by |-> "limit", size |-> n]
First        == [by |-> "first", size |-> 1]
Page(n, max) == [by |-> "page", size |-> n, max |-> max]

\* The columns an `on` names through their binding.
RECURSIVE References(_)
References(e) ==
    CASE e.op = "col" -> {e}
      [] e.op = "cmp" -> References(e.l) \cup References(e.r)
      [] e.op \in {"==?", "is null", "in"} -> References(e.l)
      [] e.op \in {"and", "or"} -> References(e.p) \cup References(e.q)
      [] e.op = "not" -> References(e.p)
      [] OTHER -> {}
Heads(cols) == {c.of : c \in cols}
------------------------------------------------------------------------------
Joins(q, as) == {i \in DOMAIN q.joins : q.joins[i].as = as}
Binder(q, i) == IF i = 0 THEN q.binder ELSE q.joins[i].binder

ByAlias(q, nodes, n) == {i \in nodes : Binder(q, i) = n}
ByField(q, nodes, n) == {i \in nodes \ {0} : q.joins[i].name = n}
\* An alias wins over the field of the same name.
Resolve(q, nodes, n) ==
    IF ByAlias(q, nodes, n) # {} THEN ByAlias(q, nodes, n) ELSE ByField(q, nodes, n)

\* Where a join attaches, of the nodes before it; {} is E0510 or E0511.
Parent(q, nodes, i) ==
    LET join == q.joins[i]
        named == {n \in Heads(References(join.on)) \ {join.binder} : Resolve(q, nodes, n) # {}} IN
    IF join.under # NoName THEN Resolve(q, nodes, join.under)
    ELSE IF named = {} THEN {0}
    ELSE IF Cardinality(named) = 1 THEN UNION {ByAlias(q, nodes, n) : n \in named}
    ELSE {}

Before(q, i) == {0} \cup {k \in DOMAIN q.joins \ Joins(q, "group") : k < i}
Plan(q) == [tree |-> [i \in DOMAIN q.joins \ Joins(q, "group") |-> Parent(q, Before(q, i), i)]] @@ q
Children(q, i) == SelectSeq([k \in DOMAIN q.joins |-> k], LAMBDA k : k \in DOMAIN q.tree /\ q.tree[k] = {i})

Planned(q) ==
    /\ \A i \in DOMAIN q.tree : q.tree[i] # {}
    /\ \A i \in Joins(q, "many") : q.joins[i].orderby # <<>>
    /\ Joins(q, "many") = {} \/ Joins(q, "group") = {}

\* Some node under i is a collection.
HasMany(q) == Joins(q, "many") # {}
------------------------------------------------------------------------------
(* What else check.rs asks of a query. *)

Counts(q) == \E i \in DOMAIN q.shape : q.shape[i].is = "count"

E0212(q) == \E i \in DOMAIN q.joins : Binder(q, i) \in {Binder(q, k) : k \in 0..(i - 1)}
E0530(q) == Counts(q) /\ q.groupby = <<>> /\
            (q.joins # <<>> \/ \E i \in DOMAIN q.shape : q.shape[i].is # "count")
E0531(q) ==
    Counts(q) /\ q.groupby # <<>> /\
    \E i \in DOMAIN q.shape :
        /\ q.shape[i].is # "count"
        /\ q.shape[i].is = "nested" \/ q.shape[i].col \notin {q.groupby[k].col : k \in DOMAIN q.groupby}
E0550(q) == q.bound.by = "page" /\ q.orderby = <<>>

RECURSIVE Equals(_, _)
Equals(e, b) ==
    CASE e.op = "and" -> Equals(e.p, b) \cup Equals(e.q, b)
      [] e.op = "cmp" -> IF e.rel = "=" /\ e.l.of = b THEN {e.l.col} ELSE {}
      [] OTHER -> {}
WholeTable(q) == Counts(q) /\ q.groupby = <<>> /\ q.joins = <<>>
E0520(q) == q.bound.by = "first" /\ q.orderby = <<>> /\ ~WholeTable(q) /\ "id" \notin Equals(q.where, q.binder)

W0502(q) == Cardinality(Joins(q, "group")) > 1 /\ Counts(q)
=============================================================================
