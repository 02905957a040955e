------------------------------- MODULE QuerySql -------------------------------
(***************************************************************************)
(* The SQL a query lowers to (query_sql.rs), and what Postgres answers.     *)
(*                                                                          *)
(* A FROM item is [kind, table, alias, on, item, order, limit, from]: the   *)
(* last four of a lateral alone.  An alias is its binding's name (the       *)
(* compiler numbers them one to one).  In a `page` CTE the driving binding  *)
(* names the base table, which here is the driving table: no views.         *)
(***************************************************************************)
EXTENDS Query, Functions

\* The heads `names` collects: not out of `in` and not out of `exists`.
RECURSIVE Names(_)
Names(e) ==
    CASE e.op = "col" -> {e}
      [] e.op = "cmp" -> Names(e.l) \cup Names(e.r)
      [] e.op \in {"==?", "is null"} -> Names(e.l)
      [] e.op \in {"and", "or"} -> Names(e.p) \cup Names(e.q)
      [] e.op = "not" -> Names(e.p)
      [] OTHER -> {}

\* `org.name` of the field an `as one` produces is a column of its binding.
Via(q, c) ==
    LET ones == {i \in Joins(q, "one") : q.joins[i].name = c.of} IN
    IF ones = {} THEN c ELSE Col(Binder(q, CHOOSE i \in ones : TRUE), c.col)
Keys(q, keys) == [i \in DOMAIN keys |-> [keys[i] EXCEPT !.col = Via(q, @)]]
RECURSIVE Lowered(_, _)
Lowered(q, e) ==
    CASE e.op = "col" -> Via(q, e)
      [] e.op = "cmp" -> Cmp(e.rel, Lowered(q, e.l), Lowered(q, e.r))
      [] e.op \in {"==?", "is null", "in"} -> [e EXCEPT !.l = Lowered(q, @)]
      [] e.op \in {"and", "or"} -> [e EXCEPT !.p = Lowered(q, @), !.q = Lowered(q, @)]
      [] e.op = "not" -> No(Lowered(q, e.p))
      [] OTHER -> e
------------------------------------------------------------------------------
(* The tree. *)

Nest(q, i, name) ==
    LET at == SelectSeq(Children(q, i), LAMBDA k : q.joins[k].name = name) IN
    IF at = <<>> THEN 0 ELSE Head(at)

\* Every nested shape is a join of the node it stands in.
RECURSIVE Nests(_, _, _)
Nests(q, i, shape) ==
    \A n \in DOMAIN shape : shape[n].is = "nested" =>
        Nest(q, i, shape[n].as) # 0 /\ Nests(q, Nest(q, i, shape[n].as), shape[n].shape)

Joined(q, i) ==
    LET join == q.joins[i] IN
    [kind |-> join.kind, table |-> join.table, alias |-> join.binder,
     on |-> Lowered(q, Both(join.on, join.where))]

\* A node's JSON object, and the FROM items its nested fields need.
RECURSIVE Item(_, _, _), Emit(_, _, _)
Item(q, i, shape) ==
    [n \in DOMAIN shape |->
        CASE shape[n].is = "column" -> [as |-> shape[n].as, is |-> "value", e |-> Col(Binder(q, i), shape[n].col)]
          [] shape[n].is = "count" -> [as |-> shape[n].as, is |-> "count", distinct |-> shape[n].distinct,
                                       e |-> shape[n].e, where |-> Lowered(q, shape[n].where)]
          [] shape[n].is = "nested" ->
                LET k == Nest(q, i, shape[n].as) IN
                IF q.joins[k].as = "many" THEN [as |-> shape[n].as, is |-> "lateral", of |-> Binder(q, k)]
                ELSE [as |-> shape[n].as, is |-> "object", guard |-> q.joins[k].kind = "left",
                      of |-> Binder(q, k), item |-> Item(q, k, shape[n].shape)]]
Emit(q, i, shape) ==
    FlattenSeq([n \in DOMAIN shape |->
        IF shape[n].is # "nested" THEN <<>>
        ELSE LET k == Nest(q, i, shape[n].as)
                 inner == Emit(q, k, shape[n].shape) IN
             IF q.joins[k].as = "one" THEN <<Joined(q, k)>> \o inner
             ELSE <<Joined(q, k) @@
                    [lateral |-> TRUE, from |-> inner, item |-> Item(q, k, shape[n].shape),
                     order |-> Keys(q, q.joins[k].orderby), limit |-> q.joins[k].limit]>>])

\* Joins of one row that are not projected and that a clause names.
Used(q) == Heads(Names(q.where)
                 \cup UNION {Names(q.orderby[n].col) : n \in DOMAIN q.orderby}
                 \cup {q.groupby[n] : n \in DOMAIN q.groupby})
RECURSIVE Mentioned(_, _, _), Recovered(_, _, _, _)
Mentioned(q, i, used) ==
    Binder(q, i) \in used \/ \E n \in DOMAIN Children(q, i) : Mentioned(q, Children(q, i)[n], used)
\* Mutant: what is not projected is not joined.
RecoveredNever(q, i, shape, used) == <<>>
Recovered(q, i, shape, used) ==
    FlattenSeq([n \in DOMAIN Children(q, i) |->
        LET k == Children(q, i)[n]
            at == SelectSeq(shape, LAMBDA f : f.is = "nested" /\ f.as = q.joins[k].name) IN
        IF q.joins[k].as # "one" THEN <<>>
        ELSE IF at # <<>> THEN Recovered(q, k, Head(at).shape, used)
        ELSE IF Mentioned(q, k, used) THEN <<Joined(q, k)>> \o Recovered(q, k, <<>>, used)
        ELSE <<>>])
Groups(q) ==
    LET groups == SelectSeq([i \in DOMAIN q.joins |-> i], LAMBDA i : i \in Joins(q, "group")) IN
    [n \in DOMAIN groups |-> Joined(q, groups[n])]
------------------------------------------------------------------------------
(* Bounds. *)

Asc(c) == [col |-> c, desc |-> FALSE, nulls |-> "default"]

\* The order of a page is total: the key comes last.
PageOrder(q) ==
    IF \E n \in DOMAIN q.orderby : q.orderby[n].col.col = "id" THEN q.orderby
    ELSE Append(q.orderby, Asc(Col(q.binder, "id")))

\* A size below one is one, and none is above the maximum.
PageBound(bound) ==
    LET n == IF bound.size < 1 THEN 1 ELSE bound.size IN
    IF n > bound.max THEN bound.max ELSE n

Bounded(q) == q.bound.by \in {"limit", "page"} \/ (q.bound.by = "first" /\ q.orderby # <<>>)
TwoStage(q) == HasMany(q) /\ Bounded(q)
Fetched(q) ==
    CASE q.bound.by = "nothing" -> NoLimit
      [] q.bound.by = "page" -> PageBound(q.bound) + 1
      [] OTHER -> q.bound.size

\* Every name of the where and of the order is a column of the driving table.
E0542(q) ==
    TwoStage(q) /\
    Heads(Names(q.where) \cup {q.orderby[n].col : n \in DOMAIN q.orderby}) \ {q.binder} # {}

Accepts(q) ==
    /\ Planned(q) /\ Nests(q, 0, q.shape)
    /\ ~(E0212(q) \/ E0520(q) \/ E0530(q) \/ E0531(q) \/ E0542(q) \/ E0550(q))

\* The whole statement.  The CTE, where there is one (two), holds the filter and
\* the bound, and the rest is joined to its keys.
Compile(q) ==
    [table |-> q.table, binder |-> q.binder,
     from |-> Emit(q, 0, q.shape) \o Recovered(q, 0, q.shape, Used(q)) \o Groups(q),
     two |-> TwoStage(q), keyset |-> q.bound.by = "page",
     where |-> Lowered(q, q.where), order |-> Keys(q, q.orderby), limit |-> Fetched(q),
     total |-> Keys(q, PageOrder(q)), counts |-> Counts(q), groupby |-> q.groupby,
     item |-> Item(q, 0, q.shape)]
------------------------------------------------------------------------------
(* Postgres. *)

\* An alias stands for a row, for no row, or, once it is aggregated, for an array.
Missing == Null
Cell(env, c) == IF env[c.of] = Missing THEN Null ELSE env[c.of][c.col]
Eval(env, e) == IF e.op = "col" THEN Cell(env, e) ELSE e.value

\* Three truth values: 0, 1 for unknown, 2.
Truth(b) == IF b THEN 2 ELSE 0
Lower(a, b) == IF a < b THEN a ELSE b
Higher(a, b) == IF a < b THEN b ELSE a
Related(rel, a, b) ==
    IF a = Null \/ b = Null THEN 1
    ELSE Truth(CASE rel = "=" -> a = b [] rel = "<>" -> a # b [] rel = "<" -> a < b [] rel = ">" -> a > b)

RECURSIVE Holds(_, _, _)
Holds(db, env, e) ==
    CASE e.op = "true" -> 2
      [] e.op = "cmp" -> Related(e.rel, Eval(env, e.l), Eval(env, e.r))
      [] e.op = "==?" -> IF e.value = Null THEN 2 ELSE Related("=", Cell(env, e.l), e.value)
      [] e.op = "is null" -> Truth(Cell(env, e.l) = Null)
      [] e.op = "in" -> IF Cell(env, e.l) = Null THEN 1 ELSE Truth(Cell(env, e.l) \in e.values)
      [] e.op = "and" -> Lower(Holds(db, env, e.p), Holds(db, env, e.q))
      [] e.op = "or" -> Higher(Holds(db, env, e.p), Holds(db, env, e.q))
      [] e.op = "not" -> 2 - Holds(db, env, e.p)
      [] e.op = "exists" -> Truth(\E row \in db[e.table] : Holds(db, (e.binder :> row) @@ env, e.where) = 2)
Keeps(db, env, e) == Holds(db, env, e) = 2

\* a comes before b.  Nulls are last, and first where the order descends.
RECURSIVE Precedes(_, _, _)
Precedes(keys, a, b) ==
    keys # <<>> /\
    LET k == Head(keys)
        x == Cell(a, k.col)
        y == Cell(b, k.col)
        nullsFirst == IF k.nulls = "default" THEN k.desc ELSE k.nulls = "first" IN
    IF x = y THEN Precedes(Tail(keys), a, b)
    ELSE IF x = Null THEN nullsFirst
    ELSE IF y = Null THEN ~nullsFirst
    ELSE IF k.desc THEN x > y ELSE x < y

\* What an ORDER BY leaves open, the plan decides: heap, an order of the keys.
Ordered(envs, keys, alias, heap) ==
    SetToSortSeq(envs, LAMBDA a, b :
        \/ Precedes(keys, a, b)
        \/ ~Precedes(keys, b, a) /\ heap[a[alias].id] < heap[b[alias].id])
Limited(s, limit) == IF limit = NoLimit \/ limit >= Len(s) THEN s ELSE SubSeq(s, 1, limit)

RECURSIVE Json(_, _, _), Rows(_, _, _, _)
Json(env, group, item) ==
    [as \in {item[n].as : n \in DOMAIN item} |->
        LET f == item[CHOOSE n \in DOMAIN item : item[n].as = as] IN
        CASE f.is = "value" -> Cell(env, f.e)
          [] f.is = "lateral" -> env[f.of]
          [] f.is = "object" -> IF f.guard /\ Cell(env, Col(f.of, "id")) = Null THEN Null
                                ELSE Json(env, group, f.item)
          [] f.is = "count" ->
                LET counted == {e \in group : Cell(e, f.e) # Null /\ Keeps(<<>>, e, f.where)} IN
                Cardinality(IF f.distinct THEN {Cell(e, f.e) : e \in counted} ELSE counted)]

\* The rows of a FROM, each an environment.
Candidates(db, f, env) == {(f.alias :> row) @@ env : row \in db[f.table]}
Matches(db, f, envs) == {e \in envs : Keeps(db, e, f.on)}
Extended(f, env, found) == IF found = {} /\ f.kind = "left" THEN {(f.alias :> Missing) @@ env} ELSE found
Aggregated(f, rows) == [n \in DOMAIN rows |-> Json(rows[n], {}, f.item)]
Rows(db, envs, from, heap) ==
    IF from = <<>> THEN envs
    ELSE LET f == Head(from) IN
         Rows(db,
              UNION {IF "lateral" \in DOMAIN f
                     THEN {(f.alias :> Aggregated(f, Limited(Ordered(Matches(db, f, Rows(db, Candidates(db, f, env), f.from, heap)),
                                                                 f.order, f.alias, heap), f.limit))) @@ env}
                     ELSE Extended(f, env, Matches(db, f, Candidates(db, f, env))) : env \in envs},
              Tail(from), heap)

\* Strictly after the cursor's tuple; no first key, and there is no predicate.
RECURSIVE Chain(_, _, _)
Chain(keys, after, env) ==
    LET here == Related(IF Head(keys).desc THEN "<" ELSE ">", Cell(env, Head(keys).col), Head(after)) IN
    IF Len(keys) = 1 THEN here
    ELSE Higher(here, Lower(Related("=", Cell(env, Head(keys).col), Head(after)),
                            Chain(Tail(keys), Tail(after), env)))
\* Mutant: a tie is after the cursor.
KeysetFrom(keys, after, env) ==
    after = <<>> \/ Head(after) = Null \/ Chain(<<Head(keys)>>, <<Head(after)>>, env) = 2
    \/ Related("=", Cell(env, Head(keys).col), Head(after)) = 2
Keyset(keys, after, env) == after = <<>> \/ Head(after) = Null \/ Chain(keys, after, env) = 2

\* A clause names what is in scope: "missing FROM-clause entry" otherwise.
RECURSIVE Mentions(_), Scoped(_, _)
Mentions(e) ==
    CASE e.op \in {"and", "or"} -> Mentions(e.p) \cup Mentions(e.q)
      [] e.op = "not" -> Mentions(e.p)
      [] e.op = "exists" -> Mentions(e.where) \ {e.binder}
      [] OTHER -> Heads(References(e))
Sorts(keys) == Heads({keys[n].col : n \in DOMAIN keys})
Scoped(from, scope) ==
    from # <<>> =>
    LET f == Head(from) IN
    /\ Mentions(f.on) \subseteq scope \cup {f.alias}
    /\ "lateral" \in DOMAIN f =>
          /\ Scoped(f.from, scope \cup {f.alias})
          /\ Sorts(f.order) \subseteq scope \cup {f.alias} \cup {f.from[n].alias : n \in DOMAIN f.from}
    /\ Scoped(Tail(from), IF "lateral" \in DOMAIN f THEN scope ELSE scope \cup {f.alias})
InScope(sql) ==
    LET flat == SelectSeq(sql.from, LAMBDA f : "lateral" \notin DOMAIN f)
        all == {sql.binder} \cup {flat[n].alias : n \in DOMAIN flat} IN
    /\ Scoped(sql.from, {sql.binder})
    /\ Mentions(sql.where) \cup Sorts(sql.order) \subseteq IF sql.two THEN {sql.binder} ELSE all

\* The rows of the answer, each with its group.
Kept(db, sql, after, envs) ==
    {e \in envs : Keeps(db, e, sql.where) /\ (sql.keyset => Keyset(sql.total, after, e))}
PageCte(sql, envs, heap) == ToSet(Limited(Ordered(envs, sql.order, sql.binder, heap), sql.limit))
Group(sql, envs, e) ==
    IF sql.groupby # <<>> THEN {x \in envs : \A c \in ToSet(sql.groupby) : Cell(x, c) = Cell(e, c)}
    ELSE IF sql.counts THEN envs ELSE {e}
WithGroups(sql, envs, rows) == [n \in DOMAIN rows |-> [env |-> rows[n], group |-> Group(sql, envs, rows[n])]]
\* A page numbers its rows in the total order, and the rows the window hands on
\* are in it: its sort has the written keys as a prefix, and Postgres sorts no
\* second time before the LIMIT.
Answers(sql, envs, heap) ==
    IF sql.counts /\ sql.groupby = <<>> THEN <<[env |-> <<>>, group |-> envs]>>
    ELSE WithGroups(sql, envs,
             Limited(Ordered({CHOOSE x \in Group(sql, envs, e) : TRUE : e \in envs},
                         IF sql.keyset THEN sql.total ELSE sql.order, sql.binder, heap),
                 IF sql.two THEN NoLimit ELSE sql.limit))
Chosen(db, sql, after, heap) ==
    LET driving == {sql.binder :> row : row \in db[sql.table]} IN
    Answers(sql,
             IF sql.two THEN Rows(db, PageCte(sql, Kept(db, sql, after, driving), heap), sql.from, heap)
             ELSE Kept(db, sql, after, Rows(db, driving, sql.from, heap)),
             heap)

Items(sql, chosen) == [n \in DOMAIN chosen |-> Json(chosen[n].env, chosen[n].group, sql.item)]
=============================================================================
