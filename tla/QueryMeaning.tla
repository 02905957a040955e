----------------------------- MODULE QueryMeaning -----------------------------
(***************************************************************************)
(* What a query means (docs/spec/v1/queries.md), told without a statement:  *)
(* a tree of rows.  Tells says of an answer that it is one of those the      *)
(* query may give; an order that leaves ties open leaves several.           *)
(***************************************************************************)
EXTENDS QuerySql

CONSTANT Nullable  \* columns that may be null: <<table, column>>

\* 4.4: a join hangs off what `under` says, or off the one binding `on` names.
ParentOf(q, i) ==
    LET join == q.joins[i]
        others == (0..Len(q.joins)) \ {i}
        heads == IF join.under # NoName THEN {join.under} ELSE Heads(References(join.on))
        named == {p \in others : Binder(q, p) \in heads} IN
    IF named # {} THEN CHOOSE p \in named : TRUE
    ELSE CHOOSE p \in others \ {0} : q.joins[p].name = join.under
Below(q, i) == SelectSeq([k \in DOMAIN q.joins |-> k], LAMBDA k : q.joins[k].as # "group" /\ ParentOf(q, k) = i)
Field(q, i, name) == CHOOSE k \in ToSet(Below(q, i)) : q.joins[k].name = name
RECURSIVE Ones(_, _)
Ones(q, i) ==
    FlattenSeq([n \in DOMAIN Below(q, i) |->
        LET k == Below(q, i)[n] IN
        IF q.joins[k].as = "one" THEN <<k>> \o Ones(q, k) ELSE <<>>])

\* 4.3, 4.7: the rows a join relates to a row.
RelatedRows(db, q, env, i) ==
    IF env[Binder(q, ParentOf(q, i))] = Missing THEN {}
    ELSE {e \in {(Binder(q, i) :> row) @@ env : row \in db[q.joins[i].table]} :
             Keeps(db, e, Lowered(q, Both(q.joins[i].on, q.joins[i].where)))}

\* 4.5: what an `as one` does not match is null; an inner one has to match.
RECURSIVE WithOnes(_, _, _, _)
WithOnes(db, q, envs, ks) ==
    IF ks = <<>> THEN envs
    ELSE LET k == Head(ks)
             Next(env) ==
                LET found == RelatedRows(db, q, env, k) IN
                IF found # {} THEN found
                ELSE IF q.joins[k].kind = "left" \/ env[Binder(q, ParentOf(q, k))] = Missing
                THEN {(Binder(q, k) :> Missing) @@ env}
                ELSE {} IN
         WithOnes(db, q, UNION {Next(env) : env \in envs}, Tail(ks))
Driving(db, q) ==
    {e \in WithOnes(db, q, {q.binder :> row : row \in db[q.table]}, Ones(q, 0)) :
        /\ Keeps(db, e, Lowered(q, q.where))
        /\ \A i \in Joins(q, "group") : q.joins[i].kind = "inner" =>
              \E row \in db[q.joins[i].table] : Keeps(db, (Binder(q, i) :> row) @@ e, q.joins[i].on)}

\* 4.6, 5: the first n in an order that has the keys.
Arrangements(envs, keys, limit) ==
    {Limited(s, limit) : s \in {t \in SetToSeqs(envs) :
        \A a, b \in DOMAIN t : a < b => ~Precedes(keys, t[b], t[a])}}

\* 6.3: over the rows of the join it names.
Count(db, q, env, f) ==
    LET joined == {i \in Joins(q, "group") : Binder(q, i) = f.e.of}
        rows == IF joined = {} THEN Driving(db, q)
                ELSE LET i == CHOOSE i \in joined : TRUE IN
                     {e \in {(f.e.of :> row) @@ env : row \in db[q.joins[i].table]} :
                         Keeps(db, e, Both(q.joins[i].on, q.joins[i].where))}
        counted == {e \in rows : Cell(e, f.e) # Null /\ Keeps(db, e, f.where)} IN
    Cardinality(IF f.distinct THEN {Cell(e, f.e) : e \in counted} ELSE counted)

\* 4.3: null or a record of an `as one`, an array of an `as many`.
RECURSIVE TellsRow(_, _, _, _, _, _)
TellsRow(db, q, i, shape, env, v) ==
    /\ DOMAIN v = {shape[n].as : n \in DOMAIN shape}
    /\ \A n \in DOMAIN shape :
         LET f == shape[n]
             k == Field(q, i, f.as) IN
         CASE f.is = "column" -> v[f.as] = Cell(env, Col(Binder(q, i), f.col))
           [] f.is = "count" -> v[f.as] = Count(db, q, env, f)
           [] f.is = "nested" /\ q.joins[k].as = "one" ->
                IF env[Binder(q, k)] = Missing THEN v[f.as] = Null
                ELSE v[f.as] # Null /\ TellsRow(db, q, k, f.shape, env, v[f.as])
           [] f.is = "nested" /\ q.joins[k].as = "many" ->
                \E s \in Arrangements(WithOnes(db, q, RelatedRows(db, q, env, k), Ones(q, k)),
                                      Keys(q, q.joins[k].orderby), q.joins[k].limit) :
                    /\ Len(s) = Len(v[f.as])
                    /\ \A m \in DOMAIN s : TellsRow(db, q, k, f.shape, s[m], v[f.as][m])

Tells(db, q, answer) ==
    IF WholeTable(q) THEN Len(answer) = 1 /\ TellsRow(db, q, 0, q.shape, <<>>, answer[1])
    ELSE \E s \in Arrangements(Driving(db, q), Keys(q, q.orderby),
                               IF q.bound.by = "page" THEN PageBound(q.bound) ELSE Fetched(q)) :
            /\ Len(s) = Len(answer)
            /\ \A n \in DOMAIN s : TellsRow(db, q, 0, q.shape, s[n], answer[n])
------------------------------------------------------------------------------
(* Where the compiler keeps to it. *)

RECURSIVE Shown(_)
Shown(shape) ==
    UNION {IF shape[n].is = "nested" THEN {shape[n].as} \cup Shown(shape[n].shape) ELSE {} : n \in DOMAIN shape}
Projected(q) == {i \in DOMAIN q.joins : q.joins[i].name \in Shown(q.shape)}

\* A clause names an `as one` that the shape shows, or by its binding and not
\* in `in` or `exists` alone: others are not joined.
NamesJoined(q) ==
    (Mentions(Lowered(q, q.where)) \cup Sorts(Keys(q, q.orderby))) \ {q.binder}
        \subseteq {Binder(q, i) : i \in Projected(q)} \cup Used(q)

\* An inner `as one` is shown, hangs off no left one, and bounds no page that
\* was cut before it.
InnerKept(q) == \A i \in Joins(q, "one") : q.joins[i].kind = "inner" =>
    /\ i \in Projected(q) \/ Binder(q, i) \in Used(q)
    /\ ParentOf(q, i) \in Joins(q, "one") => q.joins[ParentOf(q, i)].kind = "inner"
    /\ i \in ToSet(Ones(q, 0)) => ~TwoStage(q)

Plain(q) == NamesJoined(q) /\ InnerKept(q) /\ ~W0502(q)

Table(q, b) == IF b = q.binder THEN q.table
               ELSE q.joins[CHOOSE i \in DOMAIN q.joins : Binder(q, i) = b].table
Left(q) == {Binder(q, i) : i \in {i \in Joins(q, "one") : q.joins[i].kind = "left"}}

\* The keys of the order are a position: none is null, and they are total in
\* the statement that cuts the page.
Positions(q) ==
    LET keys == {k.col : k \in ToSet(Keys(q, q.orderby))}
        ids == {c \in keys : c.col = "id"} IN
    /\ \A c \in keys : <<Table(q, c.of), c.col>> \notin Nullable /\ c.of \notin Left(q)
    /\ ids \subseteq {Col(q.binder, "id")}
    /\ TwoStage(q) => ids # {}
=============================================================================
