----------------------------- MODULE SchemaDiff -----------------------------
(***************************************************************************)
(* `jwc migrate new`: from the snapshot the last migration left, the       *)
(* declared schema and its `was` markers, the operations of the migration  *)
(* (diff.rs, compute), their order (diff.rs and migrate.rs, render), and   *)
(* the files they go to, with the way back (migrate.rs, plan).             *)
(*                                                                         *)
(* A snapshot has, per table, its columns with their types, its primary    *)
(* key, uniques, foreign keys, indexes and whether it has an `on update    *)
(* now()` column; per view, what it reads; per enum type, its values.      *)
(***************************************************************************)
EXTENDS Catalog, SequencesExt, FiniteSetsExt

Nothing == [tables |-> <<>>, views |-> <<>>, enums |-> <<>>]
NoWas == [tables |-> <<>>, cols |-> <<>>]

KeysOf(t, T) ==
    {[table |-> t, name |-> Pk(t), kind |-> "pk", col |-> T.pk, ref |-> NoRef]} \cup
    {[table |-> t, name |-> Uq(t, c), kind |-> "uq", col |-> c, ref |-> NoRef] : c \in T.uqs}
ForeignKeysOf(t, T) ==
    {[table |-> t, name |-> Fk(t, f.col), kind |-> "fk", col |-> f.col, ref |-> f.ref] : f \in T.fks}
ConstraintsOf(t, T) == KeysOf(t, T) \cup ForeignKeysOf(t, T)
IndexesOf(t, T) ==
    {[table |-> t, name |-> Ix(t, i.col), col |-> i.col, how |-> i.how] : i \in T.ixs}
Touched(s) == {t \in DOMAIN s.tables : s.tables[t].touch}

\* The catalog of a database created in the shape of snapshot s (gen-sql).
CatalogOf(s) ==
    [Empty EXCEPT
        !.tables = [t \in DOMAIN s.tables |-> s.tables[t].cols],
        !.cons   = UNION {ConstraintsOf(t, s.tables[t]) : t \in DOMAIN s.tables},
        !.ixs    = UNION {IndexesOf(t, s.tables[t]) : t \in DOMAIN s.tables},
        !.fns    = {Touch(t) : t \in Touched(s)},
        !.trgs   = {[table |-> t, name |-> Touch(t)] : t \in Touched(s)},
        !.views  = s.views,
        !.enums  = s.enums]
------------------------------------------------------------------------------
(* Renames are declared, and applied to a working copy of the previous      *)
(* tables before anything is compared: their names and those of their       *)
(* columns, not the columns that their constraints and indexes are over.    *)

TableRenames(prev, next, was) ==
    {[op |-> "RenameTable", table |-> t, from |-> was.tables[t]] :
        t \in {t \in DOMAIN next.tables \cap DOMAIN was.tables :
                  t \notin DOMAIN prev.tables /\ was.tables[t] \in DOMAIN prev.tables}}

\* What each table of the working copy was called.
Origin(prev, next, was) ==
    LET R == TableRenames(prev, next, was)
        kept == DOMAIN prev.tables \ {r.from : r \in R} IN
    [t \in kept \cup {r.table : r \in R} |-> IF t \in kept THEN t ELSE was.tables[t]]

ColumnRenames(prev, next, was, origin) ==
    LET cols(t) == DOMAIN prev.tables[origin[t]].cols IN
    {[op |-> "RenameColumn", table |-> d[1], col |-> d[2], from |-> was.cols[d]] :
        d \in {d \in DOMAIN was.cols :
                  /\ d[1] \in DOMAIN next.tables \cap DOMAIN origin
                  /\ d[2] \in DOMAIN next.tables[d[1]].cols
                  /\ d[2] \notin cols(d[1]) /\ was.cols[d] \in cols(d[1])}}

WorkingCopy(prev, was, origin, R) ==
    LET Of(t) == {r \in R : r.table = t}
        Cols(t) == LET cols == prev.tables[origin[t]].cols
                       new == {r.col : r \in Of(t)} IN
            [c \in (DOMAIN cols \ {r.from : r \in Of(t)}) \cup new |->
                cols[IF c \in new THEN was.cols[<<t, c>>] ELSE c]]
    IN [t \in DOMAIN origin |-> [prev.tables[origin[t]] EXCEPT !.cols = Cols(t)]]

Builder(prev, next, was) ==
    LET origin == Origin(prev, next, was)
        columns == ColumnRenames(prev, next, was, origin) IN
    [origin |-> origin, columns |-> columns, tables |-> WorkingCopy(prev, was, origin, columns)]
------------------------------------------------------------------------------
(* What is compared, table by table.  The constraints and indexes of a table *)
(* are the same when their bodies are; then they are at most renamed.  A     *)
(* drop that makes room for an add of the same name travels with it.         *)

Body(x) == [x EXCEPT !.name = 0, !.table = 0]

ColumnOps(t, T, P) ==
    LET old == DOMAIN P.cols  new == DOMAIN T.cols IN
    {[op |-> "AddColumn", table |-> t, col |-> c, type |-> T.cols[c]] : c \in new \ old} \cup
    {[op |-> "AlterColumnType", table |-> t, col |-> c, type |-> T.cols[c]] :
        c \in {c \in new \cap old : T.cols[c] # P.cols[c]}} \cup
    {[op |-> "DropColumn", table |-> t, col |-> c] : c \in old \ new}

\* For constraints and for indexes: what is renamed, added and dropped.
Matched(now, was) == {<<w, k>> \in was \X now : Body(w) = Body(k)}
Added(now, was) == {k \in now : \A w \in was : Body(w) # Body(k)}
Gone(now, was) == {w \in was : \A k \in now : Body(w) # Body(k)}
MakesRoom(w, adds) == \E k \in adds : k.name = w.name

ConstraintOps(t, now, was) ==
    LET adds == Added(now, was) IN
    {[op |-> "RenameConstraint", table |-> t, from |-> m[1].name, name |-> m[2].name] :
        m \in {m \in Matched(now, was) : m[1].name # m[2].name}} \cup
    {[op |-> "AddConstraint", table |-> t, con |-> k] : k \in adds} \cup
    {[op |-> "DropConstraint", table |-> t, name |-> w.name, replaced |-> MakesRoom(w, adds)] :
        w \in Gone(now, was)}

IndexOps(now, was) ==
    LET adds == Added(now, was) IN
    {[op |-> "RenameIndex", from |-> m[1].name, name |-> m[2].name] :
        m \in {m \in Matched(now, was) : m[1].name # m[2].name}} \cup
    {[op |-> "CreateIndex", table |-> i.table, ix |-> i] : i \in adds} \cup
    {[op |-> "DropIndex", name |-> w.name, replaced |-> MakesRoom(w, adds)] :
        w \in Gone(now, was)}

TableOps(prev, next, builder) ==
    LET copy == builder.tables
        origin == builder.origin
        Was(t) == prev.tables[origin[t]]
        New(t) == LET T == next.tables[t] IN
            {[op |-> "CreateTable", table |-> t, cols |-> T.cols, keys |-> KeysOf(t, T)]} \cup
            {[op |-> "AddConstraint", table |-> t, con |-> k] : k \in ForeignKeysOf(t, T)} \cup
            {[op |-> "CreateIndex", table |-> t, ix |-> i] : i \in IndexesOf(t, T)}
        Kept(t) == LET T == next.tables[t] IN
            ColumnOps(t, T, copy[t]) \cup
            ConstraintOps(t, ConstraintsOf(t, T), ConstraintsOf(origin[t], Was(t))) \cup
            IndexOps(IndexesOf(t, T), IndexesOf(origin[t], Was(t)))
    IN  UNION {IF t \in DOMAIN copy THEN Kept(t) ELSE New(t) : t \in DOMAIN next.tables} \cup
        {[op |-> "DropTable", table |-> t] : t \in DOMAIN copy \ DOMAIN next.tables}

\* Types and schemas are never dropped.
EnumOps(prev, next) ==
    {[op |-> "CreateEnum", enum |-> e, values |-> next.enums[e]] :
        e \in DOMAIN next.enums \ DOMAIN prev.enums} \cup
    UNION {{[op |-> "AddEnumValue", enum |-> e, value |-> v] :
               v \in next.enums[e] \ prev.enums[e]} :
        e \in DOMAIN next.enums \cap DOMAIN prev.enums}

\* A trigger is compared under the name and the table the snapshot has; the
\* trigger of a table this migration drops goes with it.
TouchOps(prev, next, dropped) ==
    LET old == Touched(prev)  new == Touched(next) IN
    {[op |-> "CreateFunction", name |-> Touch(t)] : t \in new \ old} \cup
    {[op |-> "CreateTrigger", table |-> t, name |-> Touch(t)] : t \in new \ old} \cup
    {[op |-> "DropTrigger", table |-> t, name |-> Touch(t)] : t \in (old \ new) \ dropped} \cup
    {[op |-> "DropFunction", name |-> Touch(t)] : t \in old \ new}

Reads(v) == {c[1] : c \in v.cols} \cup v.over

\* The relations whose views come down: a new table, an index, a trigger or the
\* new name of a constraint leaves them standing.
Alters(ops, copy) == DOMAIN copy \cap
    {o.table : o \in {o \in ops : o.op \in {"RenameTable", "RenameColumn", "AddColumn",
        "AlterColumnType", "AddConstraint", "DropConstraint", "DropColumn", "DropTable"}}}
\* Views sort by how many views they sit on top of.
Depths(views) ==
    LET depth[v \in DOMAIN views] ==
          IF views[v].over = {} THEN 0 ELSE 1 + Max({depth[u] : u \in views[v].over})
    IN depth

\* Mutant: one sweep, which misses the views over a view that comes down.
ComesDownOnce(prev, next, altered) ==
    {v \in DOMAIN prev.views :
        \/ v \notin DOMAIN next.views
        \/ next.views[v] # prev.views[v]
        \/ Reads(prev.views[v]) \cap altered # {}}

\* A view comes down when it is gone or changed, when it reads a relation that
\* is altered, or a view that comes down.
ComesDown(prev, next, altered) ==
    LET down[v \in DOMAIN prev.views] ==
          \/ v \notin DOMAIN next.views
          \/ next.views[v] # prev.views[v]
          \/ Reads(prev.views[v]) \cap altered # {}
          \/ \E u \in prev.views[v].over : down[u]
    IN {v \in DOMAIN prev.views : down[v]}
ViewOps(prev, next, altered) ==
    LET down == ComesDown(prev, next, altered) IN
    {[op |-> "DropView", view |-> v, depth |-> Depths(prev.views)[v]] : v \in down} \cup
    {[op |-> "CreateView", view |-> v, reads |-> next.views[v], depth |-> Depths(next.views)[v]] :
        v \in {v \in DOMAIN next.views : v \notin DOMAIN prev.views \/ v \in down}}

TablesFirst(prev, next, was, builder) ==
    TableRenames(prev, next, was) \cup builder.columns \cup TableOps(prev, next, builder)
WithTheRest(prev, next, builder, ops) ==
    ops \cup EnumOps(prev, next)
        \cup TouchOps(prev, next, {o.table : o \in {o \in ops : o.op = "DropTable"}})
        \cup ViewOps(prev, next, Alters(ops, builder.tables))

\* Everything that turns prev into next.
Compute(prev, next, was) ==
    LET builder == Builder(prev, next, was) IN
    WithTheRest(prev, next, builder, TablesFirst(prev, next, was, builder))

\* Refused: a value removed from a type (E1102), a rename of what is not there
\* (E1103), and one that changes the type as well (E1104).
HasErrors(prev, next, was, builder) ==
    LET copy == builder.tables IN
    \/ \E e \in DOMAIN prev.enums \cap DOMAIN next.enums : ~(prev.enums[e] \subseteq next.enums[e])
    \/ \E t \in DOMAIN next.tables \cap DOMAIN was.tables :
          t \notin DOMAIN prev.tables /\ was.tables[t] \notin DOMAIN prev.tables
    \/ \E d \in DOMAIN was.cols :
          /\ d[1] \in DOMAIN next.tables \cap DOMAIN copy
          /\ d[2] \in DOMAIN next.tables[d[1]].cols
          /\ \/ d[2] \notin DOMAIN copy[d[1]].cols
             \/ \E r \in builder.columns :
                   /\ <<r.table, r.col>> = d
                   /\ copy[d[1]].cols[d[2]] # next.tables[d[1]].cols[d[2]]
------------------------------------------------------------------------------
(* The order of a file: by phase, rank and name; of the drops, the tables   *)
(* come after all others but the functions.                                 *)

Phase(o) ==
    CASE o.op = "DropView" -> 0
      [] o.op \in {"CreateEnum", "AddEnumValue"} -> 1
      [] o.op \in {"CreateTable", "RenameTable", "AddColumn", "RenameColumn", "AlterColumnType"} -> 2
      [] o.op \in {"AddConstraint", "RenameConstraint"} -> 4
      [] o.op = "DropConstraint" -> IF o.replaced THEN 4 ELSE 9
      [] o.op \in {"CreateIndex", "RenameIndex"} -> 5
      [] o.op = "DropIndex" -> IF o.replaced THEN 5 ELSE 9
      [] o.op \in {"CreateFunction", "CreateTrigger"} -> 6
      [] o.op = "CreateView" -> 8
      [] o.op \in {"DropTrigger", "DropFunction", "DropColumn", "DropTable"} -> 9
Rank(o) ==
    CASE o.op \in {"RenameTable", "DropConstraint", "DropIndex", "DropTrigger"} -> 0
      [] o.op \in {"RenameColumn", "RenameConstraint", "RenameIndex", "DropFunction"} -> 1
      [] o.op \in {"CreateTable", "CreateFunction", "DropColumn"} -> 2
      [] o.op \in {"AddColumn", "CreateTrigger", "DropTable"} -> 3
      [] o.op = "AddConstraint" -> IF o.con.kind = "fk" THEN 3 ELSE 2
      [] o.op = "DropView" -> 4096 - o.depth
      [] o.op = "CreateView" -> o.depth
      [] o.op \in {"CreateEnum", "AddEnumValue", "AlterColumnType", "CreateIndex"} -> 4
\* Generated names in their alphabetical order.
Letters == [fk |-> 1, ix |-> 2, pk |-> 3, tg |-> 4, uq |-> 5]
Spelt(name) == <<Letters[name[1]], name[2], name[3]>>

SortKey(o) ==
    CASE o.op \in {"CreateTable", "DropTable", "RenameTable"} -> <<o.table, 0, 0, 0>>
      [] o.op \in {"AddColumn", "DropColumn", "RenameColumn", "AlterColumnType"} ->
            <<o.table, o.col, 0, 0>>
      [] o.op = "AddConstraint" -> <<o.table>> \o Spelt(o.con.name)
      [] o.op \in {"DropConstraint", "RenameConstraint", "CreateTrigger", "DropTrigger"} ->
            <<o.table>> \o Spelt(o.name)
      [] o.op = "CreateIndex" -> Spelt(o.ix.name) \o <<0>>
      [] o.op \in {"DropIndex", "RenameIndex", "CreateFunction", "DropFunction"} ->
            Spelt(o.name) \o <<0>>
      [] o.op \in {"CreateView", "DropView"} -> <<o.view, 0, 0, 0>>
      [] o.op = "CreateEnum" -> <<o.enum, 0, 0, 0>>
      [] o.op = "AddEnumValue" -> <<o.enum, o.value, 0, 0>>

Position(o) == <<Phase(o), Rank(o)>> \o SortKey(o)
Before(a, b) == \E i \in 1..6 : a[i] < b[i] /\ \A j \in 1..(i - 1) : a[j] = b[j]

Sorted(ops) ==
    [k \in 1..Cardinality(ops) |->
        CHOOSE o \in ops : Cardinality({p \in ops : Before(Position(p), Position(o))}) = k - 1]

\* Of the tables dropped, one that no other of them refers to goes first; the
\* members of a cycle keep their order.
Drops(tables, shape) ==
    LET RefersTo(t, u) == \E f \in shape[t].fks : f.ref[1] = u
        order[todo \in SUBSET tables] ==
          LET free == {t \in todo : \A u \in todo \ {t} : ~RefersTo(u, t)}
          IN  IF free = {} THEN SetToSortSeq(todo, <) ELSE <<Min(free)>> \o order[todo \ {Min(free)}]
    IN  order[tables]
TableDrops(ops, shape) ==
    LET dropped == {o.table : o \in {o \in ops : o.op = "DropTable"}}
        order == Drops(dropped, shape)
    IN  [i \in 1..Len(order) |-> [op |-> "DropTable", table |-> order[i]]]

Rendered(ops, shape) ==
    LET late == {o \in ops : o.op = "DropFunction"}
        rest == {o \in ops \ late : o.op # "DropTable"}
    IN  Sorted(rest) \o TableDrops(ops, shape) \o Sorted(late)
------------------------------------------------------------------------------
(* The files of one migration. *)

\* Mutant: the table under the name it has.
InverseWasHere(prev, was) ==
    [tables |-> [old \in {was.tables[t] : t \in DOMAIN was.tables} |->
                    CHOOSE t \in DOMAIN was.tables : was.tables[t] = old],
     cols |-> [c \in {<<d[1], was.cols[d]>> : d \in DOMAIN was.cols} |->
                 (CHOOSE d \in DOMAIN was.cols : <<d[1], was.cols[d]>> = c)[2]]]

\* Renaming back, the table under the name it had.
InverseWas(prev, was) ==
    LET Table(t) == IF t \in DOMAIN was.tables THEN was.tables[t] ELSE t
        back == {d \in DOMAIN was.cols :
                    /\ Table(d[1]) \in DOMAIN prev.tables
                    /\ was.cols[d] \in DOMAIN prev.tables[Table(d[1])].cols}
    IN [tables |-> [old \in {was.tables[t] : t \in DOMAIN was.tables} |->
                       CHOOSE t \in DOMAIN was.tables : was.tables[t] = old],
        cols |-> [c \in {<<Table(d[1]), was.cols[d]>> : d \in back} |->
                     (CHOOSE d \in back : <<Table(d[1]), was.cols[d]>> = c)[2]]]
Loose(ops) == {o \in ops : o.op = "AddEnumValue"}
Reversible(ops) == \A o \in ops : o.op \notin {"AddEnumValue", "DropColumn", "DropTable"}

\* The columns whose values a migration carries over, under their old and
\* their new names, as the declarations say.
Carried(prev, next, was) ==
    LET Old(t) == IF t \in DOMAIN was.tables /\ t \notin DOMAIN prev.tables
                  THEN was.tables[t] ELSE t
        OldCol(t, c) == IF <<t, c>> \in DOMAIN was.cols
                           /\ c \notin DOMAIN prev.tables[Old(t)].cols
                        THEN was.cols[<<t, c>>] ELSE c
        all == UNION {{t} \X DOMAIN next.tables[t].cols :
                         t \in {t \in DOMAIN next.tables : Old(t) \in DOMAIN prev.tables}}
    IN  {<<<<Old(d[1]), OldCol(d[1], d[2])>>, d>> :
            d \in {d \in all : OldCol(d[1], d[2]) \in DOMAIN prev.tables[Old(d[1])].cols}}

File(prev, ops, next, was) ==
    [loose    |-> Loose(ops) # {},
     up       |-> Rendered(ops, prev.tables),
     undoable |-> Reversible(ops),
     down     |-> IF Reversible(ops)
                  THEN Rendered(Compute(next, prev, InverseWas(prev, was)), next.tables)
                  ELSE <<>>,
     shape    |-> IF Loose(ops) # {}
                  THEN [CatalogOf(prev) EXCEPT !.enums =
                           [e \in DOMAIN @ |-> @[e] \cup {o.value : o \in {o \in Loose(ops) : o.enum = e}}]]
                  ELSE CatalogOf(next),
     carried  |-> IF Loose(ops) # {} THEN {} ELSE Carried(prev, next, was)]

\* The values of existing types first, in a file of their own that runs outside
\* of a transaction; then the rest, if there is any.
Files(prev, next, was, ops) ==
    LET One(some) == IF some = {} THEN <<>> ELSE <<File(prev, some, next, was)>>
    IN  One(Loose(ops)) \o One(ops \ Loose(ops))
Plan(prev, next, was) ==
    IF HasErrors(prev, next, was, Builder(prev, next, was)) THEN <<>>
    ELSE Files(prev, next, was, Compute(prev, next, was))
------------------------------------------------------------------------------
(* What the order of a file does not get right: the files of a migration    *)
(* with one of these are refused by Postgres, on the way up or back.        *)

\* A key goes that a foreign key points at: within a phase the drops of
\* constraints are in the order of their tables, whoever points at whom.
DropsKeyInUse(prev, next, was) ==
    LET origin == Origin(prev, next, was)
        Kept == DOMAIN origin \cap DOMAIN next.tables
        before == CatalogOf(prev).cons
        Lost(t) == Gone(ConstraintsOf(t, next.tables[t]),
                        ConstraintsOf(origin[t], prev.tables[origin[t]]))
    IN  \E t \in Kept : \E w \in Lost(t) :
            IsKey(w) /\ \E k \in before : k.kind = "fk" /\ k.ref = <<origin[t], w.col>>

\* A table gets a new name, and its `on update now()` trigger stays under the
\* old one, or its new primary key comes before the old one goes.
RenamesBound(prev, next, was) ==
    \E r \in TableRenames(prev, next, was) :
        \/ prev.tables[r.from].touch \/ next.tables[r.table].touch
        \/ prev.tables[r.from].pk # next.tables[r.table].pk

Separable(prev, next, was) ==
    LET back == InverseWas(prev, was) IN
    /\ ~DropsKeyInUse(prev, next, was) /\ ~DropsKeyInUse(next, prev, back)
    /\ ~RenamesBound(prev, next, was) /\ ~RenamesBound(next, prev, back)
=============================================================================
