------------------------------- MODULE Catalog -------------------------------
(***************************************************************************)
(* The statements a migration is made of, as migrate.rs (sql) and ddl.rs   *)
(* write them, and what Postgres does with each: when it accepts it        *)
(* (Applies) and what its catalog holds after (After).                     *)
(*                                                                         *)
(* Relations (tables and views) and columns are numbers: their order is    *)
(* the alphabetical order of their names.  A name that naming.rs generates *)
(* is the tuple of what it is generated from.  Constraints and indexes are *)
(* over one column.  Schemas, checks, defaults, nullability, identity and  *)
(* comments are left out: each is a statement that names one object and    *)
(* that nothing else depends on.                                           *)
(***************************************************************************)
EXTENDS Naturals, Sequences, FiniteSets, Functions

Pk(t) == <<"pk", t, 0>>
Uq(t, c) == <<"uq", t, c>>
Fk(t, c) == <<"fk", t, c>>
Ix(t, c) == <<"ix", t, c>>
Touch(t) == <<"tg", t, 0>>

NoRef == <<0, 0>>
IsKey(k) == k.kind \in {"pk", "uq"}

Empty ==
    [tables |-> <<>>,  \* per table, the type of each of its columns
     cons   |-> {},    \* constraints: table, name, kind, col, ref
     ixs    |-> {},    \* indexes: table, name, col, how
     fns    |-> {},    \* the touch functions, by name
     trgs   |-> {},    \* triggers: table, name; each calls its namesake
     views  |-> <<>>,  \* per view, the columns it reads of tables, and views
     enums  |-> <<>>,  \* per type, its values
     rows   |-> {}]    \* the columns that hold values

\* A catalog has these parts and no other.
Fields == {"tables", "cons", "ixs", "fns", "trgs", "views", "enums", "rows"}
IsCatalog(c) == DOMAIN c = Fields /\ c = [x \in Fields |-> c[x]]

\* A function without some of its arguments, and one with an argument renamed.
Without(f, S) == Restrict(f, DOMAIN f \ S)
With(f, x, v) == [y \in DOMAIN f \cup {x} |-> IF y = x THEN v ELSE f[y]]
Moved(f, from, to) == With(Without(f, {from}), to, f[from])

\* Tables, views, indexes and the indexes behind keys share one namespace.
RelNames(cat) == {<<"rel", r, 0>> : r \in DOMAIN cat.tables \cup DOMAIN cat.views}
           \cup {i.name : i \in cat.ixs}
           \cup {k.name : k \in {k \in cat.cons : IsKey(k)}}

ConsOf(cat, t) == {k \in cat.cons : k.table = t}
Columns(cat) == UNION {{t} \X DOMAIN cat.tables[t] : t \in DOMAIN cat.tables}

\* What keeps a key, or a column, from being dropped: the foreign keys of other
\* constraints that point at it, and the views that read it.
PointedAt(cat, t, c) == \E k \in cat.cons : k.kind = "fk" /\ k.ref = <<t, c>>
Viewed(cat, t, c) == \E v \in DOMAIN cat.views : <<t, c>> \in cat.views[v].cols

Readers(cat, r) == {v \in DOMAIN cat.views :
                      r \in cat.views[v].over \/ \E c \in cat.views[v].cols : c[1] = r}

\* ALTER TABLE ... ADD CONSTRAINT, and the constraints inside a CREATE TABLE.
Constrains(cat, k) ==
    /\ k.table \in DOMAIN cat.tables /\ k.col \in DOMAIN cat.tables[k.table]
    /\ k.name \notin {j.name : j \in ConsOf(cat, k.table)}
    /\ IsKey(k) => k.name \notin RelNames(cat)
    /\ k.kind = "pk" => ~\E j \in ConsOf(cat, k.table) : j.kind = "pk"
    /\ k.kind = "fk" => \E j \in cat.cons : IsKey(j) /\ <<j.table, j.col>> = k.ref

\* The statements of a file.
Statements ==
    {"CreateEnum", "AddEnumValue", "CreateTable", "RenameTable", "AddColumn", "RenameColumn",
     "AlterColumnType", "AddConstraint", "RenameConstraint", "DropConstraint", "CreateIndex",
     "RenameIndex", "DropIndex", "CreateFunction", "DropFunction", "CreateTrigger", "DropTrigger",
     "CreateView", "DropView", "DropColumn", "DropTable"}

\* Postgres accepts statement s.
Applies(cat, s) ==
    CASE s.op = "CreateEnum" -> s.enum \notin DOMAIN cat.enums
      [] s.op = "AddEnumValue" -> s.enum \in DOMAIN cat.enums  \* IF NOT EXISTS
      [] s.op = "CreateTable" ->
            /\ <<"rel", s.table, 0>> \notin RelNames(cat)
            /\ {k.name : k \in s.keys} \cap RelNames(cat) = {}
      [] s.op = "RenameTable" ->
            s.from \in DOMAIN cat.tables /\ <<"rel", s.table, 0>> \notin RelNames(cat)
      [] s.op = "AddColumn" ->
            s.table \in DOMAIN cat.tables /\ s.col \notin DOMAIN cat.tables[s.table]
      [] s.op = "RenameColumn" ->
            /\ <<s.table, s.from>> \in Columns(cat)
            /\ <<s.table, s.col>> \notin Columns(cat)
      [] s.op = "AlterColumnType" ->
            <<s.table, s.col>> \in Columns(cat) /\ ~Viewed(cat, s.table, s.col)
      [] s.op = "AddConstraint" -> Constrains(cat, s.con)
      [] s.op = "RenameConstraint" ->
            LET names == {k.name : k \in ConsOf(cat, s.table)} IN
            s.from \in names /\ s.name \notin names \cup RelNames(cat)
      [] s.op = "DropConstraint" ->
            \E k \in ConsOf(cat, s.table) :
                k.name = s.name /\ (IsKey(k) => ~PointedAt(cat, s.table, k.col))
      [] s.op = "CreateIndex" ->
            <<s.table, s.ix.col>> \in Columns(cat) /\ s.ix.name \notin RelNames(cat)
      [] s.op = "RenameIndex" ->
            (\E i \in cat.ixs : i.name = s.from) /\ s.name \notin RelNames(cat)
      [] s.op = "DropIndex" -> \E i \in cat.ixs : i.name = s.name
      [] s.op \in {"CreateFunction", "DropTrigger"} -> TRUE   \* OR REPLACE, IF EXISTS
      [] s.op = "CreateTrigger" ->
            /\ s.table \in DOMAIN cat.tables /\ s.name \in cat.fns
            /\ [table |-> s.table, name |-> s.name] \notin cat.trgs
      [] s.op = "DropFunction" -> s.name \notin {g.name : g \in cat.trgs}
      [] s.op = "CreateView" ->
            /\ <<"rel", s.view, 0>> \notin RelNames(cat)
            /\ s.reads.cols \subseteq Columns(cat) /\ s.reads.over \subseteq DOMAIN cat.views
      [] s.op = "DropView" -> s.view \in DOMAIN cat.views /\ Readers(cat, s.view) = {}
      [] s.op = "DropColumn" ->
            /\ <<s.table, s.col>> \in Columns(cat)
            /\ ~PointedAt(cat, s.table, s.col) /\ ~Viewed(cat, s.table, s.col)
      [] s.op = "DropTable" ->
            /\ s.table \in DOMAIN cat.tables /\ Readers(cat, s.table) = {}
            /\ \A k \in cat.cons : k.kind = "fk" /\ k.ref[1] = s.table => k.table = s.table

\* A rename carries everything that is defined over what it renames.
OnTables(cat, from, to) ==
    LET Name(t) == IF t = from THEN to ELSE t
        Col(c) == <<Name(c[1]), c[2]>> IN
    [cat EXCEPT
        !.cons = {[k EXCEPT !.table = Name(k.table), !.ref = Col(k.ref)] : k \in cat.cons},
        !.ixs = {[i EXCEPT !.table = Name(i.table)] : i \in cat.ixs},
        !.trgs = {[g EXCEPT !.table = Name(g.table)] : g \in cat.trgs},
        !.views = [v \in DOMAIN cat.views |->
                      [cat.views[v] EXCEPT !.cols = {Col(c) : c \in cat.views[v].cols}]],
        !.rows = {Col(c) : c \in cat.rows}]

OnColumns(cat, t, from, to) ==
    LET Col(c) == IF c = <<t, from>> THEN <<t, to>> ELSE c IN
    [cat EXCEPT
        !.cons = {[k EXCEPT !.col = Col(<<k.table, k.col>>)[2], !.ref = Col(k.ref)] : k \in cat.cons},
        !.ixs = {[i EXCEPT !.col = Col(<<i.table, i.col>>)[2]] : i \in cat.ixs},
        !.views = [v \in DOMAIN cat.views |->
                      [cat.views[v] EXCEPT !.cols = {Col(c) : c \in cat.views[v].cols}]],
        !.rows = {Col(c) : c \in cat.rows}]

Renamed(set, picked, to) ==
    (set \ picked) \cup {[x EXCEPT !.name = to] : x \in picked}

\* The catalog after statement s.
After(cat, s) ==
    CASE s.op = "CreateEnum" -> [cat EXCEPT !.enums = With(@, s.enum, s.values)]
      [] s.op = "AddEnumValue" -> [cat EXCEPT !.enums[s.enum] = @ \cup {s.value}]
      [] s.op = "CreateTable" ->
            [cat EXCEPT !.tables = With(@, s.table, s.cols), !.cons = @ \cup s.keys]
      [] s.op = "RenameTable" ->
            [OnTables(cat, s.from, s.table)
                EXCEPT !.tables = Moved(@, s.from, s.table)]
      [] s.op = "RenameColumn" ->
            [OnColumns(cat, s.table, s.from, s.col)
                EXCEPT !.tables[s.table] = Moved(@, s.from, s.col)]
      [] s.op \in {"AddColumn", "AlterColumnType"} ->
            [cat EXCEPT !.tables[s.table] = With(@, s.col, s.type)]
      [] s.op = "AddConstraint" -> [cat EXCEPT !.cons = @ \cup {s.con}]
      [] s.op = "RenameConstraint" ->
            [cat EXCEPT !.cons = Renamed(@, {k \in @ : <<k.table, k.name>> = <<s.table, s.from>>}, s.name)]
      [] s.op = "DropConstraint" ->
            [cat EXCEPT !.cons = {k \in @ : <<k.table, k.name>> # <<s.table, s.name>>}]
      [] s.op = "CreateIndex" -> [cat EXCEPT !.ixs = @ \cup {s.ix}]
      [] s.op = "RenameIndex" -> [cat EXCEPT !.ixs = Renamed(@, {i \in @ : i.name = s.from}, s.name)]
      [] s.op = "DropIndex" -> [cat EXCEPT !.ixs = {i \in @ : i.name # s.name}]
      [] s.op = "CreateFunction" -> [cat EXCEPT !.fns = @ \cup {s.name}]
      [] s.op = "DropFunction" -> [cat EXCEPT !.fns = @ \ {s.name}]
      [] s.op = "CreateTrigger" ->
            [cat EXCEPT !.trgs = @ \cup {[table |-> s.table, name |-> s.name]}]
      [] s.op = "DropTrigger" ->
            [cat EXCEPT !.trgs = @ \ {[table |-> s.table, name |-> s.name]}]
      [] s.op = "CreateView" -> [cat EXCEPT !.views = With(@, s.view, s.reads)]
      [] s.op = "DropView" -> [cat EXCEPT !.views = Without(@, {s.view})]
      [] s.op = "DropColumn" ->
            [cat EXCEPT !.tables[s.table] = Without(@, {s.col}),
                       !.cons = {k \in @ : <<k.table, k.col>> # <<s.table, s.col>>},
                       !.ixs = {i \in @ : <<i.table, i.col>> # <<s.table, s.col>>},
                       !.rows = @ \ {<<s.table, s.col>>}]
      [] s.op = "DropTable" ->
            [cat EXCEPT !.tables = Without(@, {s.table}),
                       !.cons = {k \in @ : k.table # s.table},
                       !.ixs = {i \in @ : i.table # s.table},
                       !.trgs = {g \in @ : g.table # s.table},
                       !.rows = {c \in @ : c[1] # s.table}]

\* What a file inside BEGIN and COMMIT makes of the catalog, its statements one
\* after the other: one catalog, or none when Postgres refuses one of them.
Batch(cat, file) ==
    LET run[i \in 0..Len(file)] ==
          IF i = 0 THEN {cat}
          ELSE {After(c, file[i]) : c \in {c \in run[i - 1] : Applies(c, file[i])}}
    IN  run[Len(file)]
=============================================================================
