------------------------------ MODULE MCMigrate ------------------------------
(***************************************************************************)
(* Migrate on the files that SchemaDiff writes: a first migration creates  *)
(* a schema with every kind of object, and one or two more edit it.        *)
(***************************************************************************)
EXTENDS Migrate, SchemaDiff, TLC

CONSTANTS d1, d2

Ixd(c, how) == [col |-> c, how |-> how]
Refd(c, t, k) == [col |-> c, ref |-> <<t, k>>]

\* Accounts (2) with a unique, an index and a trigger; members (3) that refer
\* to them; a view (6) over accounts and a view (5) over that view.
Base ==
    [tables |->
        2 :> [cols |-> 1 :> "int" @@ 2 :> "text" @@ 3 :> "text", pk |-> 1, uqs |-> {2},
              fks |-> {}, ixs |-> {Ixd(3, "first")}, touch |-> TRUE] @@
        3 :> [cols |-> 1 :> "int" @@ 2 :> "int" @@ 3 :> "text", pk |-> 1, uqs |-> {},
              fks |-> {Refd(2, 2, 1)}, ixs |-> {}, touch |-> FALSE],
     views |-> 6 :> [cols |-> {<<2, 1>>, <<2, 2>>}, over |-> {}] @@
               5 :> [cols |-> {}, over |-> {6}],
     enums |-> 1 :> {1}]

New == [cols |-> 1 :> "int" @@ 2 :> "int", pk |-> 1, uqs |-> {}, fks |-> {Refd(2, 3, 1)},
        ixs |-> {Ixd(2, "first")}, touch |-> TRUE]

\* An edit: the kind, and what it is applied to.
Edits == <<
    [e |-> "column+", t |-> 2, c |-> 4], [e |-> "column-", t |-> 2, c |-> 3],
    [e |-> "column-", t |-> 3, c |-> 3], [e |-> "column-", t |-> 2, c |-> 2],
    [e |-> "retype", t |-> 2, c |-> 2], [e |-> "retype", t |-> 2, c |-> 3],
    [e |-> "rename column", t |-> 2, c |-> 2], [e |-> "rename column", t |-> 2, c |-> 1],
    [e |-> "rename column", t |-> 3, c |-> 2], [e |-> "rename column", t |-> 3, c |-> 3],
    [e |-> "rename table", t |-> 2, c |-> 1], [e |-> "rename table", t |-> 3, c |-> 1],
    [e |-> "rename table", t |-> 3, c |-> 4],
    [e |-> "table+", t |-> 4, c |-> 3], [e |-> "table+", t |-> 1, c |-> 2], [e |-> "table-", t |-> 3, c |-> 0],
    [e |-> "unique+", t |-> 3, c |-> 2], [e |-> "unique-", t |-> 2, c |-> 2],
    [e |-> "fk-", t |-> 3, c |-> 2], [e |-> "fk+", t |-> 3, c |-> 3],
    [e |-> "index+", t |-> 3, c |-> 3], [e |-> "index-", t |-> 2, c |-> 3],
    [e |-> "nulls last", t |-> 2, c |-> 3], [e |-> "key", t |-> 3, c |-> 3],
    [e |-> "touch", t |-> 2, c |-> 0], [e |-> "touch", t |-> 3, c |-> 0],
    [e |-> "view+", t |-> 7, c |-> 5], [e |-> "view-", t |-> 5, c |-> 0],
    [e |-> "reads", t |-> 6, c |-> 3], [e |-> "value", t |-> 1, c |-> 2],
    [e |-> "enum", t |-> 2, c |-> 1]>>

\* A declaration is a schema with its `was` markers.
Declared(s, was) == [s |-> s, was |-> was]
OnTable(s, t, T) == [s EXCEPT !.tables[t] = T]
ViewCols(s, Name(_)) ==
    [v \in DOMAIN s.views |-> [s.views[v] EXCEPT !.cols = {Name(c) : c \in s.views[v].cols}]]

RenameColumn(s, t, c, to) ==
    LET Ref(r) == IF r = <<t, c>> THEN <<t, to>> ELSE r
        Col(x) == IF x = c THEN to ELSE x
        T == s.tables[t]
        refs == [u \in DOMAIN s.tables |->
                    [s.tables[u] EXCEPT !.fks = {[f EXCEPT !.ref = Ref(f.ref)] : f \in s.tables[u].fks}]]
    IN [s EXCEPT !.tables = [refs EXCEPT ![t] =
            [refs[t] EXCEPT !.cols = Moved(@, c, to), !.pk = Col(@),
                            !.uqs = {Col(x) : x \in @},
                            !.fks = {[f EXCEPT !.col = Col(f.col)] : f \in @},
                            !.ixs = {[i EXCEPT !.col = Col(i.col)] : i \in @}]],
        !.views = ViewCols(s, Ref)]

RenameTable(s, t, to) ==
    LET Ref(r) == IF r[1] = t THEN <<to, r[2]>> ELSE r
        moved == Moved(s.tables, t, to)
    IN [s EXCEPT !.tables = [u \in DOMAIN moved |->
            [moved[u] EXCEPT !.fks = {[f EXCEPT !.ref = Ref(f.ref)] : f \in moved[u].fks}]],
        !.views = ViewCols(s, Ref)]

\* Whether the edit makes sense of a schema, and what it makes of it.
MayEdit(s, x) ==
    LET t == x.t  has == t \in DOMAIN s.tables IN
    CASE x.e \in {"column+", "touch"} -> has
      [] x.e = "table+" -> ~has /\ x.c \in DOMAIN s.tables
      [] x.e \in {"table-"} -> has
      [] x.e = "view+" -> x.c \in DOMAIN s.views /\ t \notin DOMAIN s.views
      [] x.e = "view-" -> t \in DOMAIN s.views /\ \A v \in DOMAIN s.views : t \notin s.views[v].over
      [] x.e = "reads" -> t \in DOMAIN s.views /\ <<2, x.c>> \in Columns(CatalogOf(s))
      [] x.e \in {"value", "enum"} -> TRUE
      [] x.e = "rename table" -> has /\ x.c \notin DOMAIN s.tables
      [] OTHER -> has /\ x.c \in DOMAIN s.tables[t].cols
Edit(s, x) ==
    LET t == x.t  c == x.c IN
    CASE x.e = "column+" -> [s EXCEPT !.tables[t].cols = With(@, c, "int")]
      [] x.e = "column-" ->
            [s EXCEPT !.tables[t].cols = Without(@, {c}), !.tables[t].uqs = @ \ {c},
                      !.tables[t].fks = {f \in @ : f.col # c}, !.tables[t].ixs = {i \in @ : i.col # c},
                      !.views = [v \in DOMAIN s.views |-> [s.views[v] EXCEPT !.cols = @ \ {<<t, c>>}]]]
      [] x.e = "retype" -> [s EXCEPT !.tables[t].cols[c] = "wide"]
      [] x.e = "rename column" -> RenameColumn(s, t, c, 5)
      [] x.e = "rename table" -> RenameTable(s, t, c)
      [] x.e = "table+" -> [s EXCEPT !.tables = With(@, t, [New EXCEPT !.fks = {Refd(2, c, s.tables[c].pk)}])]
      [] x.e = "table-" -> [s EXCEPT !.tables = Without(@, {t})]
      [] x.e = "unique+" -> [s EXCEPT !.tables[t].uqs = @ \cup {c}]
      [] x.e = "unique-" -> [s EXCEPT !.tables[t].uqs = @ \ {c}]
      [] x.e = "fk-" -> [s EXCEPT !.tables[t].fks = {f \in @ : f.col # c}]
      [] x.e = "fk+" -> [s EXCEPT !.tables[t].fks = @ \cup {Refd(c, 2, 2)}]
      [] x.e = "index+" -> [s EXCEPT !.tables[t].ixs = @ \cup {Ixd(c, "first")}]
      [] x.e = "index-" -> [s EXCEPT !.tables[t].ixs = {i \in @ : i.col # c}]
      [] x.e = "nulls last" -> [s EXCEPT !.tables[t].ixs = {Ixd(c, "last")}]
      [] x.e = "key" -> [s EXCEPT !.tables[t].pk = c]
      [] x.e = "touch" -> [s EXCEPT !.tables[t].touch = ~@]
      [] x.e = "view+" -> [s EXCEPT !.views = With(@, t, [cols |-> {}, over |-> {c}])]
      [] x.e = "view-" -> [s EXCEPT !.views = Without(@, {t})]
      [] x.e = "reads" -> [s EXCEPT !.views[t].cols = @ \cup {<<2, c>>}]
      [] x.e = "value" -> [s EXCEPT !.enums[t] = @ \cup {c}]
      [] x.e = "enum" -> [s EXCEPT !.enums = With(@, t, {c})]

Marker(x) ==
    CASE x.e = "rename column" -> [tables |-> <<>>, cols |-> <<x.t, 5>> :> x.c]
      [] x.e = "rename table" -> [tables |-> x.c :> x.t, cols |-> <<>>]
      [] OTHER -> NoWas

\* A program that compiles: what is referred to is there.
Compiles(s) ==
    LET c == CatalogOf(s) IN
    /\ \A k \in c.cons : /\ <<k.table, k.col>> \in Columns(c)
                         /\ k.kind = "fk" => \E j \in c.cons : IsKey(j) /\ <<j.table, j.col>> = k.ref
    /\ \A t \in DOMAIN s.tables : s.tables[t].pk \notin s.tables[t].uqs
    /\ \A i \in c.ixs : <<i.table, i.col>> \in Columns(c)
    /\ \A v \in DOMAIN s.views : s.views[v].cols \subseteq Columns(c) /\ s.views[v].over \subseteq DOMAIN s.views

\* The markers of two edits made together: a column is named under what its
\* table is called in the end.
Markers(x, y) ==
    LET a == Marker(x)  b == Marker(y)
        Table(u) == IF y.e = "rename table" /\ y.t = u THEN y.c ELSE u
        first == DOMAIN a.cols
    IN [tables |-> a.tables @@ b.tables,
        cols |-> [d \in {<<Table(u[1]), u[2]>> : u \in first} |-> x.c] @@ b.cols]
------------------------------------------------------------------------------
(* The projects: the first migration creates Base, the second edits it. *)

First == Plan(Nothing, Base, NoWas)

OneEdit == {i \in DOMAIN Edits :
    /\ MayEdit(Base, Edits[i]) /\ Compiles(Edit(Base, Edits[i]))
    /\ Separable(Base, Edit(Base, Edits[i]), Marker(Edits[i]))}
Both(p) == Edit(Edit(Base, Edits[p[1]]), Edits[p[2]])
Makes(p) ==
    LET x == Edits[p[1]]  y == Edits[p[2]] IN
    /\ x # y /\ MayEdit(Base, x) /\ MayEdit(Edit(Base, x), y) /\ Compiles(Both(p))
    /\ Separable(Base, Both(p), Markers(x, y))
\* In both orders only when the order makes a difference.
TwoEdits == {p \in (DOMAIN Edits) \X (DOMAIN Edits) :
    Makes(p) /\ (p[1] < p[2] \/ ~Makes(<<p[2], p[1]>>) \/ Both(<<p[2], p[1]>>) # Both(p))}

Declarations ==
    {Declared(Edit(Base, Edits[i]), Marker(Edits[i])) : i \in OneEdit} \cup
    {Declared(Both(p), Markers(Edits[p[1]], Edits[p[2]])) : p \in TwoEdits}

\* Two values, outside of a transaction, and then a new column and a renamed one.
Busy ==
    LET rename == [e |-> "rename column", t |-> 3, c |-> 3]
        edits == <<[e |-> "value", t |-> 1, c |-> 2], [e |-> "value", t |-> 1, c |-> 3],
                   [e |-> "column+", t |-> 2, c |-> 4], rename>>
    IN  Declared(FoldLeft(Edit, Base, edits), Marker(rename))

\* One deploy for every pair of edits; two at once, of which one fails or dies.
Project(fs, busy) ==
    [files |-> fs, crew |-> IF busy THEN {d1, d2} ELSE {d1}, foreign |-> busy,
     faults |-> IF busy THEN 1 ELSE 0,
     commands |-> {c \in Commands(Len(fs)) : IF busy THEN c.checkout > 1
                                             ELSE c.kind # "baseline" /\ c.checkout = Len(fs)}]
\* TLC evaluates Written once, and what a constant is replaced by at every use.
Written == {Project(First \o Plan(Base, d.s, d.was), d = Busy) : d \in Declarations \cup {Busy}}
Histories == Written
=============================================================================
