-------------------------------- MODULE Paging --------------------------------
(***************************************************************************)
(* A caller that runs a query and follows its pages while others write      *)
(* (exec.rs, run_sql, page_envelope, read_cursor; cursor.rs).               *)
(***************************************************************************)
EXTENDS QueryMeaning

CONSTANTS
    Queries,    \* what programs ask: the accepted ones of these
    Databases,  \* table -> rows
    Fresh,      \* table -> rows others may insert; their ids are new
    Heaps,      \* orders in which Postgres may find rows that tie
    MaxWrites,
    MaxSeen     \* how many items the caller reads before it gives up

ASSUME PagingAssumption == MaxWrites \in Nat /\ MaxSeen \in Nat

VARIABLES
    query,
    sql,     \* what it compiled to
    db,
    cursor,  \* keys of the last row, <<>> for none
    answer,  \* items of the last answer
    seen,    \* keys of the rows of all pages
    stays,   \* keys of the rows that are there since the caller began
    asked,   \* asking, done, failed
    writes

walk == <<query, sql, db, cursor, answer, seen, stays, asked, writes>>

Ids(rows) == {row.id : row \in rows}
Paged == query.bound.by = "page"

Compiled == {q \in {Plan(q) : q \in Queries} : Accepts(q)}
PagingInit(compiled) ==
    /\ query \in compiled
    /\ sql = Compile(query)
    /\ db \in Databases
    /\ stays = Ids(db[query.table])
    /\ cursor = <<>> /\ answer = <<>> /\ seen = <<>>
    /\ asked = "asking" /\ writes = 0

Fails ==
    /\ asked = "asking" /\ ~InScope(sql)
    /\ asked' = "failed"
    /\ UNCHANGED <<query, sql, db, cursor, answer, seen, stays, writes>>

AskRows ==
    /\ asked = "asking" /\ ~Paged /\ InScope(sql)
    /\ \E heap \in Heaps : answer' = Items(sql, Chosen(db, sql, <<>>, heap))
    /\ asked' = "done"
    /\ UNCHANGED <<query, sql, db, cursor, seen, stays, writes>>

\* The envelope: the items, and a cursor when there was a row more.
NextCursor(chosen, n) == [k \in DOMAIN sql.total |-> Cell(chosen[n].env, sql.total[k].col)]
AskPage ==
    /\ asked = "asking" /\ Paged /\ InScope(sql) /\ Len(seen) < MaxSeen
    /\ \E heap \in Heaps : \E chosen \in {Chosen(db, sql, cursor, heap)} :
         LET n == PageBound(query.bound)
             page == Limited(chosen, n) IN
         /\ answer' = Items(sql, page)
         /\ seen' = seen \o [k \in DOMAIN page |-> page[k].env[query.binder].id]
         /\ cursor' = IF Len(chosen) > n THEN NextCursor(chosen, n) ELSE <<>>
         /\ asked' = IF Len(chosen) > n THEN "asking" ELSE "done"
    /\ UNCHANGED <<query, sql, db, stays, writes>>

\* Others, between two pages.
Meanwhile == asked = "asking" /\ seen # <<>> /\ writes < MaxWrites
Writes(rows) ==
    /\ Meanwhile
    /\ db' = [db EXCEPT ![query.table] = rows]
    /\ stays' = stays \cap Ids(rows)
    /\ writes' = writes + 1
    /\ UNCHANGED <<query, sql, cursor, answer, seen, asked>>
Insert == \E row \in Fresh[query.table] \ db[query.table] : Writes(db[query.table] \cup {row})
Delete == \E row \in db[query.table] : Writes(db[query.table] \ {row})

Ask == Fails \/ AskRows \/ AskPage
PagingNext == Ask \/ Insert \/ Delete
------------------------------------------------------------------------------
(* Properties. *)

PagingTypeOK ==
    /\ Accepts(query)
    /\ asked \in {"asking", "done", "failed"}
    /\ writes \in 0..MaxWrites
    /\ stays \subseteq Ids(db[query.table])
    /\ cursor # <<>> => Paged /\ asked = "asking" /\ Len(cursor) = Len(sql.total)

\* A query that is accepted runs, and answers the rows, the nulls, the
\* collections and the counts it was written to (query_sql.rs, compile;
\* queries.md 4 to 6); `first` without an order has one row to choose from.
ReadsAsWritten ==
    Plain(query) =>
        /\ asked # "failed"
        /\ asked = "done" /\ (Paged => Len(seen) = Len(answer)) /\ writes = 0 =>
              Tells(db, query, answer)
        /\ query.bound.by = "first" /\ query.orderby = <<>> /\ ~WholeTable(query) =>
              Cardinality(Driving(db, query)) <= 1

\* Pages repeat no row, and when there is no next one they have shown every
\* row that was there all along, whatever was inserted and deleted meanwhile;
\* a page with a next one shows a row, so that following them ends
\* (query_sql.rs, page_order, keyset, page_cte, page_bound; queries.md 9.3:
\* "cannot loop", 9.4: a page "either repeats one or skips one").
PagesOnce ==
    Plain(query) /\ Positions(query) =>
        /\ IsInjective(seen)
        /\ cursor # <<>> => answer # <<>>
        /\ asked = "done" /\ Paged =>
              stays \cap {e[query.binder].id : e \in Driving(db, query)} \subseteq ToSet(seen)
=============================================================================
