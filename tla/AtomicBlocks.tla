---------------------------- MODULE AtomicBlocks ----------------------------
(***************************************************************************)
(* What `transaction { }` and a statement outside of one promise           *)
(* (docs/spec/v1/writes.md, 7.1; docs/spec/v1/testing.md, 2.1 and 4.4),    *)
(* with no connection and no pool in sight.  A statement outside a block   *)
(* is stored at once; the statements of a block are stored together when   *)
(* it commits, or never, except those undone to a savepoint before that.   *)
(* The scope around a test is a block that never commits.                  *)
(***************************************************************************)
CONSTANTS Requests, Stmts, Levels, Committing

VARIABLES
    store,  \* what is durable: pairs of a request and a statement of it
    open,   \* [Requests -> SUBSET Levels]: the blocks a request is inside of
    work,   \* [Requests -> [Levels -> what the block has written]]
    kept    \* [Requests -> [Levels -> what a savepoint of it would keep]]

vars == <<store, open, work, kept>>

Nothing == [r \in Requests |-> [l \in Levels |-> {}]]

Init == /\ store = {}
        /\ open = [r \in Requests |-> {}]
        /\ work = Nothing
        /\ kept = Nothing

Written(r) == {r} \X Stmts

Store(r) ==
    /\ open[r] = {}
    /\ \E w \in Written(r) : store' = store \cup {w}
    /\ UNCHANGED <<open, work, kept>>

Enter(r, l) ==
    /\ l \notin open[r]
    /\ open' = [open EXCEPT ![r] = @ \cup {l}]
    /\ UNCHANGED <<store, work, kept>>

Stage(r, l) ==
    /\ l \in open[r]
    /\ \E w \in Written(r) : work' = [work EXCEPT ![r][l] = @ \cup {w}]
    /\ UNCHANGED <<store, open, kept>>

Mark(r, l) ==
    /\ l \in open[r]
    /\ kept' = [kept EXCEPT ![r][l] = work[r][l]]
    /\ UNCHANGED <<store, open, work>>

Unmark(r, l) ==
    /\ kept' = [kept EXCEPT ![r][l] = {}]
    /\ UNCHANGED <<store, open, work>>

UndoToMark(r, l) ==
    /\ work' = [work EXCEPT ![r][l] = kept[r][l]]
    /\ kept' = [kept EXCEPT ![r][l] = {}]
    /\ UNCHANGED <<store, open>>

\* Postgres loses what an open block wrote with the connection.
Lose(r, l) ==
    /\ work' = [work EXCEPT ![r][l] = {}]
    /\ kept' = [kept EXCEPT ![r][l] = {}]
    /\ UNCHANGED <<store, open>>

Leave(r, l) ==
    /\ l \in open[r]
    /\ open' = [open EXCEPT ![r] = @ \ {l}]
    /\ work' = [work EXCEPT ![r][l] = {}]
    /\ kept' = [kept EXCEPT ![r][l] = {}]

Commit(r, l) ==
    /\ l \in Committing
    /\ Leave(r, l)
    /\ store' = store \cup work[r][l]

Rollback(r, l) ==
    /\ Leave(r, l)
    /\ UNCHANGED store

Next == \E r \in Requests :
            \/ Store(r)
            \/ \E l \in Levels :
                \/ Enter(r, l) \/ Stage(r, l) \/ Commit(r, l) \/ Rollback(r, l)
                \/ Mark(r, l) \/ Unmark(r, l) \/ UndoToMark(r, l) \/ Lose(r, l)

Spec == Init /\ [][Next]_vars
=============================================================================
