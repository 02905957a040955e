------------------------------- MODULE Migrate -------------------------------
(***************************************************************************)
(* `jwc migrate up`, `down` and `baseline` (apply.rs) run by deploys that  *)
(* share a database: the session-level advisory lock, the table of records *)
(* _jwc_migrations, the files of a migration and what may stop between two *)
(* of their statements.                                                    *)
(*                                                                         *)
(* A project is the sequence of the files that were ever written, and a    *)
(* checkout is how many of them a deploy has.  What a deploy has sent and  *)
(* not seen the answer of is "on the wire": Postgres runs it also when the *)
(* deploy is gone, and only then ends its session and frees its lock.      *)
(***************************************************************************)
EXTENDS Catalog, FiniteSetsExt

CONSTANTS
    Deploys,     \* processes that run a command
    Nobody,      \* who has the lock when no deploy has it
    Orphan,      \* the session of a deploy that is gone
    Projects,    \* each with its files, the deploys that use it, the
                 \* commands they run, whether its database may have been
                 \* built by something else, and a bound: the errors and
                 \* crashes they meet
    MaxRuns      \* bound: commands started

ASSUME SessionsAssumption == Nobody \notin Deploys /\ Orphan \notin Deploys /\ Nobody # Orphan
ASSUME BoundsAssumption == MaxRuns \in Nat

VARIABLES
    project,   \* the project
    db,        \* the catalog of the database
    recorded,  \* the rows of _jwc_migrations
    apart,     \* something else built the database, or a baseline left
               \* differences outstanding: the records do not tell its shape
    lock,      \* who has the advisory lock
    orphan,    \* what the session of a deploy that is gone still runs, or none
    pc,        \* where each deploy is
    cmd,       \* the command it runs
    done,      \* the records it read after it took the lock
    at,        \* the file it is at
    stmt,      \* the statement it is at, of a file outside of a transaction
    left,      \* the files it has still to roll back
    runs,      \* commands started so far
    faults     \* errors and crashes so far

database == <<db, recorded, apart>>
session  == <<lock, orphan>>
deploy   == <<cmd, done, at, stmt, left>>
vars == <<project, database, session, pc, deploy, runs, faults>>

files == project.files
N == Len(files)
NoWire == [op |-> "none", at |-> 0, stmt |-> 0]
OnWire == {"file", "value", "record", "mark", "undo"}

\* A command: what it does, how many files the checkout has, and the ordinal
\* it stops after or how many files it rolls back.
Commands(n) == {c \in [kind : {"up", "down", "baseline"}, checkout : 1..n, count : 1..n] :
                    c.kind \in {"up", "baseline"} => c.count <= c.checkout}
ASSUME ProjectsAssumption ==
    \A p \in Projects :
        /\ Len(p.files) \in Nat \ {0} /\ p.foreign \in BOOLEAN
        /\ p.commands \subseteq Commands(Len(p.files))
        /\ p.crew \subseteq Deploys /\ p.faults \in Nat
NoCommand == [kind |-> "none", checkout |-> 1, count |-> 1]

Init ==
    /\ project \in Projects
    /\ \/ db = Empty /\ apart = FALSE
       \/ project.foreign /\ db = files[N].shape /\ apart = TRUE
    /\ recorded = {}
    /\ lock = Nobody
    /\ orphan = NoWire
    /\ pc = [d \in Deploys |-> "idle"]
    /\ cmd = [d \in Deploys |-> NoCommand]
    /\ done = [d \in Deploys |-> {}]
    /\ at = [d \in Deploys |-> 0]
    /\ stmt = [d \in Deploys |-> 0]
    /\ left = [d \in Deploys |-> 0]
    /\ runs = 0
    /\ faults = 0
------------------------------------------------------------------------------
(* What Postgres does with what is on the wire. *)

Wire(d) == [op |-> pc[d], at |-> at[d], stmt |-> stmt[d]]

Way(w) == CASE w.op = "file"  -> files[w.at].up
            [] w.op = "value" -> <<files[w.at].up[w.stmt]>>
            [] w.op = "undo"  -> files[w.at].down
            [] OTHER -> <<>>
Records == {"file", "record", "mark"}

\* A record is a row whose primary key is the name of the file.
Accepts(w) == Batch(db, Way(w)) # {} /\ (w.op \in Records => w.at \notin recorded)

\* The shape the records tell, and whether the database has it: types and
\* their values are never taken away.
Shape(rows) == IF rows = {} THEN Empty ELSE files[Max(rows)].shape
Matches(c, shape) ==
    /\ [c EXCEPT !.enums = <<>>, !.rows = {}] = [shape EXCEPT !.enums = <<>>, !.rows = {}]
    /\ \A e \in DOMAIN shape.enums : e \in DOMAIN c.enums /\ shape.enums[e] \subseteq c.enums[e]

Recorded(w) == IF w.op \in Records THEN recorded \cup {w.at}
               ELSE IF w.op = "undo" THEN recorded \ {w.at} ELSE recorded

\* Mutant: the record of a file is not inside its transaction.
ExecutesApart(w) ==
    /\ Accepts(w)
    /\ db' \in Batch(db, Way(w))
    /\ recorded' \in {recorded, Recorded(w)}
    /\ apart' = IF w.op = "mark" THEN ~Matches(db, Shape(recorded')) ELSE apart
Executes(w) ==
    /\ Accepts(w)
    /\ db' \in Batch(db, Way(w))
    /\ recorded' = Recorded(w)
    /\ apart' = IF w.op = "mark" THEN ~Matches(db, Shape(recorded')) ELSE apart

\* A process that is over takes what it knew with it.
Forget(d) ==
    /\ pc' = [pc EXCEPT ![d] = "idle"]
    /\ cmd' = [cmd EXCEPT ![d] = NoCommand]
    /\ done' = [done EXCEPT ![d] = {}]
    /\ at' = [at EXCEPT ![d] = 0]
    /\ stmt' = [stmt EXCEPT ![d] = 0]
    /\ left' = [left EXCEPT ![d] = 0]
------------------------------------------------------------------------------
(* A command: the lock first, then the records, then file after file. *)

Start(d, c) ==
    /\ pc[d] = "idle" /\ d \in project.crew /\ runs < MaxRuns
    /\ cmd' = [cmd EXCEPT ![d] = c]
    /\ pc' = [pc EXCEPT ![d] = "lock"]
    /\ runs' = runs + 1
    /\ UNCHANGED <<project, database, session, done, at, stmt, left, faults>>

\* Mutant: a lock that does not exclude.
TakeLockShared(d) ==
    /\ pc[d] = "lock"
    /\ lock' = d
    /\ pc' = [pc EXCEPT ![d] = IF cmd[d].kind = "baseline" THEN "gate" ELSE "read"]
    /\ UNCHANGED <<project, database, orphan, deploy, runs, faults>>

TakeLock(d) ==
    /\ pc[d] = "lock" /\ lock = Nobody
    /\ lock' = d
    /\ pc' = [pc EXCEPT ![d] = IF cmd[d].kind = "baseline" THEN "gate" ELSE "read"]
    /\ UNCHANGED <<project, database, orphan, deploy, runs, faults>>
\* check_live_schema: every declared table and column is there.
Gate(d) ==
    LET shape == files[cmd[d].checkout].shape IN
    /\ pc[d] = "gate"
    /\ pc' = [pc EXCEPT ![d] =
          IF DOMAIN shape.tables \subseteq DOMAIN db.tables /\ Columns(shape) \subseteq Columns(db)
          THEN "read" ELSE "failed"]
    /\ UNCHANGED <<project, database, session, deploy, runs, faults>>

Read(d) ==
    /\ pc[d] = "read"
    /\ done' = [done EXCEPT ![d] = recorded]
    /\ at' = [at EXCEPT ![d] = IF cmd[d].kind = "down" THEN N + 1 ELSE 0]
    /\ left' = [left EXCEPT ![d] = cmd[d].count]
    /\ pc' = [pc EXCEPT ![d] = "next"]
    /\ UNCHANGED <<project, database, session, cmd, stmt, runs, faults>>

Pending(d) ==
    {f \in 1..cmd[d].checkout : f <= cmd[d].count /\ f \notin done[d] /\ f > at[d]}
\* The next file goes out: as one batch, statement by statement, or only its
\* record.
TakeFile(d) ==
    /\ pc[d] = "next" /\ cmd[d].kind # "down" /\ Pending(d) # {}
    /\ at' = [at EXCEPT ![d] = Min(Pending(d))]
    /\ stmt' = [stmt EXCEPT ![d] = 1]
    /\ pc' = [pc EXCEPT ![d] = IF cmd[d].kind = "baseline" THEN "mark"
                               ELSE IF files[Min(Pending(d))].loose THEN "value" ELSE "file"]
    /\ UNCHANGED <<project, database, session, cmd, done, left, runs, faults>>

\* The newest record that is left to roll back, by its name.
Newest(d) == Max({f \in done[d] : f < at[d]})
ToUndo(d) == cmd[d].kind = "down" /\ left[d] > 0 /\ \E f \in done[d] : f < at[d]
TakeUndo(d) ==
    /\ pc[d] = "next" /\ ToUndo(d)
    /\ at' = [at EXCEPT ![d] = Newest(d)]
    /\ left' = [left EXCEPT ![d] = @ - 1]
    \* No file here by that name, or one that is marked irreversible.
    /\ pc' = [pc EXCEPT ![d] =
          IF Newest(d) <= cmd[d].checkout /\ files[Newest(d)].undoable THEN "undo" ELSE "failed"]
    /\ UNCHANGED <<project, database, session, cmd, done, stmt, runs, faults>>

NothingLeft(d) ==
    /\ pc[d] = "next"
    /\ IF cmd[d].kind = "down" THEN ~ToUndo(d) ELSE Pending(d) = {}
    /\ pc' = [pc EXCEPT ![d] = "ended"]
    /\ UNCHANGED <<project, database, session, deploy, runs, faults>>
------------------------------------------------------------------------------
(* The answer. *)

MoreValues(d) == pc[d] = "value" /\ stmt[d] < Len(files[at[d]].up)

Done(d) ==
    /\ pc[d] \in OnWire
    /\ Executes(Wire(d))
    /\ stmt' = IF MoreValues(d) THEN [stmt EXCEPT ![d] = @ + 1] ELSE stmt
    /\ pc' = [pc EXCEPT ![d] = IF MoreValues(d) THEN "value"
                               ELSE IF pc[d] = "value" THEN "record" ELSE "next"]
    /\ UNCHANGED <<project, session, cmd, done, at, left, runs, faults>>
\* Postgres refuses it, or it fails for a reason of its own (rows that do not
\* fit, a timeout): the transaction, if any, is rolled back.
Refused(d) ==
    /\ pc[d] \in OnWire /\ ~Accepts(Wire(d))
    /\ pc' = [pc EXCEPT ![d] = "failed"]
    /\ UNCHANGED <<project, database, session, deploy, runs, faults>>

\* Mutant: the loop goes on with the file after one that failed.
FailsOver(d) ==
    /\ pc[d] \in OnWire /\ faults < project.faults
    /\ faults' = faults + 1
    /\ pc' = [pc EXCEPT ![d] = "next"]
    /\ UNCHANGED <<project, database, session, deploy, runs>>

Fails(d) ==
    /\ pc[d] \in OnWire /\ faults < project.faults
    /\ faults' = faults + 1
    /\ pc' = [pc EXCEPT ![d] = "failed"]
    /\ UNCHANGED <<project, database, session, deploy, runs>>
\* Mutant: the way out of a failure keeps the lock.
ReleaseSuccess(d) ==
    /\ pc[d] \in {"ended", "failed"}
    /\ lock' = IF pc[d] = "ended" THEN Nobody ELSE lock
    /\ Forget(d)
    /\ UNCHANGED <<project, database, orphan, runs, faults>>
Release(d) ==
    /\ pc[d] \in {"ended", "failed"}
    /\ lock' = Nobody
    /\ Forget(d)
    /\ UNCHANGED <<project, database, orphan, runs, faults>>

\* The process dies, or its connection does.  A session that waits for an
\* answer outlives it; any other ends, and its lock with it.
Crash(d) ==
    /\ pc[d] # "idle" /\ faults < project.faults
    /\ faults' = faults + 1
    /\ Forget(d)
    /\ IF pc[d] \in OnWire
       THEN lock' = Orphan /\ orphan' = Wire(d)
       ELSE lock' = (IF lock = d THEN Nobody ELSE lock) /\ UNCHANGED orphan
    /\ UNCHANGED <<project, database, runs>>

OrphanEnds ==
    /\ orphan # NoWire
    /\ Executes(orphan) \/ UNCHANGED database
    /\ orphan' = NoWire
    /\ lock' = Nobody
    /\ UNCHANGED <<project, pc, deploy, runs, faults>>
------------------------------------------------------------------------------
Proceeds(d) == \/ Gate(d) \/ Read(d) \/ TakeFile(d) \/ TakeUndo(d) \/ NothingLeft(d)
               \/ Done(d) \/ Refused(d) \/ Release(d)

Next ==
    \/ \E d \in Deploys : \/ \E c \in project.commands : Start(d, c)
                          \/ TakeLock(d) \/ Proceeds(d) \/ Fails(d) \/ Crash(d)
    \/ OrphanEnds

\* A command that runs goes on; Postgres ends the session of a client that is
\* gone, and hands the lock to those who wait for it in turn.
Fairness == /\ \A d \in Deploys : WF_vars(Proceeds(d)) /\ SF_vars(TakeLock(d))
            /\ WF_vars(OrphanEnds)

Spec == Init /\ [][Next]_vars /\ Fairness
------------------------------------------------------------------------------
(* Properties. *)

\* Types, and what each place of a deploy implies: who is past the lock has it
\* (apply.rs, lock), and what is on the wire is a file of the project.
TypeOK ==
    /\ project \in Projects
    /\ recorded \subseteq 1..N /\ apart \in BOOLEAN
    /\ lock \in Deploys \cup {Nobody, Orphan}
    /\ orphan \in [op : OnWire \cup {"none"}, at : 0..N, stmt : Nat]
    /\ pc \in [Deploys -> {"idle", "lock", "gate", "read", "next", "ended", "failed"} \cup OnWire]
    /\ cmd \in [Deploys -> Commands(N) \cup {NoCommand}]
    /\ done \in [Deploys -> SUBSET (1..N)]
    /\ at \in [Deploys -> 0..(N + 1)]
    /\ stmt \in [Deploys -> Nat] /\ left \in [Deploys -> 0..N]
    /\ runs \in 0..MaxRuns /\ faults \in 0..project.faults
    /\ \A d \in Deploys : pc[d] \in OnWire => at[d] \in 1..N
    /\ \A d \in Deploys : pc[d] \in {"idle", "lock"} <=> lock # d
    /\ orphan # NoWire <=> lock = Orphan

\* The records are the files up to one, and the database has the shape that a
\* database created from the schema declared then would have: no file applied
\* and not recorded, recorded and not applied, applied twice or in the wrong
\* place, whatever runs at once, fails or is rolled back.
RecordsTellSchema ==
    ~apart => /\ \E k \in 0..N : recorded = 1..k
              /\ Matches(db, Shape(recorded))

\* A file applied again after it was rolled back: the types it creates are
\* still there, since no file ever drops one.
CreatesAgain(f) == \E i \in 1..Len(files[f].up) :
    files[f].up[i].op = "CreateEnum" /\ files[f].up[i].enum \in DOMAIN db.enums

\* Nothing else a command sends is refused for what is in the catalog: the files
\* fit the database they meet, the way up and the way back, also after a crash
\* in the middle of one that runs outside of a transaction (migrate.rs, render;
\* diff.rs, compute).
FilesApply ==
    \A d \in Deploys : ~apart /\ pc[d] \in OnWire =>
        Accepts(Wire(d)) \/ (pc[d] = "file" /\ CreatesAgain(at[d]))

\* An `up` that ends well has left no file pending that it was asked for: the
\* records it read once are still true at its end.
UpDelivers ==
    \A d \in Deploys : pc[d] = "ended" /\ cmd[d].kind = "up" =>
        \A f \in 1..cmd[d].checkout : f <= cmd[d].count => f \in recorded

\* The values of a column are there after a file as they were before it, when
\* the declarations keep the column, under a new name or not, and back again.
FullOf(c) == [c EXCEPT !.rows = Columns(c)]
RowsCarried ==
    \A d \in Deploys : ~apart /\ pc[d] \in {"file", "undo"} =>
        LET kept == {IF pc[d] = "file" THEN p[2] ELSE p[1] : p \in files[at[d]].carried} IN
        \A after \in Batch(FullOf(db), Way(Wire(d))) : kept \subseteq after.rows

\* What each file is to do on its own (migrate.rs, plan and render): it runs on a
\* database created from the schema that was declared before it and makes of it
\* one created from the schema declared with it, and the values of the columns
\* that are kept are still there; the way back does the reverse.  A file that
\* runs outside of a transaction only adds values to types and has no way back.
ShapeOf(p, f) == IF f = 0 THEN Empty ELSE p.files[f].shape
IsWay(way) == Len(way) \in Nat /\ \A i \in 1..Len(way) : way[i].op \in Statements
Turns(from, way, to, kept) ==
    LET after == Batch(FullOf(from), way) IN
    after # {} /\ \A c \in after : Matches(c, to) /\ kept \subseteq c.rows
FileFits(p, f) ==
    LET file == p.files[f]  before == ShapeOf(p, f - 1)  after == ShapeOf(p, f) IN
    /\ IsCatalog(after) /\ IsWay(file.up) /\ IsWay(file.down)
    /\ Turns(before, file.up, after, {c[2] : c \in file.carried})
    /\ file.loose => /\ ~file.undoable /\ Len(file.up) > 0
                     /\ \A i \in 1..Len(file.up) : file.up[i].op = "AddEnumValue"
    /\ file.undoable => /\ Turns(after, file.down, before, {c[1] : c \in file.carried})
                        /\ \A i \in 1..Len(file.down) : file.down[i].op # "CreateEnum"
FilesFit == \A f \in 1..N : FileFits(project, f)

\* A command that waits for the lock gets it, or is gone, whatever becomes of
\* the one that has it.
LockComes == \A d \in Deploys : pc[d] = "lock" ~> pc[d] # "lock"
=============================================================================
