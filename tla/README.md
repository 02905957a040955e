# A TLA+ verification of jwc-lang

jwc is a Postgres-first backend language: a compiler front end, an interpreter
and an HTTP runtime in Rust (`src/src`), a native code generator that mirrors
the runtime (`src/src/native`), and migration tooling. This directory models the
parts of the runtime where actors interleave, checks them with TLC, and proves
with TLAPS what matters most for every instance. It also models the pure
algorithms a test hardly reaches: what a migration is made of, what the checks of
`jwc check` decide, what SQL a query becomes, what a program means to the checker, the
interpreter and the code generator, what `jwc fmt` does to a file. Paths below are relative to
the repository, which this project sees as `src/`.

## 1. Inventory

### The parts of the system

| Part | Code | State it keeps | Who calls it |
|---|---|---|---|
| job queue | `jobs.rs`, `serve.rs` (`job_worker`, `start_job_workers`), `exec.rs` (`Stmt::Dispatch`) | the tables `_jwc_jobs`, `_jwc_jobs_dead`; one `Claim` per worker task | requests enqueue, workers of every process claim and settle, boots seed the clock |
| transactions and pool | `engine.rs`, `db.rs`, `exec.rs` (`in_scoped_transaction`, `in_savepoint`) | pooled connections, the task-local `TX_CONN` | every statement of every handler |
| request pipeline | `serve.rs` (`handle*`), `exec.rs`, `exec_call.rs` | per-request `Vm`; nothing survives a request | hyper connections; bounded by `request_timeout` |
| websockets | `serve.rs` (`socket_*`, `drive_socket`) | `open_sockets` counter, one task per connection | upgrades |
| buffered log writer | `log_writer.rs` | bounded channel, pending batch, five counters | `insert buffered` in any handler |
| server lifecycle | `serve.rs` (`serve`, `shutdown_signal`) | listener, connections being drained | SIGTERM, Ctrl-C |
| migrations | `apply.rs`, `migrate.rs`, `diff.rs`, `snapshot.rs` | `_jwc_migrations`, a session advisory lock, migration files | `jwc migrate` of each deploy |
| JWKS cache | `jwks.rs` | key sets by URL, time of fetch and of forced fetch | `jwt_verify` |
| in-process cache | `cache.rs` | map with expiry and a sequence number | `cache.*` built-ins |
| redis client | `redis_engine.rs` | a pool | `/readyz` only |
| compiler | `lexer.rs` ... `query_sql.rs`, `check.rs` | none between passes; scopes, narrowed types and loop depth of a body | boot, `jwc check`, LSP |
| native backend | `native/` | generated code; the scopes and `i64` locals of a body | `jwc build` |
| tooling | `cmd/`, `fmt.rs`, `lsp.rs`, `openapi.rs`, `registry.rs` | none shared | a developer |

### How they interact

* A request runs its handler in a `Vm`; each SQL statement takes a pooled
  connection, or the pinned one inside `transaction { }`. A `dispatch` is one more
  statement on that connection, so a job exists when the transaction commits.
* Workers are tasks of the same process. They share nothing with requests but
  the database; between two of their statements any other process may act.
* `request_timeout` drops the future of the whole request at any `.await`.
* At boot a process creates tables, rewrites the schedule and only then starts
  workers; it serves requests even when that failed. At shutdown the workers and
  the log writer are not waited for.

### Hard behaviours, and what makes each part correct

* Job queue: two workers on one row after a lease ended, settlement by id
  alone, crashes between the two statements of a dead letter, rolling deploys
  that change the schedule under running workers. Correct when no committed
  dispatch is lost, none is revived or buried early, a schedule survives every
  settlement, leases exclude while attempts stay within them, and the queue drains.
* Transactions: a future dropped between BEGIN and COMMIT, errors caught inside a
  block, a statement on another connection than its block's, a connection that
  dies with COMMIT on the wire, blocks inside tests. Correct when what a handler
  goes on from is durable, a block is all or nothing, a test leaves nothing, and
  a connection goes back to the pool outside of any transaction.
* Log writer: overflow, partial batches, loss at shutdown. Correct when queued =
  written + failed + dropped + held, and order within a table is kept.
* Websockets: the cap under concurrent upgrades, a slot returned on every way
  out, dead peers. Migrations: two deploys, a crash in a no-transaction file.
  Pipeline: `after` blocks, timeouts and error mapping. Caches: a stale answer
  stored after a newer one.
* Language: facts a null test leaves behind when blocks, loops and catches are left in
  unusual ways; two backends that must agree on all of it. Correct when an accepted
  program meets no value it was not checked for, and both backends answer the same.

The full list, with the line each hazard bites at and the properties that cover
it, is under `hazards` in `PROJECT.json`.

## 2. Plan

Order: what loses data first, then what answers wrongly.

| | Modules | State |
|---|---|---|
| 1 | `JobQueue`, with the contract `AtLeastOnce`, `JobQueueProofs` and `JobLeaseProofs` | checked, proved |
| 2 | `TxPool`, with the contract `AtomicBlocks` and `TxPoolProofs` | checked, proved |
| 3 | `Server`, and on it `LogWriter`, `Sockets`, `KeyCache`, composed by `MCServer`; `LogWriterProofs`, `SocketsProofs`, `KeyCacheProofs` | checked, proved |
| 4 | `Catalog` (the statements of a migration and Postgres), `SchemaDiff` (what `migrate new` writes), `Migrate` (what deploys do with it), composed by `MCMigrate`; `MigrateProofs` | checked; proved for files that each do their own part |
| 5 | `Wiring` (the checks of middleware, context and errors) and `Pipeline` (a request), composed by `MCProgram`; `PipelineProofs` | checked, proved |
| 6 | `Query`, `QuerySql`, `Paging` against `QueryMeaning`, composed by `MCProgram` | checked |
| 7 | `Code`, `Checker`, `Interp`, `Native`, `Crate` and over them `Toolchain`, composed by `MCProgram` | checked |
| 8 | `Grammar`, `Parser`, `Formatter` and over them `Reformat`, composed by `MCProgram` | checked |

Every safety invariant and action property of rows 1, 2, 3 and 5 is proved for
every value of the constants, and those of row 4 from one hypothesis about the files
of a project, which the run checks (`FilesFit`). What stays with TLC: liveness (the
prover has no ENABLED); that `migrate new` writes files that fit (`SchemaDiff`, an
ordering of sets of statements by position, and what every pair of schemas makes of
it); and rows 6 to 8, whose modules are recursive operators, of which the prover can
say nothing.

## 3. The job queue

### `JobQueue`

| State | Code |
|---|---|
| `jobs`, `nextId` | `_jwc_jobs` and its `bigserial`; a row's `state` is `"open"` between its INSERT and the COMMIT of its request |
| `dead` | the attempts in the latest `_jwc_jobs_dead` row of each job |
| `pc`, `claim` | where each `job_worker` is, and its `Claim` |
| `left` | what is left of the lease the attempt was claimed for, when attempts are assumed to respect it |
| `req` | the requests that dispatch |
| `phase`, `build`, `unseeded` | each process: down, booting (with the ticks it has still to upsert), up, or serving without workers |
| `done` | history: dispatches whose handler completed |
| `faults` | crashes and lost replies so far (bounded) |

One action is one SQL statement, since what the code does between two statements
cannot be seen by anyone else, and everything else can come in there.

| Action | Code |
|---|---|
| `Enqueue`, `Refuse` | `jobs::enqueue` from `Stmt::Dispatch` |
| `Commit`, `Rollback` | `in_scoped_transaction`, or the autocommit of a dispatch outside a block |
| `Claim`, `ClaimLost` | `jobs::claim` in `job_worker`; Postgres ran it and the answer was lost |
| `Run` | `run_one_job`, which completes, raises, panics, or finds no declaration |
| `Succeed`, `Retry`, `Bury`, `FinishBury` | `succeed`; the retry UPDATE of `fail`; its dead-letter INSERT; its `reset_or_delete` |
| `SettleLost` | "could not settle" in `job_worker` |
| `Boot`, `Seed`, `StartWorkers`, `BootFails` | `schedule`'s DELETE, one upsert each, `start_job_workers` |
| `Stop` | a crash, or the end of the drain |
| `Tick` | `now()` |

Abstractions. Payloads and error texts are left out. Times are relative to `now()`,
saturated where the code cannot tell values apart, so that time is unbounded
and the state finite. `FOR UPDATE SKIP LOCKED` inside one UPDATE is an atomic
choice of the least ready row; that a claim may skip a row another statement has
locked for an instant is not modelled: it only makes that claim take a later row. A
name is either always a tick or always a call (`Ticks`, `Calls`); a deploy that
turns one into the other is not modelled. A COMMIT whose reply is lost is a
committed dispatch here, whatever its caller was told. `enqueue`'s delay is always
0, as its only caller passes.

`AtLeastOnce` is the contract: an accepted job waits until its handler completed
or it is on record as dead, then leaves and does not come back; it may run any
number of times. `KeepsContract` says `JobQueue` implements it under the mapping
given at `Contract`.

### Runs

| Run | Shows | Bounds |
|---|---|---|
| `jobs_deploys` | types, `NothingLost`, `DeadAfterBudget`, `ScheduleKept` and the refinement `KeepsContract` | 2 processes with a worker each, 2 builds of which one drops the tick, 1 dispatch, 1 fault, 3 row ids, attempts outlive their lease, `job_queue_limit` 1 |
| `jobs_leases` | `LeaseExclusive`, `TicksNeverOverlap`, `ClaimCurrent`, and the liveness properties `Settles` and `TickRecurs` | one build, lease of 2 ticks, 2 attempts, 1 fault, attempts settle within their lease or die |
| `jobs_depth` | a counterexample to `DepthBounded` | 2 requests, limit 1 |
| `jobs_ticks` | a counterexample to `TicksNeverOverlap` when a tick outlives its lease | no fault at all |
| `jobs_dead` | a counterexample to `DeadIsFinal` | one crash |

Why the bounds are enough: every race above is between two actors on one row, so
two workers in two processes meet in every way; one fault reaches each point
between two statements; three ids let a tick be deleted and seeded again beside
a dispatch; time, retries and reruns are unbounded. What more of each would add
is covered by the theorems.

Fairness (`FairSpec`, only for the liveness properties). A worker polls, runs and
settles as long as its process lives (a tokio task of a loop that never returns,
`serve.rs:2087`); a process that is down is started again, as its supervisor does;
an open transaction ends; time passes. Nothing is assumed of requests, crashes,
lost replies, or which process stays up: `Settles` and `TickRecurs` ask only that
some process drains for good, since one that booted without workers is allowed.

### What the violated properties say

1. `job_queue_limit` is a limit per committed snapshot, not a hard one: the depth
   test is inside the INSERT, but two inserts in open transactions do not see each
   other (`jobs.rs:212`, `jobs.md` 3.7).
2. Ticks overlap when one outlives the 300-second lease (`jobs.rs:109`, `jobs.md` 1.4).
3. A job on record as dead can run again after a crash between the two statements
   that bury it (`jobs.md` 3.4).

### Proofs (`JobQueueProofs`, `JobLeaseProofs`)

For all values of the constants, under the named assumptions of `JobQueue` only
(host map, disjoint names, well-formed builds, positive lease):

* `TypeCorrect`: `Spec => []TypeOK`, one lemma per kind of actor.
* `Durable`: `Spec => []NothingLost`. The property is not inductive. `LossInv` adds
  why a row may go: ids are never given twice (`FreshIds`), a dispatched row
  belongs to one request and carries no interval (`OwnRow`), whoever carries the
  name of a dispatched job carries a committed one (`Owned`), and a worker about to
  delete a row has recorded its reason (`Recorded`). Statements that leave the
  requests and the sequence alone go through one frame lemma (`Frame`); the others
  (enqueue, commit, rollback, the insert of a tick) are proved one by one.
* `Refines`: `Spec => KeepsContract`, each step mapped to one step of the contract
  or to none, from the same invariant.

`JobLeaseProofs` goes on from `TypeCorrect` and `LossInv`:

* `Exclusive` and `Current`: `~HandlersOverrun => (Spec => []LeaseExclusive)`, and the
  same of `ClaimCurrent`. Neither is inductive, the two together are (`LeaseInv`): a
  claim takes only a row whose lease is over, and the row of a busy worker has what
  is left of that worker's own lease. Run `jobs_ticks` shows that the assumption is
  needed.
* `DeadForBudget`: `Spec => []DeadAfterBudget`, also when attempts outlive their
  lease: `RowInv` adds that a row, and each claim however stale, has the budget of some
  build, and that a row has no fewer attempts than any claim of it.
* `TicksKept`: `Spec => ScheduleKept`, an action property: the row of a tick goes
  only in the boot of a build that does not declare it.
* `NoOverlap`: `~HandlersOverrun /\ TicksStay => (Spec => []TicksNeverOverlap)`.
  `TickInv` says that a name has one row. `TicksStay` (a build
  that declares any job declares every tick) is needed: when one build drops a tick, a worker of the old build runs it, the
  boot of the new one deletes its row, a boot of the old one seeds it under a
  new id, and a second worker claims that. In the small instance of `jobs_leases`
  there is one build.

Only model-checked: the liveness properties.

## 4. Transactions and the pool

### `TxPool`

| State | Code |
|---|---|
| `mode`, `pool` | `jwc serve` or `jwc test`; the connections of its pool (`parse_pool_size`) |
| `pc` | where each handler is between two statements, or how it is being left: an error thrown, a fault, or the `__return` of a catch |
| `taken` | a connection taken from the pool and not yet pinned, or held for one statement |
| `scope`, `block` | the `TX_CONN` cell around a test, and of a `transaction { }` |
| `n` | statements a request has had accepted |
| `tx`, `wrote`, `saved`, `mark` | what Postgres keeps for each session: state, uncommitted writes, savepoint and what it goes back to |
| `durable`, `acked` | what is committed, and what handlers went on from as done |
| `lost` | connections lost so far (bounded) |

One action is one statement with the control that follows its reply.

| Action | Code |
|---|---|
| `TakeForStatement`, `TakeForBlock`, `GetFails` | `engine::get_connection` from `db::run` and from `in_scoped_transaction` |
| `Begin`, `BeginFails` | BEGIN and the pin, in `in_scoped_transaction` |
| `Statement`, `StatementFails`, `StatementRefused`, `StatementReplyLost` | `db::run`, `classify`, `map_db_error` |
| `Throw`, `Catch`, `Answer` | `Stmt::Throw`, `CatchPostfix`, `run_body` and the answer |
| `Savepoint`, `AssertNotRaised`, `AssertRaised` | `in_savepoint` from `assert fails` |
| `Commit`, `Rollback`, `CommitReplyLost` | the end of `in_scoped_transaction` |
| `Drop` | `tokio::time::timeout` around `handle`, or a panic |
| `Lose` | Postgres or the network |

Two constants say what a run is about: `Catches` is where the program catches
errors, and `Drops` is where a future may be dropped. A service cannot open a
block inside a block (E0620, `wiring.rs`), a test can open one inside its scope;
the model has both. Tests run one after the other.

Abstractions. A statement is a write; reads change nothing here. Locks are not
modelled, so two transactions never wait for each other. A lost connection is
seen at the next statement on it. A future dropped with a statement on the wire is
one dropped after it. `jwc test --no-rollback` and an `assert fails` inside an
`assert fails` are left out, and a statement sent from the arm of a catch is
one sent after it.

`AtomicBlocks` is the contract, with no connection in it: a statement outside a
block is stored at once, the statements of a block all together at its commit or
never, less those undone to a savepoint, and a test's scope never commits.

A transaction that stays open after a timeout also reaches the job queue: a
dispatch inside it is the request of `JobQueue` that neither commits nor rolls
back until the connection's next user does so in its place.

### Runs

| Run | Shows | Bounds |
|---|---|---|
| `tx_blocks` | types, `PoolClean`, `AckedIsDurable`, `Usable` and the refinement `BlocksAreAtomic`, when futures are dropped and errors caught outside of blocks only | 2 connections or 1, 2 requests or tests, 3 statements each, 1 lost connection |
| `tx_drop` | a counterexample to `PoolClean`: a timeout inside a block | 2 statements |
| `tx_catch` | a counterexample to `AckedIsDurable`: a catch inside a block | 2 statements |
| `tx_tests` | a counterexample to `TestsLeaveNothing`: a block inside a test | 2 statements |

Why the bounds are enough: pools of one and of two connections give both a wait
and a second connection for a block inside a test; two requests are enough for one
to use what the other gave back; three statements are one before, one in and one
after a savepoint or a block; one loss reaches every statement. Connections and
requests are interchangeable (symmetry). The theorems cover any number of each.
No liveness is claimed, so no fairness is assumed.

### What the violated properties say

1. `request_timeout` does not release what a handler holds inside a block: the
   transaction stays open on a pooled connection, with its locks, and
   `RecyclingMethod::Fast` gives it to the next taker. Statements of that
   taker are acknowledged and not committed (`serve.rs:2317`, `config.md` 3.7).
2. A postfix `catch` whose arm returns, inside a block, rolls the block back; the
   docs say such a return commits, and that the catch runs in a savepoint
   (`writes.md` 7.1, `errors.md` 7.3). With the catch in a helper the block calls
   (`Catches = {"helper"}`) the block goes on in an aborted transaction, which
   breaks `Usable`, and its COMMIT reports success.
3. A test does not contain the `transaction { }` blocks of the code it calls: they
   commit on a connection of their own (`cmd/mod.rs:1337`, `testing.md` 2.1).

### Proofs (`TxPoolProofs`)

For all values of the constants, under the named assumptions of `TxPool`:

* `TypeCorrect`: `Spec => []TypeOK`, with nothing further assumed.
* `ReturnedClean`: if `"inside" \notin Drops`, `Spec => []PoolClean`. The inductive
  invariant `PoolInv` adds that no two places hold one connection (`Exclusive`),
  that a connection nobody pinned is outside of any transaction and holds no
  writes and no savepoint (`Resting`), that a pinned one has a transaction, or had
  one when it was lost, with writes of its own request only (`Working`), and that
  without a savepoint there is nothing to go back to (`Marks`).
* `Honest` and `NeverAborted`: if besides nothing is caught inside a block
  (`Inward`), `Spec => []AckedIsDurable` and `Spec => []Usable`. `Live` adds that an
  aborted transaction is on its way out.
* `Atomic`: if `"inside" \notin Drops`, `Spec => BlocksAreAtomic`. A step touches the
  connection of one block and, by `Exclusive`, is seen by no other (`Elsewhere`,
  `OneBlock`); each statement then maps to one step of the contract or to none.
  Catches may be anywhere: a caught error loses writes, it never splits a block.

The assumptions are what the first two violated properties need to be false:
the proofs say that nothing else in this code breaks them. Only model-checked:
that the assumptions are needed.

## 5. Migrations

### `Catalog`, `SchemaDiff`, `Migrate`

`Catalog` is the part of Postgres' catalog a migration changes (tables with their
columns and types, keys and foreign keys, indexes, triggers and their functions,
views, types) and, for each statement `migrate.rs` (`sql`) writes, when Postgres
accepts it (`Applies`) and what it leaves (`After`). `rows` marks the columns that
hold values.

`SchemaDiff` is `migrate new`: `Compute` is `diff::compute` with its renames first
(`Builder`), then the tables, types, triggers and views compared; `Rendered` is the
order of a file (phase, rank, name, and the table drops of
`order_table_drops`); `Plan` splits off the values of types and writes the way back.
Relations and columns are numbers whose order is that of their names; a
generated name is the tuple it is generated from.

| State of `Migrate` | Code |
|---|---|
| `project` | the files that were ever written, the deploys and the commands they run |
| `db`, `recorded` | the catalog of the database; the rows of `_jwc_migrations` |
| `apart` | the database was not built by these files |
| `lock`, `orphan` | `pg_advisory_lock` and who has it; the session of a process that is gone and the statement it still runs |
| `pc`, `cmd`, `done`, `at`, `stmt`, `left` | each deploy: its place, command, the records it read, the file and statement it is at |

| Action | Code |
|---|---|
| `TakeLock`, `Release` | `lock` and `unlock` of `apply.rs` |
| `Gate` | `check_live_schema` before a baseline |
| `Read` | the SELECT of the records |
| `TakeFile`, `TakeUndo`, `NothingLeft` | the loops of `up`, `down`, `baseline` |
| `Done`, `Refused`, `Fails` | the answer: accepted, refused for what the catalog holds, failed for another reason |
| `Crash`, `OrphanEnds` | the process dies; Postgres runs what it was sent and ends the session |

### Run `migrate`

`MCMigrate` starts from a schema with every kind of object (`Base`) and edits it in
30 ways (`Edits`), alone and in pairs; every declaration that compiles and is
`Separable` becomes a project of two migrations or three files that one deploy
applies and rolls back in every order (three commands). `Busy` is a project of two
deploys, with a file outside of a transaction, an error or a crash at any point,
and a database that something else may have built. Checked: `RecordsTellSchema`
(records and database agree whatever runs, fails or dies), `FilesApply` (no file is
refused by the database it meets), `UpDelivers`, `FilesFit` (each file alone: on a
database created from the schema declared before, it makes one created from the schema
declared with it, keeps the values of the columns that are kept or renamed, and the
way back reverses it), and `LockComes` under fairness: a command that runs goes on
(WF), Postgres ends the session of a client that is gone (WF) and serves those
who wait for a lock in turn (SF). Pairs are enough for what is compared object by
object: a third edit adds an object or is a pair with one of the first two.

What `Separable` leaves out are files Postgres refuses, found while the model was
written, each a difference from the comment at `migrate.rs` 268 ("never wrong") or
from `migrations.md`:

* a key is dropped while a foreign key of the same migration's start points at it:
  the drops of a phase are in the order of their tables (`migrate.rs` 269);
* a table with an `on update now()` column is renamed: its trigger is dropped under
  the old table's name with IF EXISTS, so it stays, and the DROP FUNCTION after it is
  refused (`diff.rs` 1590; `migrations.md` 10.2 and 6.2 say a rename is safe);
* a table is renamed and gets a new primary key in one migration.

`FilesApply` leaves out one more, which the docs accept (9.1): a type is never
dropped, so a first migration that creates one cannot be applied again after it
was rolled back. A renamed column's uniques, foreign keys and indexes are dropped
and built again under their new names, where `migrations.md` 68-75 promises a rename.
Not in the model: `status` and `verify`, which read and may create `_jwc_migrations`
without the lock that `apply.rs` line 8 says every command takes; a file's own BEGIN
or COMMIT; checks, defaults, nullability, comments, schemas, E1101; files merged
late with an older name.

### Proofs (`MigrateProofs`)

For any deploys, projects, commands, faults and crashes, assuming of a project that
it has a file and that what its deploys may do is well formed (`ProjectsAssumption`):

* `TypeCorrect`: `Spec => []TypeOK`, with which deploy has the lock and which are past it.
* `Delivers`: `Spec => []UpDelivers`, a success of `up` leaves no file unrecorded.
* `Ordering`: `Spec => []RecordsInOrder`, the records are those of the first files at
  every moment, and what is on the wire is the next of them or, on the way down, the
  last. No run states it; it is what makes a list of records a version.

* `TellsSchema`, `Applicable`, `CarriesRows`: `Spec /\ FilesFit => []RecordsTellSchema`,
  `[]FilesApply`, `[]RowsCarried` (in every state that a file may meet, what `FilesFit`
  says of its values on a fresh database; no run states it).

The invariant `MigInv` is the types, what an orphaned session may still run
(`OrphanOK`), the records in order (`InOrder`), where each deploy is among them
(`Lines`), and that what a deploy read when it took the lock is still so while it
goes on (`Going`). The last is the point: the records are read once, and only the
lock keeps them true, also after the deploy died and Postgres is still running its
statement. The catalog plays no part in the first three proofs: whether a statement
applies is left open in them.

The other three say that what is true of each file on a fresh database stays true
of all of them on the one that deploys share. `FilesFit` is a hypothesis about the
first state only (no step changes the project), and run `migrate` checks it of every
project it has. What is between the two is that a database is not the schema: types
and values are never taken away, so after a rollback, a crash in the middle of a file of
values or a baseline it has more of them (`Follows`: alike but for types, and those it
has grown). Each of the 21 statements does to both the same (`Stepwise`), Postgres
accepts of the database what it accepts of the schema but for a type that is there
already (`Accepting`), hence so does a file (`Along`, `Taken`). `Batch` is a fold, and the
lemmas about it go by induction over its prefixes: not with the library's theorems,
which take an operator, but with a set that has 0 and with each number the next
(`Induction`, from `MinOf`). The invariant `FitInv` adds to `MigInv` that the database
follows the schema of the last record (`Told`), and that what is on the wire is of a
file of its kind, after the values of that file that are there already (`Fitting`):
without that a record could close a file whose values were never added.

## 6. The server process

`Server` is the process (`life`: serving, draining, exited) and its requests, which
may time out at any `.await` or go with the process. Three components extend it; they
share nothing else, so `MCServer` gives each behaviour one of three scenes.

| Module | State | Actions and code |
|---|---|---|
| `LogWriter` | the row in a handler's `hand`, the `channel`, the batch (`pending`), the rows being written, the deadline, the counters, what is `stored`, what was `lost` | `Push`, `TrySend` (`push`); `Receive`, `Deadline` (`run`'s `select!`); `FlushOf` (`flush`, its groups) in both; `Written`, `Failed` (`flush`, chunk by chunk); `LogExit` |
| `Sockets` | `open_sockets` and each connection: its place, the counter as its loop read it, the queued and unread frames, `awaiting_pong` | `Upgrade`, `ReadCounter`, `Swap`, `Refuse` (`SocketSlot::take`); preflight and handshake (`socket_dispatch`); `Handled`, `Flush`, `Recv`, `RecvEnds`, `Tick`, `Closed`, `Farewell` (`drive_socket`); the peer that sends, leaves, or is reset |
| `KeyCache` | the keys the provider publishes, the cache entry with its age and that of its forced refetch, each lookup | `Ask`, `Lock`, `Serve`, `Refreshed`, `Forced`, `FetchFails` (`rsa_key_for`); `Publish`, `KeysTick` |

### Run `server`

`LogConserved` (what `/metrics` counts adds up, and rows are stored in order), `LogSettles`;
`SlotsExact`, `RefusalEarned` (an upgrade is refused only if every slot was in use at
a moment of its own attempt), `AnswerCounts` (a peer that answered is not cut),
`Reclaimed` (a dead peer gives its slot back); `NoWithdrawnKey` and `RotationHeals`
(how long a key that was withdrawn still verifies, and one that was published does
not). Bounds: a channel of one row and a batch of three, so that it overflows, fills
and is flushed in part; two statements of which one needs two chunks; three
upgrades for two slots; two keys, ages up to the longest that counts. Fairness: the
consumer (a task that never returns) and the clock go on; a connection's task is
polled while it has something to do, the connections taken together (`Serves`),
which is less than the runtime gives each. A text or a ping to a peer that is gone is
buffered by the operating system or fails, either way at every send, so `Reclaimed`
holds also of a connection whose handlers go on sending, by the ping that comes after.
A send that finds the buffer full waits, and the keepalive is not polled meanwhile: in
the model the connection then does not move, and the fairness of `Serves` assumes that
the wait ends, because the peer reads or TCP gives up on what nobody acknowledges (the
kernel's retransmission timeout, some quarter of an hour, and not the two intervals of
`socket_keepalive`). An idle connection needs no such word from TCP, which is what
`serve.rs` 1471 is about. Nothing else is assumed of peers, and nothing of requests,
failures or the end of the process.

### Proofs (`LogWriterProofs`, `SocketsProofs`, `KeyCacheProofs`)

Each is about its component's own specification (`LogSpec`, `SocketsSpec`,
`KeysSpec`): a process with any requests under way, and every step of the scene in
`MCServer`, the arrival of requests and the shutdown signal. Requests may be an
infinite set.

* `LogTyped` and `Conserved`: `[]LogTypeOK`, `[]LogConserved`, for every size of the
  channel, the batch and a chunk. `Sums` is the balance of the counters with the
  rows in the channel, the batch and the flush; `Lined` says that the rows of one
  statement go through stored, flush, batch and channel one after the other. A flush
  is a permutation of the batch that groups it (`Groupings`), so that what it
  keeps is in its definition and no induction over the batch is needed.
* `CounterExact`: `[]SlotsExact`, the counter is the number of connections that hold a
  slot. `Refusals`: an upgrade between its read of the counter and its
  compare-exchange has seen what was in use at some moment of its own attempt.
  `Answers`: a peer that answered the last ping is not cut, since what is unread is
  read before the next tick.
* `KeysTyped`; `Withdrawn` and `Heals`, for any time to live, cooldown and fetch
  time. `KeyInv` adds that one lookup fetches at a time (`OneFetch`), that the others
  hold no document (`Idle`), that a document differs from what is published only by what
  changed since its fetch began (`Fresh`), and an entry by what changed within its age
  and a fetch (`Timely`).

`LogSettles`, `Reclaimed` are liveness and stay with TLC.

Not a property, and different from what the docs say: the process ends with rows in
the channel and the batch also when it ends well, since nothing flushes them
(`log_writer.rs` 31 speaks of a crash only); `on_close` does not run for a
connection that is open then; a forced refetch that fails does not count for its own
limit (`jwks.rs` 26); the keepalive is not polled while a handler's frames wait to be sent.

## 7. Programs: checks and requests

`Wiring` is what `wiring.rs` decides of middleware, context and errors (E0803, E0804,
E0805, E0811, E0820, E0821, E1002, E1011, W1001) about an abstract program: bodies of
throws, calls with a postfix catch, reads and writes of the context, returns.
`Pipeline` runs one request of an accepted program: the chain, the handler, a call
stack (`call_function`, `MAX_CALL_DEPTH`), errors unwinding through catches,
`handle_error` and its arms, the after blocks, and a timeout at any point.

Checked by run `program` (scene "pipeline"): `ContextSet` (in a program whose middleware
set what they say they provide, no key is read before it is set), `RaisesCovered`
(what leaves a function is in the raise set the check computed, and no error on its
way to the arms is one the check warned that an arm is not needed for), `Unwinds`
(every middleware that began, and no other, has its after block run, once, in
reverse order, unless the request is cut). `MCPipeline` has programs of two
middlewares and of two mutually recursive functions, in all combinations of bodies that a
check or the runtime tells apart; a depth of two reaches the limit.

`ContextSet` is about programs that keep their word (`KeepsItsWord`): no check looks
whether a middleware sets what it provides. `check_context` (`wiring.rs` 562) takes the
declaration for the fact, so such a program is accepted and reads null where its
type says a value (`exec.rs` 1348), where `middleware.md` 225 promises that "Reading
`context.k` where the key is not set on every path is `E0820`".

The properties say where the checks are not enough: an after block may read a key
its own middleware was cut short before setting; an error thrown in an assignment
(`x = q or throw E`) or in the block of a catch is not in any raise set (`hidden`;
`errors.md` 3.1 says otherwise); a postfix catch does not take the caught error out
of the caller's set (3.1, 7.4). Also seen: an `errorHandler` arm without a type never
runs for a fault (`errors.md` 1, 4.4); a 504 skips the after blocks
(`middleware.md` 5.1); `check_context` looks at no socket handler and no arm; E0620
only at functions and services; of two routes that match, the first declared wins
(`routing.md` 4.1), and `strict_slash` is read and not used (4.4).

### Proofs (`PipelineProofs`)

For every set of accepted programs (any number of functions that call each other,
middlewares, errors, arms), any depth of calls and a timeout anywhere, assuming of a
program what the parser and name resolution give (`ProgramsAssumption`: bodies are
sequences, a called function exists, E0204):

* `Context`: `PipelineSpec => []ContextSet`;
* `Raised`: `PipelineSpec => []RaisesCovered`, where the raise set of a function is the
  least set closed under its calls (`Reachable`), so that recursion needs no induction;
* `AfterBlocks`: `PipelineSpec => []Unwinds`.

`PipeInv` follows a request: its program was accepted (`DeployedInv`); the middleware
that began are the first of the chain and all but the last of them passed
(`ChainInv`); those that passed left what they provide (`GivenInv`); each frame of the
call stack is in a body, and what it has still to read was or will be set by then
(`StackInv`); and which body runs in each part of the request (`ComingInv`,
`ChainedInv`, `HandledInv`, `ArmsInv`, `AfterInv`, `DoneInv`). `RaiseInv` and `LeavesInv`
add whose raise set an error on its way up is in, `UnwoundInv` which after blocks have
begun. TLC checked `PipeInv` on the small instance before it was proved.

## 8. Queries and pages

| Module | What it is |
|---|---|
| `Query` | a select as the front end plans it (`query.rs`, `plan`): the joins and whose row they hang off, the shape, the order and the bound, and which are refused (`check.rs`) |
| `QuerySql` | what it lowers to (`query_sql.rs`: the tree of nested objects, laterals for `as many`, recovered joins, groups, the page CTE, the total order, the keyset), and what Postgres answers to it: three truth values, left joins, LATERAL aggregates, ties in any order |
| `QueryMeaning` | the reference: what `queries.md` says the answer is, row by row, with no statement in it |
| `Paging` | a caller that follows cursors (`run_sql`, `page_envelope`, `cursor.rs`) while others insert and delete |

Checked by run `program` (scene "queries") on some 1000 queries of four tables with
ties, nulls and rows that match nothing: `ReadsAsWritten` (what an accepted query
answers is an answer the reference allows) and `PagesOnce` (pages repeat no row and
skip none that stayed, and following them ends). No fairness is needed: both are
safety.

`Plain` and `Positions` name the queries the compiler does not do right, each a
divergence from `queries.md`, or one only warned about:

* an order by a nullable column: a NULL first key in a cursor drops the keyset and
  the first page comes again (9.3 says pages cannot loop), and other NULLs are skipped;
  E0550 only asks that there is an order (9.2);
* with an `as many`, the page is cut in a CTE that orders by the written keys only, so
  ties at the boundary are skipped (9.4); and a key named like the primary key of
  *another* binding passes for the tiebreak (`page_order`);
* an inner `as one` is applied after the page was cut, is dropped when nothing names
  it, and drops the driving rows when it hangs off a left one;
* a join that only `in`, `exists` or a call names is not recovered (`names`), and the
  statement is refused by Postgres; so is an order by a field of an `as one` that is
  not shown;
* `equality_columns` takes `B.id == other` for a pinned key; the binding inside an
  `exists` shadows the outer object; two `as many` on one table only warn (W0502).

Views in queries, `having`, sums and extremes are not modelled.

## 9. The language: the checker and the two backends

| Module | What it is |
|---|---|
| `Code` | programs (`ast.rs`), types (`types.rs`), values (`value.rs`), scopes: a node is a record of its constructor, names, operands and blocks |
| `Checker` | `check.rs` of a function: types, assignability, narrowing after null tests, divergence, loops, returns; which codes are reported |
| `Interp` | what `jwc serve` computes (`exec.rs`, `exec_call.rs`): values, `throw` and faults, postfix `catch`, calls, loops and their turn ceiling, transactions and the rows they leave |
| `Native` | `codegen.rs`: which lets become an `i64` (`native_int_lets`), and the Rust emitted |
| `Crate` | that Rust: what rustc says of it, and how it runs over the prelude (`base.rs.in`, `db.rs.in`) |
| `Toolchain` | one program through all of these: `source`, `verdict`, `crate`, the call `args`, what the interpreter `served` and the binary `ran`; the actions are `JwcCheck`, `JwcBuild`, `JwcServe`, `BinaryAnswers` |

Each is a set of recursive operators, so these modules stay with TLC. Evaluation
threads a machine: the scopes of the call, what each open transaction has inserted,
the rows committed. A panic of the binary is an outcome of its own. rustc is modelled
by what the emitted code needs of it: the type of each operand, `mut`, a loop
around a `break`, a value from a `catch` block.

Checked by run `program` (scene "language") on 15582 programs, 8 calls of each that is
accepted: a guard, a let, a use and a return from pools in `MCLanguage`, with two
helpers, one that throws and one that opens a transaction. They combine every narrowing
rule with every statement, lets that are or are not `i64`, catches and transactions
around each other, loops left early.

* `AcceptedRuns`: what the checker accepts never reads a field of null, computes
  with a value of another type or reads a name it does not have, and answers a value
  of the type it declares.
* `NativeAgrees`: the binary answers what `jwc serve` answers, and commits the same
  rows.
* `WellTyped`: the crate of an accepted program has no mismatched types.

Bounds: integers of -5..4 and loops of 3 turns, so that overflow and the ceiling
are met; four values of the `int` parameter, and null or a value for the other. A
transaction in a transaction (E0620), recursion, inferred return types, other
scalars, builtins, jsonb, object literals and queries are left out here. Throw
arguments past the first are literals: natively they are not evaluated at all.

The checker lets values of another type through at places it knows of or does not.
Each is a lapse, recorded by `Checker` where it happens; `AcceptedRuns` speaks of
programs without one. Each was first a counterexample:

* a null test whose branch diverges narrows the name for good, also when the test
  itself was inside a block that may not run: `rebind` (`check.rs` 412) writes the scope
  that declares the name. `types.md` 6.6 says it narrows after the `if`;
* only a route must end in a return (E0731): a function that declares a type may fall
  off its end, or `return;`, and answers null (`exec_call.rs` 195);
* an array literal has the type of its first element; an index past the end is null
  though its type is not optional (`exec.rs` 1043);
* the right side of `??` is not compared with the left, nor a value written to a field
  with the field's type (`check.rs` 919 says so);
* the binder of a `catch` has the error's parameters, its value has `message` only.

The two backends differ, as the properties' exceptions say, and beyond them:

* a `return` in the block of a catch inside a transaction commits natively and rolls
  back in the interpreter (as run `tx_catch` shows); inside the value another catch
  guards it becomes that catch's value natively, and leaves the function in the
  interpreter (`ReturnsAcross`);
* a `break` or `continue` in the block of a catch leaves the loop natively and the
  whole function in the interpreter (`exec.rs` 1244; `errors.md` 7.2 allows them);
* a fault is a panic natively, and one inside a transaction skips `jwc_tx_end`
  (`db.rs.in` 197): the connection goes back with the transaction open;
* a field of null is null natively and a fault in the interpreter; a field written to
  a value that is no record makes one;
* some accepted programs do not compile: an assignment to a parameter or to the binder
  of a `for` or `catch` (not `mut`), a `break` out of a transaction or a catch (an
  async block is around it), a catch block that ends in a `transaction` only.

Also seen, outside the model: `interval + interval` and `date - date` are accepted and
fault; no backend opens the savepoint `errors.md` 7.3 gives a catch in a transaction.

## 10. The parser and the formatter

| Module | What it is |
|---|---|
| `Grammar` | the parser's cursor and how its functions go on: a grammar is a term that reads a sequence of tokens and never goes back (`parser.rs`) |
| `Parser` | the recursive descent, a rule for each function others call: declarations, statements, expressions by precedence, queries with their clauses |
| `Formatter` | the canonical printer of a tree (`fmt.rs`), as the tokens it prints |
| `Reformat` | `jwc fmt` on a file (`cmd/mod.rs`): a file that does not parse is left alone, another is printed |

A text is a sequence of tokens; strings, numbers and names are members of small
sets. Characters, comments, the margin and where lines break are left out, so what the
docs promise of layout is not spoken of here. The printer breaks lines without a change of
tokens in every form but one: an insert statement that passes the margin, or has a
comment on an entry, goes through another function than one that fits
(`fmt.rs` 1253-1282). Which inserts of a file these are is free (`wide`).

Checked by run `program` (scene "syntax", some 2500 files, each with every choice of
its wide inserts): `FormatKeepsProgram`, a file that is formatted parses to the tree it
had. `MCSyntax` puts every form of
expression and every query, bare and in parentheses, into every place of every
other, and has each statement and declaration, with clauses in orders the parser
takes and the printer does not keep. Two levels are enough for what decides about
parentheses: the printer looks at a node and its operand.

`fmt.rs` 3-6 and `docs/cli/formatting.md` 24 say that the output is a fixed point "by
construction", and `tests/fmt.rs` 72 that it parses. `Loose` names the trees of which
formatting makes another program or none, each found as a counterexample:

* an operand that is a query, or ends in `or throw`, `catch`, `with` or `cookie`, is
  printed without its parentheses, and so is a query where a clause or a `set` has it;
  the same of a comparison, `in` or `exists` on the left of a comparison, and of `- -`
  at the start of a statement;
* the condition of a ternary that ends in a field, or a nullable field before its `:`,
  reads as the other of the two; postfix forms are printed in one order;
* a query that ends in a list followed by a further item of the list around it, or
  an `or throw`, `catch` after a query whose last clause takes it;
* clauses are dropped: `limit` beside `page`; `under`, `orderby` and `limit` of an `as group`;
  `buffered` of an insert statement with a conflict or a projection. The `where` of a
  select becomes that of its last bare join, and a filter of a join that starts with
  `exists` another expression;
* a computed value of a shape that starts with a `{`; a key that is no word and has
  neither a space nor a `-` loses its quotes, and so does one with a `-` in an insert
  statement that is broken over lines: with a conflict, a projection or a commented entry,
  or simply too long for one;
* an `update` or `delete` statement with no clause loses its `;` and does not parse.

Also seen: `parser.rs` 4 says that one broken declaration does not hide the errors of the
next; `DECL_STARTS` (`parser.rs` 32), where the parser looks for the next one, lacks `job`,
`route` and `socket`.

## 11. Not modelled

* Of the language: builtins, decimals, dates, jsonb, object literals, inferred return
  types, call depth with the other features (it is in `Pipeline`), imports and packages.
* Of other modelled parts: `status` and `verify`; views in queries, `having`, sums; the
  static mounts, operational paths, CORS and response headers of a request; TLS,
  header timeouts, configuration and watch mode of the server.
* The in-process cache is one map behind one mutex, every operation one critical
  section; the sequence number taken before the lock (`cache.rs` 79) decides only
  which of two entries goes first when the cache is full.
* Redis, outbound HTTP, mail, templates, assets, observability: one call each,
  nothing kept between calls.
* The lexer's characters, comments and layout; the language server, the registry and
  OpenAPI are sequential passes over text. Of the native backend, routes, handlers, queries,
  jobs and sockets, which mirror the runtime in generated code.

`components` in `PROJECT.json` gives the reason for each.
