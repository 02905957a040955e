------------------------------- MODULE TxPool -------------------------------
(***************************************************************************)
(* The connection pool and what runs on it: statements of handlers         *)
(* (db.rs, run), `transaction { }` (exec.rs, in_scoped_transaction), the   *)
(* scope `jwc test` puts around a test (cmd/mod.rs, test), the savepoint   *)
(* of `assert fails` (exec.rs, in_savepoint), postfix `catch`, and the     *)
(* future of a request that request_timeout drops (serve.rs).              *)
(*                                                                         *)
(* One action is one statement sent to Postgres with the control that      *)
(* follows its reply.  A future dropped while its statement is on the wire *)
(* is one dropped just after it: Postgres runs what it was sent.           *)
(*                                                                         *)
(* A process serves or it tests.  It serves requests concurrently, none    *)
(* with a block inside a block (E0620); it tests one at a time, each with  *)
(* a block inside the scope of the test at most.                           *)
(***************************************************************************)
EXTENDS Naturals

CONSTANTS
    Requests,   \* requests served, or tests run
    Conns,      \* the connections a pool may have
    NoConn,     \* no connection
    Catches,    \* where this program catches a thrown error: "outside" of a
                \* block, in the "block" itself, in a "helper" it calls
    Drops,      \* where a future may be dropped: "outside" or "inside" a block
    MaxStmts,   \* bound: statements that write, of a request
    MaxLost     \* bound: connections lost

ASSUME ConnsAssumption == NoConn \notin Conns
ASSUME CatchesAssumption == Catches \subseteq {"outside", "block", "helper"}
ASSUME DropsAssumption == Drops \subseteq {"outside", "inside"}
ASSUME BoundsAssumption == MaxStmts \in Nat /\ MaxLost \in Nat

VARIABLES
    mode,     \* "serve" or "test"
    pool,     \* the connections of this process's pool (parse_pool_size)
    pc,       \* where the handler of each request is
    taken,    \* the connection a request has from the pool and has not pinned
    scope,    \* the connection the scope of a test is pinned to
    block,    \* the connection a `transaction { }` is pinned to
    n,        \* statements a request has had Postgres accept
    tx,       \* what Postgres is in, on each connection
    wrote,    \* what the transaction of each connection has written
    saved,    \* connections inside an `assert fails`
    mark,     \* what ROLLBACK TO SAVEPOINT would go back to
    durable,  \* what is committed
    acked,    \* what handlers were told is done
    lost      \* connections lost so far

request  == <<pc, taken, scope, block, n>>
session  == <<tx, wrote, saved, mark>>
outcome  == <<durable, acked>>
config == <<mode, pool>>
vars == <<config, request, session, outcome, lost>>

Writes == Requests \X (1..MaxStmts)

\* Where a handler is between two of its statements ("run"), with a
\* connection for one statement ("one") or for a block ("begin"), and how an
\* error leaves it: thrown, a fault, or the return of a catch on its way out
\* (`__return`).
Places == {"new", "run", "one", "begin", "thrown", "fault", "leaving", "done"}
Raised == {"thrown", "fault", "leaving"}

Holds(r) == {taken[r], scope[r], block[r]} \ {NoConn}
Idle == pool \ UNION {Holds(r) : r \in Requests}
Inside(r) == scope[r] # NoConn \/ block[r] # NoConn

\* The connection the next statement of r goes to: db.rs reads the pin of the
\* innermost block; outside of one the statement has taken a connection.
Pinned(r) == IF block[r] # NoConn THEN block[r] ELSE scope[r]
\* Mutant: every statement takes a connection of the pool's, pinned or not.
ConnOfThePool(r) == IF Inside(r) /\ Idle # {} THEN CHOOSE c \in Idle : TRUE
                    ELSE IF Inside(r) THEN Pinned(r) ELSE taken[r]

Conn(r) == IF Inside(r) THEN Pinned(r) ELSE taken[r]

Own(r, c) == {w \in wrote[c] : w[1] = r}

------------------------------------------------------------------------------
Init ==
    /\ mode \in {"serve", "test"}
    /\ pool \in (SUBSET Conns) \ {{}}
    /\ pc = [r \in Requests |-> IF mode = "serve" THEN "run" ELSE "new"]
    /\ taken = [r \in Requests |-> NoConn]
    /\ scope = [r \in Requests |-> NoConn]
    /\ block = [r \in Requests |-> NoConn]
    /\ n = [r \in Requests |-> 0]
    /\ tx = [c \in Conns |-> "none"]
    /\ wrote = [c \in Conns |-> {}]
    /\ saved = {}
    /\ mark = [c \in Conns |-> {}]
    /\ durable = {}
    /\ acked = {}
    /\ lost = 0

\* Tests run one after the other.
MayStart(r) == \A q \in Requests \ {r} : pc[q] \in {"new", "done"}

WantsStatement(r) == pc[r] = "run" /\ ~Inside(r)
WantsBlock(r) == IF mode = "serve" THEN pc[r] = "run" /\ ~Inside(r)
                                   ELSE pc[r] = "run" /\ block[r] = NoConn
WantsScope(r) == pc[r] = "new" /\ MayStart(r)

\* pool.get(): recycling replaces a connection that is closed and asks no more
\* of one that is not.
Recycled(c) == IF tx[c] = "lost" THEN "none" ELSE tx[c]

GetConnection(r, c, next) ==
    /\ c \in Idle
    /\ taken' = [taken EXCEPT ![r] = c]
    /\ tx' = [tx EXCEPT ![c] = Recycled(c)]
    /\ pc' = [pc EXCEPT ![r] = next]
    /\ UNCHANGED <<config, scope, block, n, wrote, saved, mark, outcome, lost>>

TakeForStatement(r, c) == WantsStatement(r) /\ GetConnection(r, c, "one")
TakeForBlock(r, c) == (WantsBlock(r) \/ WantsScope(r)) /\ GetConnection(r, c, "begin")

\* Nobody gave a connection back within pool_timeout, or none could be opened.
GetFails(r) ==
    /\ WantsStatement(r) \/ WantsBlock(r) \/ WantsScope(r)
    /\ pc' = [pc EXCEPT ![r] = "fault"]
    /\ UNCHANGED <<config, taken, scope, block, n, session, outcome, lost>>
------------------------------------------------------------------------------
(* BEGIN.  In a transaction already open it is only a warning. *)

Begins(c) == tx[c] \in {"none", "open"}

Begin(r) ==
    LET c == taken[r] IN
    /\ pc[r] = "begin"
    /\ Begins(c)
    /\ tx' = [tx EXCEPT ![c] = "open"]
    /\ IF mode = "test" /\ scope[r] = NoConn
       THEN scope' = [scope EXCEPT ![r] = c] /\ UNCHANGED block
       ELSE block' = [block EXCEPT ![r] = c] /\ UNCHANGED scope
    /\ taken' = [taken EXCEPT ![r] = NoConn]
    /\ pc' = [pc EXCEPT ![r] = "run"]
    /\ UNCHANGED <<config, n, wrote, saved, mark, outcome, lost>>

BeginFails(r) ==
    /\ pc[r] = "begin"
    /\ ~Begins(taken[r])
    /\ taken' = [taken EXCEPT ![r] = NoConn]
    /\ pc' = [pc EXCEPT ![r] = "fault"]
    /\ UNCHANGED <<config, scope, block, n, session, outcome, lost>>
------------------------------------------------------------------------------
(* A statement that writes: db::run.  Outside of a block Postgres commits it *)
(* by itself and the connection goes back to the pool.                       *)

Sends(r) == pc[r] = "one" \/ (pc[r] = "run" /\ Inside(r))
Released(r) == taken' = [taken EXCEPT ![r] = NoConn]

Statement(r) ==
    LET c == Conn(r)
        w == <<r, n[r] + 1>>
    IN
    /\ Sends(r)
    /\ n[r] < MaxStmts
    /\ tx[c] \in {"none", "open"}
    /\ n' = [n EXCEPT ![r] = @ + 1]
    /\ IF tx[c] = "none"
       THEN durable' = durable \cup {w} /\ UNCHANGED wrote
       ELSE wrote' = [wrote EXCEPT ![c] = @ \cup {w}] /\ UNCHANGED durable
    /\ acked' = IF Inside(r) THEN acked ELSE acked \cup {w}
    /\ Released(r)
    /\ pc' = [pc EXCEPT ![r] = "run"]
    /\ UNCHANGED <<config, scope, block, tx, saved, mark, lost>>

\* A constraint with a message and a foreign key throw; every other error is a
\* fault (map_db_error).
StatementFails(r) ==
    LET c == Conn(r) IN
    /\ Sends(r)
    /\ tx[c] \in {"none", "open"}
    /\ tx' = [tx EXCEPT ![c] = IF @ = "open" THEN "aborted" ELSE @]
    /\ Released(r)
    /\ \E error \in {"thrown", "fault"} : pc' = [pc EXCEPT ![r] = error]
    /\ UNCHANGED <<config, scope, block, n, wrote, saved, mark, outcome, lost>>

\* 25P02, or the connection is gone.
StatementRefused(r) ==
    /\ Sends(r)
    /\ tx[Conn(r)] \in {"aborted", "lost"}
    /\ Released(r)
    /\ pc' = [pc EXCEPT ![r] = "fault"]
    /\ UNCHANGED <<config, scope, block, n, session, outcome, lost>>
------------------------------------------------------------------------------
(* How a handler goes on: `throw`, `catch`, the answer. *)

Throw(r) ==
    /\ pc[r] = "run"
    /\ pc' = [pc EXCEPT ![r] = "thrown"]
    /\ UNCHANGED <<config, taken, scope, block, n, session, outcome, lost>>

\* The arm of a catch must leave; what leaves the block it is in is a throw of
\* `__return`, which the body of the function turns back into a return.
Catch(r) ==
    /\ pc[r] = "thrown"
    /\ \E where \in Catches :
           /\ Inside(r) <=> where # "outside"
           /\ pc' = [pc EXCEPT ![r] = IF where = "block" THEN "leaving" ELSE "run"]
    /\ UNCHANGED <<config, taken, scope, block, n, session, outcome, lost>>

Answer(r) ==
    /\ pc[r] \in {"run", "thrown", "fault"}
    /\ ~Inside(r)
    /\ pc' = [pc EXCEPT ![r] = "done"]
    /\ UNCHANGED <<config, taken, scope, block, n, session, outcome, lost>>
------------------------------------------------------------------------------
(* `assert fails`, in tests. *)

SavepointHere(r) == Pinned(r) \in saved

Savepoint(r) ==
    LET c == Pinned(r) IN
    /\ mode = "test"
    /\ pc[r] = "run"
    /\ Inside(r)
    /\ ~SavepointHere(r)
    /\ IF tx[c] = "open"
       THEN /\ saved' = saved \cup {c}
            /\ mark' = [mark EXCEPT ![c] = wrote[c]]
            /\ UNCHANGED pc
       ELSE pc' = [pc EXCEPT ![r] = "fault"] /\ UNCHANGED <<saved, mark>>
    /\ UNCHANGED <<config, taken, scope, block, n, tx, wrote, outcome, lost>>

\* The block did not fail: RELEASE, whose error is ignored, and the assertion
\* is a fault.
AssertNotRaised(r) ==
    LET c == Pinned(r) IN
    /\ pc[r] = "run"
    /\ SavepointHere(r)
    /\ saved' = saved \ {c}
    /\ mark' = [mark EXCEPT ![c] = {}]
    /\ pc' = [pc EXCEPT ![r] = "fault"]
    /\ UNCHANGED <<config, taken, scope, block, n, tx, wrote, outcome, lost>>

\* Mutant: the savepoint is released and never rolled back to.
AssertRaisedReleases(r) ==
    /\ pc[r] \in Raised
    /\ SavepointHere(r)
    /\ saved' = saved \ {Pinned(r)}
    /\ mark' = [mark EXCEPT ![Pinned(r)] = {}]
    /\ pc' = [pc EXCEPT ![r] = IF @ = "thrown" THEN "run" ELSE "fault"]
    /\ UNCHANGED <<config, taken, scope, block, n, tx, wrote, outcome, lost>>

\* ROLLBACK TO, RELEASE.  A thrown error may be the one that was asserted.
AssertRaised(r) ==
    LET c == Pinned(r) IN
    /\ pc[r] \in Raised
    /\ SavepointHere(r)
    /\ IF tx[c] = "lost"
       THEN UNCHANGED <<tx, wrote>>
       ELSE /\ tx' = [tx EXCEPT ![c] = "open"]
            /\ wrote' = [wrote EXCEPT ![c] = mark[c]]
    /\ saved' = saved \ {c}
    /\ mark' = [mark EXCEPT ![c] = {}]
    /\ \E next \in {"fault"} \cup (IF pc[r] = "thrown" THEN {"run"} ELSE {}) :
           pc' = [pc EXCEPT ![r] = next]
    /\ UNCHANGED <<config, taken, scope, block, n, outcome, lost>>
------------------------------------------------------------------------------
(* The end of a block: COMMIT if its body was Ok and it is not a test's scope, *)
(* ROLLBACK otherwise.  The connection goes back to the pool.                  *)

Ends(r) == /\ Inside(r)
           /\ ~SavepointHere(r)
           /\ pc[r] \in {"run"} \cup Raised

\* Mutant: rollback_always the wrong way round.
CommitsTests(r) == pc[r] = "run" /\ block[r] = NoConn

Commits(r) == pc[r] = "run" /\ block[r] # NoConn

\* COMMIT and ROLLBACK end the transaction of a connection that lives.
Ended(c) == /\ tx' = [tx EXCEPT ![c] = IF @ = "lost" THEN "lost" ELSE "none"]
            /\ wrote' = [wrote EXCEPT ![c] = {}]

\* Mutant: the end of a block inside a test unpins the test.
UnpinnedOuter(r) == IF scope[r] # NoConn
                    THEN scope' = [scope EXCEPT ![r] = NoConn] /\ UNCHANGED block
                    ELSE block' = [block EXCEPT ![r] = NoConn] /\ UNCHANGED scope

Unpinned(r) == IF block[r] # NoConn
               THEN block' = [block EXCEPT ![r] = NoConn] /\ UNCHANGED scope
               ELSE scope' = [scope EXCEPT ![r] = NoConn] /\ UNCHANGED block

\* In an aborted transaction COMMIT rolls back, and succeeds.
Commit(r) ==
    LET c == Pinned(r) IN
    /\ Ends(r)
    /\ Commits(r)
    /\ durable' = IF tx[c] = "open" THEN durable \cup wrote[c] ELSE durable
    /\ acked' = IF tx[c] = "lost" THEN acked ELSE acked \cup Own(r, c)
    /\ pc' = [pc EXCEPT ![r] = IF tx[c] = "lost" THEN "fault" ELSE "run"]
    /\ Ended(c)
    /\ Unpinned(r)
    /\ UNCHANGED <<config, taken, n, saved, mark, lost>>

\* Mutant: a fault leaves the block without its ROLLBACK.
RollbackForgets(r) ==
    /\ Ends(r)
    /\ ~Commits(r)
    /\ pc' = [pc EXCEPT ![r] = IF block[r] = NoConn THEN "done"
                               ELSE IF pc[r] = "leaving" THEN "run" ELSE @]
    /\ IF pc[r] = "fault" THEN UNCHANGED <<tx, wrote>> ELSE Ended(Pinned(r))
    /\ Unpinned(r)
    /\ UNCHANGED <<config, taken, n, saved, mark, outcome, lost>>

\* `acked` is what the handler goes on from: to its caller a block that ran to
\* its end has returned, and so has one left by the return of a catch.
Rollback(r) ==
    LET c == Pinned(r) IN
    /\ Ends(r)
    /\ ~Commits(r)
    /\ acked' = IF pc[r] \in {"run", "leaving"} /\ block[r] # NoConn
                THEN acked \cup Own(r, c) ELSE acked
    /\ pc' = [pc EXCEPT ![r] = IF block[r] = NoConn THEN "done"
                               ELSE IF pc[r] = "leaving" THEN "run" ELSE @]
    /\ Ended(c)
    /\ Unpinned(r)
    /\ UNCHANGED <<config, taken, n, saved, mark, durable, lost>>
------------------------------------------------------------------------------
(* What goes wrong. *)

\* request_timeout, or a panic: the future is dropped where it is, and with it
\* its hold on its connections.  Nothing is sent to Postgres.
Drop(r) ==
    /\ mode = "serve"
    /\ pc[r] # "done"
    /\ (IF Inside(r) THEN "inside" ELSE "outside") \in Drops
    /\ pc' = [pc EXCEPT ![r] = "done"]
    /\ taken' = [taken EXCEPT ![r] = NoConn]
    /\ block' = [block EXCEPT ![r] = NoConn]
    /\ UNCHANGED <<config, scope, n, session, outcome, lost>>

\* A connection dies: Postgres rolls back what was open on it.
Lose(c) ==
    /\ c \in pool
    /\ tx[c] # "lost"
    /\ lost < MaxLost
    /\ lost' = lost + 1
    /\ tx' = [tx EXCEPT ![c] = "lost"]
    /\ wrote' = [wrote EXCEPT ![c] = {}]
    /\ mark' = [mark EXCEPT ![c] = {}]
    /\ UNCHANGED <<config, request, saved, outcome>>

\* It dies after Postgres committed and before its reply: a statement by
\* itself, or COMMIT.
StatementReplyLost(r) ==
    LET c == taken[r] IN
    /\ pc[r] = "one"
    /\ tx[c] = "none"
    /\ n[r] < MaxStmts
    /\ lost < MaxLost
    /\ lost' = lost + 1
    /\ n' = [n EXCEPT ![r] = @ + 1]
    /\ durable' = durable \cup {<<r, n[r] + 1>>}
    /\ tx' = [tx EXCEPT ![c] = "lost"]
    /\ Released(r)
    /\ pc' = [pc EXCEPT ![r] = "fault"]
    /\ UNCHANGED <<config, scope, block, wrote, saved, mark, acked>>

CommitReplyLost(r) ==
    LET c == Pinned(r) IN
    /\ Ends(r)
    /\ Commits(r)
    /\ tx[c] = "open"
    /\ lost < MaxLost
    /\ lost' = lost + 1
    /\ durable' = durable \cup wrote[c]
    /\ tx' = [tx EXCEPT ![c] = "lost"]
    /\ wrote' = [wrote EXCEPT ![c] = {}]
    /\ Unpinned(r)
    /\ pc' = [pc EXCEPT ![r] = "fault"]
    /\ UNCHANGED <<config, taken, n, saved, mark, acked>>
------------------------------------------------------------------------------
RequestStep(r) ==
    \/ \E c \in Conns : TakeForStatement(r, c) \/ TakeForBlock(r, c)
    \/ GetFails(r)
    \/ Begin(r) \/ BeginFails(r)
    \/ Statement(r) \/ StatementFails(r) \/ StatementRefused(r)
    \/ Throw(r) \/ Catch(r) \/ Answer(r)
    \/ Savepoint(r) \/ AssertNotRaised(r) \/ AssertRaised(r)
    \/ Commit(r) \/ Rollback(r)
    \/ Drop(r)
    \/ StatementReplyLost(r) \/ CommitReplyLost(r)

Next == (\E r \in Requests : RequestStep(r)) \/ (\E c \in Conns : Lose(c))

Spec == Init /\ [][Next]_vars
------------------------------------------------------------------------------
(* Properties. *)

\* The types, and what each place of a handler holds: a connection it has
\* taken and not pinned while it is about to use it, a block only inside the
\* scope of its test, and nothing before it starts or once it is done.
Coherent ==
    \A r \in Requests :
        /\ taken[r] # NoConn <=> pc[r] \in {"one", "begin"}
        /\ scope[r] # NoConn => mode = "test"
        /\ mode = "test" /\ block[r] # NoConn => scope[r] # NoConn
        /\ pc[r] = "begin" => block[r] = NoConn
        /\ pc[r] \in {"new", "one", "done"} => ~Inside(r)

TypeOK ==
    /\ Coherent
    /\ mode \in {"serve", "test"}
    /\ pool \subseteq Conns
    /\ pc \in [Requests -> Places]
    /\ taken \in [Requests -> Conns \cup {NoConn}]
    /\ scope \in [Requests -> Conns \cup {NoConn}]
    /\ block \in [Requests -> Conns \cup {NoConn}]
    /\ n \in [Requests -> 0..MaxStmts]
    /\ tx \in [Conns -> {"none", "open", "aborted", "lost"}]
    /\ wrote \in [Conns -> SUBSET Writes]
    /\ saved \subseteq Conns
    /\ mark \in [Conns -> SUBSET Writes]
    /\ durable \subseteq Writes
    /\ acked \subseteq Writes
    /\ lost \in 0..MaxLost

\* A connection goes back to the pool outside of any transaction: whatever a
\* handler held, locks and uncommitted rows included, it no longer holds.
\* (in_scoped_transaction on every way out; serve.rs, request_timeout)
PoolClean == \A c \in Idle : tx[c] \in {"none", "lost"}

\* What a handler was told is done, by a statement outside of a block that
\* returned or by a block that returned, is committed.
AckedIsDurable == acked \subseteq durable

\* A handler that goes on inside a block or a test never does so on a
\* connection that refuses every statement (25P02): what aborts a transaction
\* ends its block, or is undone to the savepoint of an `assert fails`.
Usable == \A r \in Requests :
              pc[r] = "run" /\ Inside(r) => tx[Pinned(r)] # "aborted"

\* Nothing a test writes outlives it.
TestsLeaveNothing == mode = "test" => durable = {}

\* Statements are committed one by one outside of a block, and with all of
\* their block or not at all inside, each for the request that sent it.
Levels == {"scope", "block"}
PinOf(r, l) == IF l = "scope" THEN scope[r] ELSE block[r]
OfPin(r, l, f) == IF PinOf(r, l) = NoConn THEN {} ELSE f[PinOf(r, l)]
OpenBlocks == [r \in Requests |-> {l \in Levels : PinOf(r, l) # NoConn}]
BlockWork == [r \in Requests |-> [l \in Levels |-> OfPin(r, l, wrote)]]
BlockKept == [r \in Requests |-> [l \in Levels |-> OfPin(r, l, mark)]]

Contract == INSTANCE AtomicBlocks WITH
                Stmts <- 1..MaxStmts,
                Committing <- {"block"},
                store <- durable,
                open <- OpenBlocks,
                work <- BlockWork,
                kept <- BlockKept

BlocksAreAtomic == Contract!Spec
=============================================================================
