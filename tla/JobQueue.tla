------------------------------ MODULE JobQueue ------------------------------
(***************************************************************************)
(* The durable job queue behind `job` and `dispatch`: the table            *)
(* public._jwc_jobs, the dead-letter table public._jwc_jobs_dead, the      *)
(* workers that poll them (jobs.rs; serve.rs, run_one_job, job_worker and  *)
(* start_job_workers) and the requests that dispatch into them (exec.rs,   *)
(* Stmt::Dispatch).                                                        *)
(*                                                                         *)
(* One action is one SQL statement, as Postgres commits it: what lies      *)
(* between two statements of a worker, of a boot or of a request is where  *)
(* every other actor, a crash or a lost reply can come in.                 *)
(*                                                                         *)
(* Clock.  Every timestamp is kept relative to now(): `due` is             *)
(* run_at - now(), `lease` is leased_until - now(), and Tick moves them    *)
(* all.  Two lease values are told apart no further than the claim's WHERE *)
(* does: -1 stands for NULL and for every timestamp in the past.  Of two   *)
(* run_at values in the past only the order matters (ORDER BY run_at), so  *)
(* Tick keeps them dense.  Both make time unbounded and the state finite.  *)
(***************************************************************************)
EXTENDS Integers, FiniteSets

CONSTANTS
    Workers,          \* worker tasks of all processes
    Replicas,         \* processes that serve this program
    Host,             \* [Workers -> Replicas]; a replica may host none (JWC_JOB_WORKERS=0)
    Builds,           \* the versions of the program a deploy may start
    Ticks,            \* jobs with an `every`
    Calls,            \* jobs without one: what `dispatch` names
    Declared,         \* [Builds -> SUBSET (Ticks \cup Calls)]
    Period,           \* [Builds -> [Ticks -> every_secs]]
    Retries,          \* [Builds -> [Ticks \cup Calls -> max_attempts]]
    Backoff,          \* seconds before the next attempt, in units of Tick
    LeaseSeconds,     \* LEASE_SECONDS, in units of Tick
    QueueLimit,       \* job_queue_limit, 0 is no limit
    Requests,         \* requests, each dispatching at most one job
    PayloadLimited,   \* is there a job_max_payload (0 is none)?
    HandlersOverrun,  \* may an attempt outlive its lease?
    MaxId,            \* bound: rows ever inserted
    MaxFaults,        \* bound: stopped processes and lost database replies
    NoName            \* no job

Names == Ticks \cup Calls
Ids == 1..MaxId

ASSUME HostAssumption == Host \in [Workers -> Replicas]
ASSUME NamesAssumption == Ticks \cap Calls = {} /\ NoName \notin Names
ASSUME BuildsAssumption == /\ Builds # {}
                           /\ Declared \in [Builds -> SUBSET Names]
                           /\ Period \in [Builds -> [Ticks -> Nat \ {0}]]
                           /\ Retries \in [Builds -> [Names -> Nat \ {0}]]
ASSUME LimitsAssumption == /\ LeaseSeconds \in Nat \ {0}
                           /\ Backoff \in Nat
                           /\ QueueLimit \in Nat
                           /\ PayloadLimited \in BOOLEAN
                           /\ HandlersOverrun \in BOOLEAN
ASSUME BoundsAssumption == /\ MaxId \in Nat
                           /\ MaxFaults \in Nat

VARIABLES
    jobs,      \* _jwc_jobs: [Ids -> row]
    nextId,    \* the bigserial behind its id
    dead,      \* _jwc_jobs_dead: the attempts in each job's latest row, or NotDead
    pc,        \* where each worker is in its loop
    claim,     \* the Claim each worker holds
    left,      \* unless HandlersOverrun, the time left to the worker's attempt
    req,       \* each request and the row it dispatched
    phase,     \* each replica: is it booting, draining, only serving, down?
    build,     \* the build each replica runs
    unseeded,  \* the ticks a booting replica has still to upsert
    done,      \* history: the dispatched rows whose handler ran to completion
    faults     \* stopped processes and lost replies so far

table   == <<jobs, nextId, dead>>
workers == <<pc, claim, left>>
deploys == <<phase, build, unseeded>>
vars    == <<table, workers, req, deploys, done, faults>>

-----------------------------------------------------------------------------
(* The rows.                                                               *)

NoRow   == [state |-> "none", name |-> NoName, every |-> 0, attempts |-> 0,
            max |-> 0, due |-> 0, lease |-> -1]
NotDead == -1
NoClaim == [id |-> 0, name |-> NoName, attempts |-> 0, max |-> 0]

\* The rows a statement of another transaction sees: an "open" row is
\* inserted and not committed yet.
InQueue == {i \in Ids : jobs[i].state = "queued"}

Scheduled(i) == jobs[i].every # 0

\* Mutants: a lease is claimable at the instant it ends; and at any time.
ReadyAtExpiry == {i \in InQueue : jobs[i].due <= 0 /\ jobs[i].lease <= 0}
ReadyWhenLeased == {i \in InQueue : jobs[i].due <= 0}

\* The claim's WHERE: run_at <= now() AND (leased_until IS NULL OR leased_until < now())
Ready == {i \in InQueue : jobs[i].due <= 0 /\ jobs[i].lease < 0}

\* Mutant: ORDER BY id.
BeforeById(i, j) == i < j

\* ORDER BY run_at, id
Before(i, j) == \/ jobs[i].due < jobs[j].due
                \/ jobs[i].due = jobs[j].due /\ i < j

Least(a, b) == IF a < b THEN a ELSE b

NewRow(state, name, every, max, due) ==
    [state |-> state, name |-> name, every |-> every, attempts |-> 0,
     max |-> max, due |-> due, lease |-> -1]

\* A row as the statements that touch it leave it.
Committed(row) == [row EXCEPT !.state = "queued"]
Leased(row)    == [row EXCEPT !.lease = LeaseSeconds, !.attempts = @ + 1]
Retried(row)   == [row EXCEPT !.lease = -1, !.due = Backoff]
Reset(row)     == [row EXCEPT !.lease = -1, !.attempts = 0, !.due = row.every]
Upserted(row, every, max) ==
    [row EXCEPT !.every = every, !.max = max, !.due = Least(@, every)]

\* Mutant: every settled row is deleted.
DeleteAlways(i) == jobs' = [jobs EXCEPT ![i] = NoRow]

\* reset_or_delete(id): a scheduled row is put off by one interval, any other
\* row is deleted, and an id that is not there is nobody's row.
ResetOrDelete(i) ==
    jobs' = [jobs EXCEPT ![i] = IF Scheduled(i) THEN Reset(@) ELSE NoRow]

\* What a process that is down keeps in `build`.
AnyBuild == CHOOSE b \in Builds : TRUE

Busy(w) == pc[w] # "idle"
Draining(w) == phase[Host[w]] = "up"
Alive == {r \in Replicas : phase[r] \in {"up", "serving"}}

Init ==
    /\ jobs = [i \in Ids |-> NoRow]
    /\ nextId = 1
    /\ dead = [i \in Ids |-> NotDead]
    /\ pc = [w \in Workers |-> "idle"]
    /\ claim = [w \in Workers |-> NoClaim]
    /\ left = [w \in Workers |-> -1]
    /\ req = [q \in Requests |-> [state |-> "new", id |-> 0]]
    /\ phase = [r \in Replicas |-> "down"]
    /\ build = [r \in Replicas |-> AnyBuild]
    /\ unseeded = [r \in Replicas |-> {}]
    /\ done = {}
    /\ faults = 0

-----------------------------------------------------------------------------
(* A request that dispatches (exec.rs, Stmt::Dispatch; jobs.rs, enqueue).  *)

\* The INSERT ... SELECT ... WHERE, on the request's connection.  The depth
\* test reads what is committed when the statement starts; the row becomes
\* visible to others when the transaction commits.
Enqueue(q) ==
    /\ req[q].state = "new"
    /\ QueueLimit = 0 \/ Cardinality(InQueue) < QueueLimit
    /\ nextId \in Ids
    /\ \E r \in Alive : \E n \in Declared[build[r]] \cap Calls :
          jobs' = [jobs EXCEPT ![nextId] = NewRow("open", n, 0, Retries[build[r]][n], 0)]
    /\ nextId' = nextId + 1
    /\ req' = [req EXCEPT ![q] = [state |-> "open", id |-> nextId]]
    /\ UNCHANGED <<dead, workers, deploys, done, faults>>

\* Refused::Payload for a payload over the limit, before the statement, or
\* Refused::QueueFull, by the statement: a fault either way, nothing is
\* inserted and the request fails.
Refuse(q) ==
    /\ req[q].state = "new"
    /\ Alive # {}
    /\ \/ PayloadLimited
       \/ QueueLimit # 0 /\ Cardinality(InQueue) >= QueueLimit
    /\ req' = [req EXCEPT ![q].state = "failed"]
    /\ UNCHANGED <<table, workers, deploys, done, faults>>

Commit(q) ==
    /\ req[q].state = "open"
    /\ jobs' = [jobs EXCEPT ![req[q].id] = Committed(@)]
    /\ req' = [req EXCEPT ![q].state = "ok"]
    /\ UNCHANGED <<nextId, dead, workers, deploys, done, faults>>

\* A later statement of the block faults, the request times out, the process
\* stops: the row goes with the transaction.
Rollback(q) ==
    /\ req[q].state = "open"
    /\ jobs' = [jobs EXCEPT ![req[q].id] = NoRow]
    /\ req' = [req EXCEPT ![q].state = "failed"]
    /\ UNCHANGED <<nextId, dead, workers, deploys, done, faults>>

-----------------------------------------------------------------------------
(* A worker (serve.rs, job_worker): claim, run, settle.                    *)

\* The row the claim's subselect returns, leased and counted in the same
\* UPDATE.  FOR UPDATE SKIP LOCKED: no two claims take it together.
Lease(i) ==
    /\ i \in Ready
    /\ \A j \in Ready \ {i} : Before(i, j)
    /\ jobs' = [jobs EXCEPT ![i] = Leased(@)]

Claim(w) ==
    /\ pc[w] = "idle"
    /\ Draining(w)
    /\ \E i \in Ids :
          /\ Lease(i)
          /\ claim' = [claim EXCEPT ![w] =
                          [id |-> i, name |-> jobs[i].name,
                           attempts |-> jobs[i].attempts + 1, max |-> jobs[i].max]]
    /\ pc' = [pc EXCEPT ![w] = "running"]
    /\ left' = [left EXCEPT ![w] = IF HandlersOverrun THEN -1 ELSE LeaseSeconds]
    /\ UNCHANGED <<nextId, dead, req, deploys, done, faults>>

\* Postgres ran the claim and its answer did not arrive: "claim failed" in
\* the log, a leased row and no worker that runs it.
ClaimLost(w) ==
    /\ pc[w] = "idle"
    /\ Draining(w)
    /\ faults < MaxFaults
    /\ \E i \in Ids : Lease(i)
    /\ faults' = faults + 1
    /\ UNCHANGED <<nextId, dead, workers, req, deploys, done>>

\* run_one_job: the handler completes, or it raises, faults or panics.  A job
\* this build does not declare never runs; it fails.
Run(w) ==
    /\ pc[w] = "running"
    /\ \/ /\ claim[w].name \in Declared[build[Host[w]]]
          /\ pc' = [pc EXCEPT ![w] = "succeed"]
          /\ done' = IF claim[w].name \in Calls THEN done \cup {claim[w].id} ELSE done
       \/ /\ pc' = [pc EXCEPT ![w] = "fail"]
          /\ UNCHANGED done
    /\ UNCHANGED <<table, claim, left, req, deploys, faults>>

\* The end of one turn of the worker's loop.
Release(w) ==
    /\ pc' = [pc EXCEPT ![w] = "idle"]
    /\ claim' = [claim EXCEPT ![w] = NoClaim]
    /\ left' = [left EXCEPT ![w] = -1]

Succeed(w) ==
    /\ pc[w] = "succeed"
    /\ ResetOrDelete(claim[w].id)
    /\ Release(w)
    /\ UNCHANGED <<nextId, dead, req, deploys, done, faults>>

\* Mutant: an attempt early.
ExhaustedEarly(w) == claim[w].attempts + 1 >= claim[w].max

Exhausted(w) == claim[w].attempts >= claim[w].max

\* Mutant: an upsert where the code updates.
RetryUpserts(w) ==
    /\ pc[w] = "fail"
    /\ ~Exhausted(w)
    /\ jobs' = [jobs EXCEPT ![claim[w].id] =
                   [@ EXCEPT !.state = "queued", !.name = claim[w].name,
                             !.max = claim[w].max, !.lease = -1, !.due = Backoff]]
    /\ Release(w)
    /\ UNCHANGED <<nextId, dead, req, deploys, done, faults>>

\* fail() with attempts to spare: one UPDATE by id, which matches no row when
\* the row is gone.
Retry(w) ==
    /\ pc[w] = "fail"
    /\ ~Exhausted(w)
    /\ jobs' = [jobs EXCEPT ![claim[w].id] =
                   IF claim[w].id \in InQueue THEN Retried(@) ELSE @]
    /\ Release(w)
    /\ UNCHANGED <<nextId, dead, req, deploys, done, faults>>

\* Mutant: the row is deleted before its dead row is written.
BuryDeletesFirst(w) ==
    /\ pc[w] = "fail"
    /\ Exhausted(w)
    /\ ResetOrDelete(claim[w].id)
    /\ pc' = [pc EXCEPT ![w] = "bury"]
    /\ UNCHANGED <<nextId, dead, claim, left, req, deploys, done, faults>>

\* fail() with none: first INSERT INTO _jwc_jobs_dead ... SELECT ... FROM
\* _jwc_jobs, the attempts being the row's and not the claim's ...
Bury(w) ==
    /\ pc[w] = "fail"
    /\ Exhausted(w)
    /\ dead' = [dead EXCEPT ![claim[w].id] =
                   IF claim[w].id \in InQueue THEN jobs[claim[w].id].attempts ELSE @]
    /\ pc' = [pc EXCEPT ![w] = "bury"]
    /\ UNCHANGED <<jobs, nextId, claim, left, req, deploys, done, faults>>

\* Mutant: a dead-lettered tick is not scheduled again.
FinishBuryDeletes(w) ==
    /\ pc[w] = "bury"
    /\ jobs' = [jobs EXCEPT ![claim[w].id] = NoRow]
    /\ Release(w)
    /\ UNCHANGED <<nextId, dead, req, deploys, done, faults>>

\* ... and then, as a statement of its own, reset_or_delete.
FinishBury(w) ==
    /\ pc[w] = "bury"
    /\ ResetOrDelete(claim[w].id)
    /\ Release(w)
    /\ UNCHANGED <<nextId, dead, req, deploys, done, faults>>

\* A settling statement fails before Postgres runs it: "could not settle" in
\* the log, and the worker goes on to its next claim.
SettleLost(w) ==
    /\ pc[w] \in {"succeed", "fail", "bury"}
    /\ faults < MaxFaults
    /\ faults' = faults + 1
    /\ Release(w)
    /\ UNCHANGED <<table, req, deploys, done>>

-----------------------------------------------------------------------------
(* A process (serve.rs, start_job_workers; jobs.rs, schedule).             *)

\* ensure_tables changes nothing after the first time, and the first
\* statement of schedule deletes the rows of ticks this build does not
\* declare.  A build with no job at all starts neither.
Boot(r) ==
    /\ phase[r] = "down"
    /\ \E b \in Builds :
          /\ build' = [build EXCEPT ![r] = b]
          /\ \/ /\ Declared[b] = {}
                /\ phase' = [phase EXCEPT ![r] = "serving"]
                /\ UNCHANGED <<jobs, unseeded>>
             \/ /\ Declared[b] # {}
                /\ phase' = [phase EXCEPT ![r] = "booting"]
                /\ unseeded' = [unseeded EXCEPT ![r] = Declared[b] \cap Ticks]
                /\ jobs' = [i \in Ids |->
                              IF /\ i \in InQueue /\ Scheduled(i)
                                 /\ jobs[i].name \notin Declared[b] \cap Ticks
                              THEN NoRow ELSE jobs[i]]
    /\ UNCHANGED <<nextId, dead, workers, req, done, faults>>

\* Mutant: the conflict arm writes the whole row again, its lease included.
SeedRewrites(r) ==
    /\ phase[r] = "booting"
    /\ \E n \in unseeded[r] :
          LET b    == build[r]
              held == {i \in InQueue : Scheduled(i) /\ jobs[i].name = n}
              i    == IF held = {} THEN nextId ELSE CHOOSE j \in held : TRUE
          IN  /\ unseeded' = [unseeded EXCEPT ![r] = @ \ {n}]
              /\ i \in Ids
              /\ jobs' = [jobs EXCEPT ![i] =
                            NewRow("queued", n, Period[b][n], Retries[b][n], Period[b][n])]
              /\ nextId' = IF held = {} THEN nextId + 1 ELSE nextId
    /\ UNCHANGED <<dead, workers, req, phase, build, done, faults>>

\* INSERT ... ON CONFLICT (name) WHERE every_secs IS NOT NULL DO UPDATE, for
\* one declared tick.
Seed(r) ==
    /\ phase[r] = "booting"
    /\ \E n \in unseeded[r] :
          LET b    == build[r]
              held == {i \in InQueue : Scheduled(i) /\ jobs[i].name = n}
          IN  /\ unseeded' = [unseeded EXCEPT ![r] = @ \ {n}]
              /\ \/ /\ held = {}
                    /\ nextId \in Ids
                    /\ jobs' = [jobs EXCEPT ![nextId] =
                                  NewRow("queued", n, Period[b][n], Retries[b][n], Period[b][n])]
                    /\ nextId' = nextId + 1
                 \/ /\ held # {}
                    /\ jobs' = [i \in Ids |->
                                  IF i \in held
                                  THEN Upserted(jobs[i], Period[b][n], Retries[b][n])
                                  ELSE jobs[i]]
                    /\ UNCHANGED nextId
    /\ UNCHANGED <<dead, workers, req, phase, build, done, faults>>

StartWorkers(r) ==
    /\ phase[r] = "booting"
    /\ unseeded[r] = {}
    /\ phase' = [phase EXCEPT ![r] = "up"]
    /\ UNCHANGED <<table, workers, req, build, unseeded, done, faults>>

\* ensure_tables or schedule fails: start_job_workers returns, the process
\* goes on to serve and never drains.
BootFails(r) ==
    /\ phase[r] = "booting"
    /\ faults < MaxFaults
    /\ faults' = faults + 1
    /\ phase' = [phase EXCEPT ![r] = "serving"]
    /\ unseeded' = [unseeded EXCEPT ![r] = {}]
    /\ UNCHANGED <<table, workers, req, build, done>>

\* A crash, or the end of a graceful shutdown: the workers are tasks of the
\* process and stop wherever they are.
Stop(r) ==
    /\ phase[r] # "down"
    /\ faults < MaxFaults
    /\ faults' = faults + 1
    /\ phase' = [phase EXCEPT ![r] = "down"]
    /\ unseeded' = [unseeded EXCEPT ![r] = {}]
    /\ build' = [build EXCEPT ![r] = AnyBuild]
    /\ pc' = [w \in Workers |-> IF Host[w] = r THEN "idle" ELSE pc[w]]
    /\ claim' = [w \in Workers |-> IF Host[w] = r THEN NoClaim ELSE claim[w]]
    /\ left' = [w \in Workers |-> IF Host[w] = r THEN -1 ELSE left[w]]
    /\ UNCHANGED <<table, req, done>>

-----------------------------------------------------------------------------
(* Time.                                                                   *)

\* Mutant: the past is not saturated.
ElapseOn(lease) == lease - 1

\* What is left of a lease after one unit of time.
Elapse(lease) == IF lease < 0 THEN -1 ELSE lease - 1

\* run_at one unit later.  A timestamp in the past becomes its rank among the
\* rows that are due, which keeps their order and nothing else.
Later(d) ==
    IF d > 0 THEN d - 1
    ELSE -Cardinality({i \in Ids : /\ jobs[i].state # "none"
                                   /\ d <= jobs[i].due /\ jobs[i].due <= 0})

Aged(row) == [row EXCEPT !.due = Later(@), !.lease = Elapse(@)]

\* Unless HandlersOverrun, every attempt settles, or dies, within the
\* LEASE_SECONDS it was claimed for: time does not pass it by.
Tick ==
    /\ HandlersOverrun \/ \A w \in Workers : Busy(w) => left[w] > 0
    /\ jobs' = [i \in Ids |->
                  IF jobs[i].state = "none" THEN NoRow ELSE Aged(jobs[i])]
    /\ left' = [w \in Workers |-> Elapse(left[w])]
    /\ UNCHANGED <<nextId, dead, pc, claim, req, deploys, done, faults>>

RequestStep(q) == Enqueue(q) \/ Refuse(q) \/ Commit(q) \/ Rollback(q)
WorkerStep(w) == \/ Claim(w) \/ ClaimLost(w) \/ Run(w) \/ Succeed(w) \/ Retry(w)
                 \/ Bury(w) \/ FinishBury(w) \/ SettleLost(w)
ReplicaStep(r) == Boot(r) \/ Seed(r) \/ StartWorkers(r) \/ BootFails(r) \/ Stop(r)

Next == \/ \E q \in Requests : RequestStep(q)
        \/ \E w \in Workers : WorkerStep(w)
        \/ \E r \in Replicas : ReplicaStep(r)
        \/ Tick

Spec == Init /\ [][Next]_vars

\* What the runtime schedules: a worker polls, runs and settles for as long as
\* its process lives, a process boots, a transaction ends, time passes.
\* Nothing is assumed of requests, crashes or lost replies.
Settle(w) == Succeed(w) \/ Retry(w) \/ Bury(w) \/ FinishBury(w)

Fairness ==
    /\ \A w \in Workers : WF_vars(Claim(w)) /\ WF_vars(Run(w)) /\ WF_vars(Settle(w))
    /\ \A r \in Replicas : WF_vars(Boot(r) \/ Seed(r) \/ StartWorkers(r))
    /\ \A q \in Requests : WF_vars(Commit(q) \/ Rollback(q))
    /\ WF_vars(Tick)

FairSpec == Spec /\ Fairness

-----------------------------------------------------------------------------
(* Correctness.                                                            *)

Row == [state : {"none", "open", "queued"}, name : Names \cup {NoName},
        every : Nat, attempts : Nat, max : Nat, due : Int, lease : -1..LeaseSeconds]

\* Every variable holds a value of its kind.
TypeOK ==
    /\ jobs \in [Ids -> Row]
    /\ nextId \in Nat \ {0}
    /\ dead \in [Ids -> Nat \cup {NotDead}]
    /\ pc \in [Workers -> {"idle", "running", "succeed", "fail", "bury"}]
    /\ claim \in [Workers -> [id : Ids \cup {0}, name : Names \cup {NoName},
                               attempts : Nat, max : Nat]]
    /\ left \in [Workers -> -1..LeaseSeconds]
    /\ \A w \in Workers : Busy(w) => claim[w].id \in Ids
    /\ req \in [Requests -> [state : {"new", "open", "ok", "failed"}, id : Ids \cup {0}]]
    /\ phase \in [Replicas -> {"down", "booting", "up", "serving"}]
    /\ build \in [Replicas -> Builds]
    /\ unseeded \in [Replicas -> SUBSET Ticks]
    /\ done \subseteq Ids
    /\ faults \in Nat

Accepted == {req[q].id : q \in {p \in Requests : req[p].state = "ok"}}
DeadJobs == {i \in Ids : dead[i] # NotDead}

\* At-least-once (jobs.rs:20-31): a dispatch whose transaction committed is
\* still queued, or its handler ran to completion, or it is on record as
\* dead, whatever crashed, whichever reply was lost, and however many workers
\* held the row.
NothingLost == Accepted \subseteq InQueue \cup done \cup DeadJobs

\* The queue implements the contract of a queue: the dispatches of the table
\* are the jobs of AtLeastOnce, so none leaves unserved, none comes back, and
\* none runs whose transaction did not commit.
Contract == INSTANCE AtLeastOnce WITH
    accepted <- Accepted,
    waiting  <- Accepted \cap InQueue,
    ran      <- done,
    buried   <- Accepted \cap DeadJobs

KeepsContract == Contract!Spec

\* A dispatched job is dead-lettered for having used up its attempts and never
\* earlier (jobs.rs, fail), although the attempts come from the row and the
\* decision from the worker's claim, which may be stale.
DeadAfterBudget ==
    \A i \in Accepted \cap DeadJobs :
        \E b \in Builds, n \in Calls : dead[i] >= Retries[b][n]

\* "A scheduled row is never briefly absent" (jobs.rs:294): whatever settles
\* it, and whoever else holds it, the row of a tick goes only in the boot of a
\* build that does not declare that tick.
ScheduleKept ==
    [][\A i \in Ids : Scheduled(i) /\ ~Scheduled(i)' =>
          \E r \in Replicas : /\ phase[r] = "down" /\ phase'[r] = "booting"
                              /\ jobs[i].name \notin Declared[build'[r]]]_vars

\* "The lease is a claim two processes cannot both hold" (jobs.rs:22), for
\* attempts that settle before their lease runs out: two workers never run or
\* settle the same row.
LeaseExclusive ==
    \A v, w \in Workers : Busy(v) /\ Busy(w) /\ v # w => claim[v].id # claim[w].id

\* "Two ticks therefore cannot overlap" (jobs.rs:109): no two workers run or
\* settle one scheduled job at the same time.
TicksNeverOverlap ==
    \A v, w \in Workers : Busy(v) /\ Busy(w) /\ v # w =>
        claim[v].name \notin Ticks \/ claim[v].name # claim[w].name

\* What a worker knows of its row is what the row says, for as long as the row
\* is there: settling by id alone, as succeed and fail do, settles the
\* worker's own attempt and no other.
ClaimCurrent ==
    \A w \in Workers : Busy(w) /\ claim[w].id \in InQueue =>
        /\ jobs[claim[w].id].attempts = claim[w].attempts
        /\ jobs[claim[w].id].lease = left[w]
        /\ left[w] >= 0

\* "Counting first and inserting second lets two requests both see room and
\* both take it" (jobs.rs:212-214; jobs.md, 3.7): the queue stays within
\* job_queue_limit.
DepthBounded == QueueLimit # 0 => Cardinality(InQueue) <= QueueLimit

\* "The attempt that exhausts `retries` moves the job to `_jwc_jobs_dead` with
\* its last error and is not retried again" (jobs.md, 3.4).
DeadIsFinal ==
    \A w \in Workers : pc[w] = "running" /\ claim[w].name \in Calls =>
        claim[w].id \notin DeadJobs

Drained == \E w \in Workers : Draining(w)

\* Once some process drains the queue for good, every accepted dispatch leaves
\* it: no job is stuck behind a lost lease, a retry or a tick that is always
\* due (jobs.rs, claim: ORDER BY run_at, id).
Settles ==
    <>[]Drained => \A q \in Requests :
        req[q].state = "ok" ~> req[q].id \notin InQueue

\* And every tick keeps coming back (jobs.rs:105-112), also after a tick that
\* was dead-lettered or lost.
TickRecurs ==
    <>[]Drained => \A n \in Ticks :
        []<>(\E w \in Workers : pc[w] = "running" /\ claim[w].name = n)
=============================================================================
