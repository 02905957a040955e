--------------------------- MODULE JobQueueProofs ---------------------------
(***************************************************************************)
(* Theorems about the job queue, for every set of workers, replicas,       *)
(* builds and requests and every value of the bounds.                      *)
(***************************************************************************)
EXTENDS JobQueue, FiniteSetTheorems, TLAPS

LEMMA AnyBuildIsBuild == AnyBuild \in Builds
BY BuildsAssumption DEF AnyBuild

-----------------------------------------------------------------------------
(* Rows.  What the statements do to a row is used through these lemmas.    *)

LEMMA NoRowType == NoRow \in Row /\ NoRow.state = "none" /\ NoRow.every = 0
BY LimitsAssumption DEF NoRow, Row

LEMMA CommittedRow ==
    ASSUME NEW row \in Row
    PROVE  /\ Committed(row) \in Row
           /\ Committed(row).state = "queued"
           /\ Committed(row).name = row.name
           /\ Committed(row).every = row.every
           /\ Committed(row).max = row.max
BY DEF Committed, Row

LEMMA LeasedRow ==
    ASSUME NEW row \in Row
    PROVE  /\ Leased(row) \in Row
           /\ Leased(row).state = row.state
           /\ Leased(row).name = row.name
           /\ Leased(row).every = row.every
           /\ Leased(row).max = row.max
           /\ Leased(row).attempts = row.attempts + 1
           /\ Leased(row).lease = LeaseSeconds
<1> DEFINE r1 == [row EXCEPT !.lease = LeaseSeconds]
<1>1. /\ r1 \in Row
      /\ r1.state = row.state /\ r1.name = row.name
      /\ r1.every = row.every /\ r1.max = row.max
      /\ r1.attempts = row.attempts /\ r1.lease = LeaseSeconds
  BY LimitsAssumption DEF Row
<1> HIDE DEF r1
<1>2. LET r2 == [r1 EXCEPT !.attempts = r1.attempts + 1]
      IN  /\ r2 \in Row
          /\ r2.state = r1.state /\ r2.name = r1.name
          /\ r2.every = r1.every /\ r2.max = r1.max
          /\ r2.attempts = r1.attempts + 1 /\ r2.lease = r1.lease
  BY <1>1 DEF Row
<1> QED
  BY <1>1, <1>2 DEF r1, Leased

LEMMA RetriedRow ==
    ASSUME NEW row \in Row
    PROVE  /\ Retried(row) \in Row
           /\ Retried(row).state = row.state
           /\ Retried(row).name = row.name
           /\ Retried(row).every = row.every
           /\ Retried(row).max = row.max
           /\ Retried(row).attempts = row.attempts
<1> DEFINE r1 == [row EXCEPT !.lease = -1]
<1>1. /\ r1 \in Row
      /\ r1.state = row.state /\ r1.name = row.name
      /\ r1.every = row.every /\ r1.max = row.max
      /\ r1.attempts = row.attempts
  BY LimitsAssumption DEF Row
<1> HIDE DEF r1
<1>2. LET r2 == [r1 EXCEPT !.due = Backoff]
      IN  /\ r2 \in Row
          /\ r2.state = r1.state /\ r2.name = r1.name
          /\ r2.every = r1.every /\ r2.max = r1.max
          /\ r2.attempts = r1.attempts
  BY <1>1, LimitsAssumption DEF Row
<1> QED
  BY <1>1, <1>2 DEF r1, Retried

LEMMA ResetRow ==
    ASSUME NEW row \in Row
    PROVE  /\ Reset(row) \in Row
           /\ Reset(row).state = row.state
           /\ Reset(row).name = row.name
           /\ Reset(row).every = row.every
           /\ Reset(row).max = row.max
<1> DEFINE r1 == [row EXCEPT !.lease = -1]
           r2 == [r1 EXCEPT !.attempts = 0]
<1>1. /\ r1 \in Row
      /\ r1.state = row.state /\ r1.name = row.name
      /\ r1.every = row.every /\ r1.max = row.max
  BY LimitsAssumption DEF Row
<1> HIDE DEF r1
<1>2. /\ r2 \in Row
      /\ r2.state = r1.state /\ r2.name = r1.name
      /\ r2.every = r1.every /\ r2.max = r1.max
  BY <1>1 DEF Row
<1> HIDE DEF r2
<1>3. LET r3 == [r2 EXCEPT !.due = row.every]
      IN  /\ r3 \in Row
          /\ r3.state = r2.state /\ r3.name = r2.name
          /\ r3.every = r2.every /\ r3.max = r2.max
  BY <1>2 DEF Row
<1> QED
  BY <1>1, <1>2, <1>3 DEF r1, r2, Reset

LEMMA UpsertedRow ==
    ASSUME NEW row \in Row, NEW every \in Nat, NEW max \in Nat
    PROVE  /\ Upserted(row, every, max) \in Row
           /\ Upserted(row, every, max).state = row.state
           /\ Upserted(row, every, max).name = row.name
           /\ Upserted(row, every, max).every = every
           /\ Upserted(row, every, max).attempts = row.attempts
           /\ Upserted(row, every, max).lease = row.lease
<1> DEFINE r1 == [row EXCEPT !.every = every]
           r2 == [r1 EXCEPT !.max = max]
<1>1. /\ r1 \in Row
      /\ r1.state = row.state /\ r1.name = row.name /\ r1.every = every
      /\ r1.attempts = row.attempts /\ r1.lease = row.lease
  BY DEF Row
<1> HIDE DEF r1
<1>2. /\ r2 \in Row
      /\ r2.state = r1.state /\ r2.name = r1.name /\ r2.every = r1.every
      /\ r2.attempts = r1.attempts /\ r2.lease = r1.lease
  BY <1>1 DEF Row
<1> HIDE DEF r2
<1>3. LET r3 == [r2 EXCEPT !.due = Least(r2.due, every)]
      IN  /\ r3 \in Row
          /\ r3.state = r2.state /\ r3.name = r2.name /\ r3.every = r2.every
          /\ r3.attempts = r2.attempts /\ r3.lease = r2.lease
  BY <1>2 DEF Row, Least
<1> QED
  BY <1>1, <1>2, <1>3 DEF r1, r2, Upserted

LEMMA InsertedRow ==
    ASSUME NEW state \in {"open", "queued"}, NEW name \in Names,
           NEW every \in Nat, NEW max \in Nat, NEW due \in Nat
    PROVE  /\ NewRow(state, name, every, max, due) \in Row
           /\ NewRow(state, name, every, max, due).state = state
           /\ NewRow(state, name, every, max, due).name = name
           /\ NewRow(state, name, every, max, due).every = every
           /\ NewRow(state, name, every, max, due).max = max
BY LimitsAssumption DEF NewRow, Row

\* Ranking the past leaves a timestamp a number.
LEMMA LaterType ==
    ASSUME TypeOK, NEW d \in Int
    PROVE  Later(d) \in Int
<1> DEFINE S == {i \in Ids : jobs[i].state # "none" /\ d <= jobs[i].due /\ jobs[i].due <= 0}
<1>1. IsFiniteSet(Ids)
  BY FS_Interval, BoundsAssumption DEF Ids
<1>2. IsFiniteSet(S)
  BY <1>1, FS_Subset
<1>3. Cardinality(S) \in Nat
  BY <1>2, FS_CardinalityType
<1> QED
  BY <1>3 DEF Later

LEMMA AgedRow ==
    ASSUME TypeOK, NEW row \in Row
    PROVE  /\ Aged(row) \in Row
           /\ Aged(row).state = row.state
           /\ Aged(row).name = row.name
           /\ Aged(row).every = row.every
           /\ Aged(row).max = row.max
           /\ Aged(row).attempts = row.attempts
           /\ Aged(row).lease = Elapse(row.lease)
<1>1. row.due \in Int /\ row.lease \in -1..LeaseSeconds
  BY DEF Row
<1>2. Later(row.due) \in Int
  BY <1>1, LaterType
<1>3. Elapse(row.lease) \in -1..LeaseSeconds
  BY <1>1, LimitsAssumption DEF Elapse
<1> QED
  BY <1>2, <1>3 DEF Aged, Row

-----------------------------------------------------------------------------
(* Types.                                                                  *)

LEMMA InitType == Init => TypeOK
BY AnyBuildIsBuild, NoRowType, LimitsAssumption DEF Init, TypeOK, Busy, NoClaim, NotDead, Ids

LEMMA ResetOrDeleteType ==
    ASSUME TypeOK, NEW i, ResetOrDelete(i)
    PROVE  jobs' \in [Ids -> Row]
BY NoRowType, ResetRow DEF TypeOK, ResetOrDelete

LEMMA LeaseType ==
    ASSUME TypeOK, NEW i \in Ids, Lease(i)
    PROVE  jobs' \in [Ids -> Row]
BY LeasedRow DEF TypeOK, Lease

LEMMA ReleaseType ==
    ASSUME TypeOK, NEW w \in Workers, Release(w)
    PROVE  /\ pc' \in [Workers -> {"idle", "running", "succeed", "fail", "bury"}]
           /\ claim' \in [Workers -> [id : Ids \cup {0}, name : Names \cup {NoName},
                                      attempts : Nat, max : Nat]]
           /\ left' \in [Workers -> -1..LeaseSeconds]
           /\ \A v \in Workers : pc'[v] # "idle" => claim'[v].id \in Ids
BY LimitsAssumption DEF TypeOK, Release, NoClaim, Busy

LEMMA RequestType ==
    ASSUME TypeOK, NEW q \in Requests, RequestStep(q)
    PROVE  TypeOK'
<1> USE DEF TypeOK, vars, table, workers, deploys, Busy
<1>1. CASE Enqueue(q)
  <2>0. PICK r \in Alive : \E n \in Declared[build[r]] \cap Calls :
          jobs' = [jobs EXCEPT ![nextId] = NewRow("open", n, 0, Retries[build[r]][n], 0)]
    BY <1>1 DEF Enqueue
  <2>1. PICK n \in Declared[build[r]] \cap Calls :
          jobs' = [jobs EXCEPT ![nextId] = NewRow("open", n, 0, Retries[build[r]][n], 0)]
    BY <2>0
  <2>2. NewRow("open", n, 0, Retries[build[r]][n], 0) \in Row
    BY BuildsAssumption, InsertedRow DEF Alive, Names
  <2> QED
    BY <1>1, <2>1, <2>2 DEF Enqueue
<1>2. CASE Refuse(q)
  BY <1>2 DEF Refuse
<1>3. CASE Commit(q)
  BY <1>3, CommittedRow DEF Commit
<1>4. CASE Rollback(q)
  BY <1>4, NoRowType DEF Rollback
<1> QED
  BY <1>1, <1>2, <1>3, <1>4 DEF RequestStep

LEMMA WorkerType ==
    ASSUME TypeOK, NEW w \in Workers, WorkerStep(w)
    PROVE  TypeOK'
<1> USE DEF TypeOK, vars, table, workers, deploys, Busy
<1>1. CASE Claim(w)
  <2>1. PICK i \in Ids :
          /\ Lease(i)
          /\ claim' = [claim EXCEPT ![w] = [id |-> i, name |-> jobs[i].name,
                         attempts |-> jobs[i].attempts + 1, max |-> jobs[i].max]]
    BY <1>1 DEF Claim
  <2>2. jobs[i] \in Row
    OBVIOUS
  <2> QED
    BY <1>1, <2>1, <2>2, LeaseType, LimitsAssumption DEF Claim, Row
<1>2. CASE ClaimLost(w)
  BY <1>2, LeaseType DEF ClaimLost
<1>3. CASE Run(w)
  <2>1. done' \in SUBSET Ids
    BY <1>3 DEF Run
  <2> QED
    BY <1>3, <2>1 DEF Run
<1>4. CASE Succeed(w)
  BY <1>4, ResetOrDeleteType, ReleaseType DEF Succeed
<1>5. CASE Retry(w)
  BY <1>5, ReleaseType, RetriedRow DEF Retry
<1>6. CASE Bury(w)
  BY <1>6 DEF Bury, Row, InQueue
<1>7. CASE FinishBury(w)
  BY <1>7, ResetOrDeleteType, ReleaseType DEF FinishBury
<1>8. CASE SettleLost(w)
  BY <1>8, ReleaseType DEF SettleLost
<1> QED
  BY <1>1, <1>2, <1>3, <1>4, <1>5, <1>6, <1>7, <1>8 DEF WorkerStep
LEMMA BootType ==
    ASSUME TypeOK, NEW r \in Replicas, ReplicaStep(r)
    PROVE  TypeOK'
<1> USE DEF TypeOK, vars, table, workers, deploys, Busy
<1>1. CASE Boot(r)
  <2>1. jobs' \in [Ids -> Row]
    BY <1>1, NoRowType DEF Boot
  <2>2. /\ unseeded' \in [Replicas -> SUBSET Ticks]
        /\ build' \in [Replicas -> Builds]
        /\ phase' \in [Replicas -> {"down", "booting", "up", "serving"}]
    BY <1>1 DEF Boot
  <2> QED
    BY <1>1, <2>1, <2>2 DEF Boot
<1>2. CASE Seed(r)
  <2> DEFINE b == build[r]
             held(n) == {i \in InQueue : Scheduled(i) /\ jobs[i].name = n}
  <2>1. PICK n \in unseeded[r] :
          /\ unseeded' = [unseeded EXCEPT ![r] = @ \ {n}]
          /\ \/ /\ nextId \in Ids
                /\ jobs' = [jobs EXCEPT ![nextId] =
                              NewRow("queued", n, Period[b][n], Retries[b][n], Period[b][n])]
                /\ nextId' = nextId + 1
             \/ /\ jobs' = [i \in Ids |-> IF i \in held(n)
                              THEN Upserted(jobs[i], Period[b][n], Retries[b][n]) ELSE jobs[i]]
                /\ UNCHANGED nextId
    BY <1>2 DEF Seed
  <2>2. n \in Ticks /\ n \in Names /\ Period[b][n] \in Nat /\ Retries[b][n] \in Nat
    BY BuildsAssumption DEF Names
  <2>3. NewRow("queued", n, Period[b][n], Retries[b][n], Period[b][n]) \in Row
    BY <2>2, InsertedRow
  <2>4. \A i \in Ids : Upserted(jobs[i], Period[b][n], Retries[b][n]) \in Row
    BY <2>2, UpsertedRow
  <2>5. jobs' \in [Ids -> Row]
    BY <2>1, <2>3, <2>4
  <2>6. nextId' \in Nat \ {0} /\ unseeded' \in [Replicas -> SUBSET Ticks]
    BY <2>1
  <2> QED
    BY <1>2, <2>5, <2>6 DEF Seed
<1>3. CASE StartWorkers(r)
  BY <1>3 DEF StartWorkers
<1>4. CASE BootFails(r)
  BY <1>4 DEF BootFails
<1>5. CASE Stop(r)
  <2>1. /\ pc' \in [Workers -> {"idle", "running", "succeed", "fail", "bury"}]
        /\ left' \in [Workers -> -1..LeaseSeconds]
        /\ claim' \in [Workers -> [id : Ids \cup {0}, name : Names \cup {NoName},
                                   attempts : Nat, max : Nat]]
        /\ \A w \in Workers : pc'[w] # "idle" => claim'[w].id \in Ids
    BY <1>5, LimitsAssumption DEF Stop, NoClaim
  <2>2. /\ phase' \in [Replicas -> {"down", "booting", "up", "serving"}]
        /\ build' \in [Replicas -> Builds]
        /\ unseeded' \in [Replicas -> SUBSET Ticks]
    BY <1>5, AnyBuildIsBuild DEF Stop
  <2> QED
    BY <1>5, <2>1, <2>2 DEF Stop
<1> QED
  BY <1>1, <1>2, <1>3, <1>4, <1>5 DEF ReplicaStep

LEMMA TickType ==
    ASSUME TypeOK, Tick
    PROVE  TypeOK'
<1> USE DEF TypeOK, vars, table, workers, deploys, Busy
<1>1. \A i \in Ids : Aged(jobs[i]) \in Row
  BY AgedRow
<1>2. jobs' \in [Ids -> Row]
  BY <1>1, NoRowType DEF Tick
<1>3. left' \in [Workers -> -1..LeaseSeconds]
  BY LimitsAssumption DEF Tick, Elapse
<1> QED
  BY <1>2, <1>3 DEF Tick

LEMMA NextType == TypeOK /\ [Next]_vars => TypeOK'
<1> SUFFICES ASSUME TypeOK, [Next]_vars
             PROVE  TypeOK'
  OBVIOUS
<1>1. CASE UNCHANGED vars
  BY <1>1 DEF TypeOK, vars, table, workers, deploys, Busy
<1> QED
  BY <1>1, RequestType, WorkerType, BootType, TickType DEF Next

\* Every variable keeps its type, for every instance.
THEOREM TypeCorrect == Spec => []TypeOK
<1>1. Init => TypeOK
  BY InitType
<1>2. TypeOK /\ [Next]_vars => TypeOK'
  BY NextType
<1> QED
  BY <1>1, <1>2, PTL DEF Spec

-----------------------------------------------------------------------------
(* No dispatch is lost.  NothingLost is not inductive: that a settled row   *)
(* may go rests on what its worker recorded before, that it is the row the  *)
(* worker claimed rests on ids not being given twice, and that no other     *)
(* statement takes it away rests on dispatched rows carrying no interval.   *)

Live(q) == req[q].state \in {"open", "ok"}

\* Ids at or past the sequence were never given out.
FreshIds ==
    /\ \A i \in Ids : i >= nextId => jobs[i].state = "none" /\ dead[i] = NotDead
    /\ \A q \in Requests : req[q].id < nextId
    /\ \A w \in Workers : claim[w].id < nextId

\* A dispatched row belongs to one request, and nobody has claimed or buried it
\* before the request commits.
OwnRow ==
    \A q \in Requests : Live(q) =>
        /\ req[q].id \in Ids
        /\ \A p \in Requests : Live(p) /\ req[p].id = req[q].id => p = q
        /\ jobs[req[q].id].state # "none" =>
              jobs[req[q].id].name \in Calls /\ jobs[req[q].id].every = 0
        /\ req[q].state = "open" =>
              /\ jobs[req[q].id].state = "open"
              /\ dead[req[q].id] = NotDead
              /\ \A w \in Workers : claim[w].id # req[q].id
        /\ req[q].state = "ok" => jobs[req[q].id].state # "open"

\* Everything that carries the name of a dispatched job is a committed dispatch.
Owned ==
    /\ \A i \in Ids : jobs[i].state = "queued" /\ jobs[i].name \in Calls => i \in Accepted
    /\ \A w \in Workers : Busy(w) /\ claim[w].name \in Calls => claim[w].id \in Accepted
    /\ done \subseteq Accepted

\* A worker that is about to delete a dispatched row has recorded why.
Recorded ==
    \A w \in Workers : Busy(w) /\ claim[w].id \in Accepted =>
        /\ claim[w].name \in Calls
        /\ pc[w] = "succeed" => claim[w].id \in done
        /\ pc[w] = "bury" => claim[w].id \in done \cup DeadJobs

LossInv == FreshIds /\ OwnRow /\ Owned /\ Recorded /\ NothingLost

LEMMA InitLoss == Init => LossInv
BY DEF Init, LossInv, FreshIds, OwnRow, Owned, Recorded, NothingLost, Live, NoRow, NoClaim,
       Busy, Accepted, InQueue, DeadJobs, Ids

\* What a step of a worker does to the rows: it keeps them, but for the one it
\* deletes.
LEMMA ResetOrDeleteRows ==
    ASSUME TypeOK, NEW k, ResetOrDelete(k)
    PROVE  \A i \in Ids : /\ jobs'[i].state = jobs[i].state \/ (i = k /\ jobs'[i].state = "none")
                          /\ jobs'[i].state # "none" =>
                                jobs'[i].name = jobs[i].name /\ jobs'[i].every = jobs[i].every
<1> SUFFICES ASSUME NEW i \in Ids
             PROVE  /\ jobs'[i].state = jobs[i].state \/ (i = k /\ jobs'[i].state = "none")
                    /\ jobs'[i].state # "none" =>
                          jobs'[i].name = jobs[i].name /\ jobs'[i].every = jobs[i].every
  OBVIOUS
<1>0. jobs[i] \in Row /\ jobs \in [Ids -> Row]
  BY DEF TypeOK
<1>1. CASE i # k
  <2>1. jobs'[i] = jobs[i]
    BY <1>0, <1>1 DEF ResetOrDelete
  <2> QED
    BY <2>1
<1>2. CASE i = k /\ Scheduled(k)
  <2>1. jobs'[i] = Reset(jobs[i])
    BY <1>0, <1>2 DEF ResetOrDelete
  <2>2. /\ Reset(jobs[i]).state = jobs[i].state
        /\ Reset(jobs[i]).name = jobs[i].name
        /\ Reset(jobs[i]).every = jobs[i].every
    BY <1>0, ResetRow
  <2> QED
    BY <2>1, <2>2
<1>3. CASE i = k /\ ~Scheduled(k)
  <2>1. jobs'[i] = NoRow
    BY <1>0, <1>3 DEF ResetOrDelete
  <2> QED
    BY <1>3, <2>1, NoRowType
<1> QED
  BY <1>1, <1>2, <1>3

LEMMA LeaseRows ==
    ASSUME TypeOK, NEW k \in Ids, Lease(k)
    PROVE  \A i \in Ids : /\ jobs'[i].state = jobs[i].state
                          /\ jobs'[i].name = jobs[i].name
                          /\ jobs'[i].every = jobs[i].every
BY LeasedRow DEF TypeOK, Lease

LEMMA RetryRows ==
    ASSUME TypeOK, NEW w \in Workers, Retry(w)
    PROVE  \A i \in Ids : /\ jobs'[i].state = jobs[i].state
                          /\ jobs'[i].name = jobs[i].name
                          /\ jobs'[i].every = jobs[i].every
BY RetriedRow DEF TypeOK, Retry

\* The statements of workers and boots leave the requests alone; LossInv
\* survives them when they keep or delete rows, deletions being of rows that
\* are no dispatch or that were recorded, bury only rows that are queued and
\* claim only rows that are queued.
RowKept(i) ==
    /\ jobs'[i].state # jobs[i].state =>
          /\ jobs'[i].state = "none"
          /\ \A q \in Requests : req[q].state = "open" => req[q].id # i
          /\ i \in Accepted => i \in done \cup DeadJobs
    /\ jobs'[i].state # "none" =>
          /\ jobs'[i].name = jobs[i].name
          /\ jobs[i].every = 0 => jobs'[i].every = 0

ClaimSound(v) ==
    Busy(v) =>
        /\ claim[v].name \in Calls <=> claim[v].id \in Accepted
        /\ claim[v].id \in Accepted =>
              /\ pc[v] = "succeed" => claim[v].id \in done
              /\ pc[v] = "bury" => claim[v].id \in done \cup DeadJobs

LEMMA AcceptedMembers ==
    /\ \A i : i \in Accepted <=> \E q \in Requests : req[q].state = "ok" /\ req[q].id = i
    /\ \A i : i \in Accepted' <=> \E q \in Requests : req'[q].state = "ok" /\ req'[q].id = i
BY DEF Accepted

LEMMA AcceptedRow ==
    ASSUME LossInv, NEW i \in Accepted
    PROVE  /\ i \in Ids
           /\ jobs[i].state # "none" => jobs[i].name \in Calls /\ jobs[i].every = 0
           /\ jobs[i].state # "open"
BY AcceptedMembers DEF LossInv, OwnRow, Live

LEMMA ClaimsSound ==
    ASSUME LossInv
    PROVE  \A v \in Workers : ClaimSound(v)
BY DEF LossInv, Owned, Recorded, ClaimSound

LEMMA Frame ==
    ASSUME TypeOK, LossInv, req' = req, nextId' = nextId,
           \A i \in Ids : RowKept(i),
           \A i \in Ids : /\ dead[i] # NotDead => dead'[i] # NotDead
                          /\ dead'[i] # NotDead => dead[i] # NotDead \/ i \in InQueue,
           done \subseteq done', done' \subseteq Accepted,
           \A v \in Workers : claim'[v].id = claim[v].id \/ claim'[v].id = 0
                              \/ claim'[v].id \in InQueue,
           \A v \in Workers : ClaimSound(v)'
    PROVE  LossInv'
<1> USE DEF LossInv
<1>0. Accepted' = Accepted
  BY DEF Accepted
<1>a. nextId \in Nat /\ 0 < nextId /\ Ids \subseteq Nat
  BY BoundsAssumption DEF TypeOK, Ids
<1>1. FreshIds'
  <2>1. \A i \in Ids : i >= nextId => jobs'[i].state = "none" /\ dead'[i] = NotDead
    BY DEF FreshIds, RowKept, InQueue
  <2>2. \A i \in InQueue : i < nextId
    <3>1. \A i \in Ids : i >= nextId => jobs[i].state = "none"
      BY DEF FreshIds
    <3>2. \A i \in InQueue : i \in Ids /\ i \in Nat /\ jobs[i].state = "queued"
      BY <1>a DEF InQueue
    <3> QED
      BY <1>a, <3>1, <3>2
  <2>3. \A w \in Workers : claim'[w].id < nextId
    BY <1>a, <2>2 DEF FreshIds
  <2> QED
    BY <2>1, <2>3 DEF FreshIds
<1>2. OwnRow'
  <2> SUFFICES ASSUME NEW q \in Requests, Live(q)
               PROVE  /\ jobs'[req[q].id].state # "none" =>
                            /\ jobs'[req[q].id].name \in Calls
                            /\ jobs'[req[q].id].every = 0
                      /\ req[q].state = "open" =>
                            /\ jobs'[req[q].id].state = "open"
                            /\ dead'[req[q].id] = NotDead
                            /\ \A w \in Workers : claim'[w].id # req[q].id
                      /\ req[q].state = "ok" => jobs'[req[q].id].state # "open"
    BY DEF OwnRow, Live
  <2> DEFINE i == req[q].id
  <2>1. /\ i \in Ids
        /\ jobs[i].state # "none" => jobs[i].name \in Calls /\ jobs[i].every = 0
        /\ req[q].state = "open" =>
              /\ jobs[i].state = "open"
              /\ dead[i] = NotDead
              /\ \A w \in Workers : claim[w].id # i
        /\ req[q].state = "ok" => jobs[i].state # "open"
    BY DEF OwnRow
  <2>2. RowKept(i)
    BY <2>1
  <2>3. i # 0
    BY <2>1 DEF Ids
  <2> HIDE DEF i
  <2>4. ASSUME jobs'[i].state # "none"
        PROVE  jobs'[i].name \in Calls /\ jobs'[i].every = 0
    <3>1. jobs'[i].state = jobs[i].state
      BY <2>2, <2>4 DEF RowKept
    <3>2. jobs[i].name \in Calls /\ jobs[i].every = 0
      BY <2>1, <2>4, <3>1
    <3>3. jobs'[i].name = jobs[i].name /\ jobs'[i].every = 0
      BY <2>2, <2>4, <3>2 DEF RowKept
    <3> QED
      BY <3>2, <3>3
  <2>5. req[q].state = "open" =>
              /\ jobs'[i].state = "open"
              /\ dead'[i] = NotDead
              /\ \A w \in Workers : claim'[w].id # i
    BY <2>1, <2>2, <2>3 DEF RowKept, InQueue, i
  <2>6. req[q].state = "ok" => jobs'[i].state # "open"
    BY <2>1, <2>2 DEF RowKept
  <2> QED
    BY <2>4, <2>5, <2>6 DEF i
<1>3. Owned'
  <2>1. ASSUME NEW i \in Ids, jobs'[i].state = "queued", jobs'[i].name \in Calls
        PROVE  i \in Accepted
    <3>1. RowKept(i)
      OBVIOUS
    <3>2. jobs[i].state = "queued" /\ jobs[i].name \in Calls
      BY <2>1, <3>1 DEF RowKept
    <3> QED
      BY <3>2 DEF Owned
  <2>2. \A w \in Workers : pc'[w] # "idle" /\ claim'[w].name \in Calls => claim'[w].id \in Accepted
    BY <1>0 DEF ClaimSound, Busy
  <2> QED
    BY <1>0, <2>1, <2>2 DEF Owned, Busy
<1>4. Recorded'
  BY <1>0 DEF Recorded, ClaimSound
<1>5. NothingLost'
  <2> SUFFICES ASSUME NEW i \in Accepted
               PROVE  i \in InQueue' \cup done' \cup DeadJobs'
    BY <1>0 DEF NothingLost
  <2>1. i \in InQueue \cup done \cup DeadJobs /\ i \in Ids
    BY DEF NothingLost, TypeOK, InQueue, DeadJobs
  <2>2. i \in DeadJobs => i \in DeadJobs'
    BY <2>1 DEF DeadJobs
  <2>3. i \in InQueue => i \in InQueue' \cup done \cup DeadJobs
    BY <2>1 DEF InQueue, RowKept
  <2> QED
    BY <2>1, <2>2, <2>3
<1> QED
  BY <1>1, <1>2, <1>3, <1>4, <1>5

\* A row that its worker settles, having recorded why, may go.
LEMMA SettledRows ==
    ASSUME TypeOK, LossInv, NEW w \in Workers, Busy(w), ResetOrDelete(claim[w].id),
           claim[w].id \in Accepted => claim[w].id \in done \cup DeadJobs
    PROVE  \A i \in Ids : RowKept(i)
<1> SUFFICES ASSUME NEW i \in Ids
             PROVE  RowKept(i)
  OBVIOUS
<1>1. CASE i # claim[w].id
  BY <1>1, ResetOrDeleteRows DEF RowKept
<1>2. CASE i = claim[w].id
  <2>1. \A q \in Requests : req[q].state = "open" => req[q].id # i
    BY <1>2 DEF LossInv, OwnRow, Live
  <2> QED
    BY <1>2, <2>1, ResetOrDeleteRows DEF RowKept
<1> QED
  BY <1>1, <1>2

LEMMA ReleasedClaims ==
    ASSUME TypeOK, LossInv, NEW w \in Workers, Release(w), done' = done, dead' = dead, req' = req
    PROVE  /\ \A v \in Workers : claim'[v].id = claim[v].id \/ claim'[v].id = 0
           /\ \A v \in Workers : ClaimSound(v)'
<1>1. \A v \in Workers : pc'[v] = (IF v = w THEN "idle" ELSE pc[v])
  BY DEF TypeOK, Release
<1>2. \A v \in Workers : claim'[v] = (IF v = w THEN NoClaim ELSE claim[v])
  BY DEF TypeOK, Release
<1>3. Accepted' = Accepted /\ DeadJobs' = DeadJobs
  BY DEF Accepted, DeadJobs
<1>4. \A v \in Workers : ClaimSound(v)'
  BY <1>1, <1>2, <1>3, ClaimsSound DEF ClaimSound, Busy
<1> QED
  BY <1>2, <1>4 DEF NoClaim

LEMMA WorkerLoss ==
    ASSUME TypeOK, LossInv, NEW w \in Workers, WorkerStep(w)
    PROVE  LossInv'
<1> USE DEF table, workers, deploys
<1>0. req' = req /\ nextId' = nextId /\ Accepted' = Accepted
  BY DEF WorkerStep, Claim, ClaimLost, Run, Succeed, Retry, Bury, FinishBury, SettleLost, Accepted
<1>d. done \subseteq Accepted
  BY DEF LossInv, Owned
<1>1. CASE Claim(w)
  <2>1. PICK i \in Ids :
          /\ Lease(i)
          /\ claim' = [claim EXCEPT ![w] = [id |-> i, name |-> jobs[i].name,
                         attempts |-> jobs[i].attempts + 1, max |-> jobs[i].max]]
    BY <1>1 DEF Claim
  <2>2. i \in InQueue
    BY <2>1 DEF Lease, Ready
  <2>3. \A j \in Ids : RowKept(j)
    BY <2>1, LeaseRows DEF RowKept
  <2>4. jobs[i].name \in Calls <=> i \in Accepted
    BY <2>2, AcceptedRow DEF LossInv, Owned, InQueue
  <2>5. \A v \in Workers : claim'[v] = (IF v = w THEN [id |-> i, name |-> jobs[i].name,
                              attempts |-> jobs[i].attempts + 1, max |-> jobs[i].max]
                            ELSE claim[v])
    BY <2>1 DEF TypeOK
  <2>6. \A v \in Workers : pc'[v] = (IF v = w THEN "running" ELSE pc[v])
    BY <1>1 DEF Claim, TypeOK
  <2>7. \A v \in Workers : claim'[v].id = claim[v].id \/ claim'[v].id \in InQueue
    BY <2>2, <2>5
  <2>8. done' = done /\ dead' = dead /\ DeadJobs' = DeadJobs
    BY <1>1 DEF Claim, DeadJobs
  <2>9. \A v \in Workers : ClaimSound(v)'
    BY <1>0, <2>4, <2>5, <2>6, <2>8, ClaimsSound DEF ClaimSound, Busy
  <2> QED
    BY <1>0, <1>d, <2>3, <2>7, <2>8, <2>9, Frame
<1>2. CASE ClaimLost(w)
  <2>1. PICK i \in Ids : Lease(i)
    BY <1>2 DEF ClaimLost
  <2>2. \A j \in Ids : RowKept(j)
    BY <2>1, LeaseRows DEF RowKept
  <2>3. \A v \in Workers : ClaimSound(v)'
    BY <1>0, <1>2, ClaimsSound DEF ClaimSound, ClaimLost, Busy, DeadJobs
  <2> QED
    BY <1>0, <1>d, <1>2, <2>2, <2>3, Frame DEF ClaimLost
<1>3. CASE Run(w)
  <2>1. /\ jobs' = jobs /\ dead' = dead /\ claim' = claim /\ DeadJobs' = DeadJobs
    BY <1>3 DEF Run, DeadJobs
  <2>2. \A j \in Ids : RowKept(j)
    BY <2>1 DEF RowKept
  <2>3. done \subseteq done' /\ done' \subseteq Accepted
    BY <1>3, <1>d, ClaimsSound DEF Run, ClaimSound, Busy
  <2>4. \A v \in Workers : pc'[v] # pc[v] => v = w
    BY <1>3 DEF Run, TypeOK
  <2>5. pc[w] = "running" /\ pc'[w] \in {"succeed", "fail"}
    BY <1>3 DEF Run, TypeOK
  <2>6. pc'[w] = "succeed" /\ claim[w].name \in Calls => claim[w].id \in done'
    BY <1>3, <2>5 DEF Run, TypeOK
  <2>7. \A v \in Workers : ClaimSound(v)'
    BY <1>0, <2>1, <2>3, <2>4, <2>5, <2>6, ClaimsSound DEF ClaimSound, Busy
  <2> QED
    BY <1>0, <2>1, <2>2, <2>3, <2>7, Frame
<1>4. CASE Succeed(w)
  <2>1. \A j \in Ids : RowKept(j)
    BY <1>4, SettledRows, ClaimsSound DEF Succeed, ClaimSound, Busy
  <2> QED
    BY <1>0, <1>d, <1>4, <2>1, ReleasedClaims, Frame DEF Succeed
<1>5. CASE Retry(w)
  <2>1. \A j \in Ids : RowKept(j)
    BY <1>5, RetryRows DEF RowKept
  <2> QED
    BY <1>0, <1>d, <1>5, <2>1, ReleasedClaims, Frame DEF Retry
<1>6. CASE Bury(w)
  <2>1. jobs' = jobs /\ claim' = claim /\ done' = done
    BY <1>6 DEF Bury
  <2>2. \A j \in Ids : RowKept(j)
    BY <2>1 DEF RowKept
  <2>3. \A j \in Ids : /\ dead[j] # NotDead => dead'[j] # NotDead
                       /\ dead'[j] # NotDead => dead[j] # NotDead \/ j \in InQueue
    BY <1>6 DEF Bury, TypeOK, Row, NotDead, InQueue
  <2>4. claim[w].id \in InQueue => dead'[claim[w].id] # NotDead
    BY <1>6 DEF Bury, TypeOK, Row, NotDead, InQueue
  <2>5. claim[w].id \in Accepted => claim[w].id \in done \cup DeadJobs'
    BY <2>3, <2>4, AcceptedRow DEF LossInv, NothingLost, DeadJobs
  <2>6. pc' = [pc EXCEPT ![w] = "bury"] /\ pc[w] = "fail"
    BY <1>6 DEF Bury
  <2>7. \A v \in Workers : ClaimSound(v)'
    BY <1>0, <2>1, <2>3, <2>5, <2>6, ClaimsSound DEF ClaimSound, Busy, DeadJobs, TypeOK
  <2> QED
    BY <1>0, <1>d, <2>1, <2>2, <2>3, <2>7, Frame
<1>7. CASE FinishBury(w)
  <2>1. \A j \in Ids : RowKept(j)
    BY <1>7, SettledRows, ClaimsSound DEF FinishBury, ClaimSound, Busy
  <2> QED
    BY <1>0, <1>d, <1>7, <2>1, ReleasedClaims, Frame DEF FinishBury
<1>8. CASE SettleLost(w)
  <2>1. \A j \in Ids : RowKept(j)
    BY <1>8 DEF RowKept, SettleLost
  <2> QED
    BY <1>0, <1>d, <1>8, <2>1, ReleasedClaims, Frame DEF SettleLost
<1> QED
  BY <1>1, <1>2, <1>3, <1>4, <1>5, <1>6, <1>7, <1>8 DEF WorkerStep

LEMMA UndisturbedClaims ==
    ASSUME LossInv, req' = req, pc' = pc, claim' = claim, dead' = dead, done' = done
    PROVE  \A v \in Workers : ClaimSound(v)'
BY ClaimsSound, AcceptedMembers DEF ClaimSound, Busy, DeadJobs

LEMMA ReplicaLoss ==
    ASSUME TypeOK, LossInv, NEW r \in Replicas, ReplicaStep(r)
    PROVE  LossInv'
<1> USE DEF table, workers, deploys
<1>d. done \subseteq Accepted
  BY DEF LossInv, Owned
<1>1. CASE Boot(r)
  <2>1. \A i \in Ids : jobs'[i] = jobs[i] \/ (/\ jobs'[i] = NoRow
                                              /\ jobs[i].state = "queued" /\ jobs[i].every # 0)
    BY <1>1 DEF Boot, InQueue, Scheduled, TypeOK
  <2>2. \A i \in Ids : jobs[i].state = "queued" =>
                          \A q \in Requests : req[q].state = "open" => req[q].id # i
    BY DEF LossInv, OwnRow, Live
  <2>3. \A i \in Ids : RowKept(i)
    BY <2>1, <2>2, NoRowType, AcceptedRow DEF RowKept
  <2> QED
    BY <1>1, <1>d, <2>3, UndisturbedClaims, Frame DEF Boot
<1>2. CASE Seed(r)
  <2> DEFINE b == build[r]
             held(n) == {i \in InQueue : Scheduled(i) /\ jobs[i].name = n}
  <2>1. PICK n \in unseeded[r] :
          \/ /\ nextId \in Ids
             /\ jobs' = [jobs EXCEPT ![nextId] =
                           NewRow("queued", n, Period[b][n], Retries[b][n], Period[b][n])]
             /\ nextId' = nextId + 1
          \/ /\ jobs' = [i \in Ids |-> IF i \in held(n)
                           THEN Upserted(jobs[i], Period[b][n], Retries[b][n]) ELSE jobs[i]]
             /\ UNCHANGED nextId
    BY <1>2 DEF Seed
  <2>2. /\ n \in Ticks /\ n \in Names /\ n \notin Calls
        /\ Period[b][n] \in Nat /\ Retries[b][n] \in Nat
    BY BuildsAssumption, NamesAssumption DEF Names, TypeOK
  <2>3. req' = req /\ pc' = pc /\ claim' = claim /\ dead' = dead /\ done' = done
    BY <1>2 DEF Seed
  <2>4. CASE jobs' = [i \in Ids |-> IF i \in held(n)
                        THEN Upserted(jobs[i], Period[b][n], Retries[b][n]) ELSE jobs[i]]
             /\ UNCHANGED nextId
    <3>1. \A i \in Ids : jobs[i] \in Row
      BY DEF TypeOK
    <3>2. ASSUME NEW i \in Ids
          PROVE  RowKept(i)
      <4>1. CASE i \in held(n)
        <5>1. jobs'[i] = Upserted(jobs[i], Period[b][n], Retries[b][n])
          BY <2>4, <4>1
        <5>2. jobs'[i].state = jobs[i].state /\ jobs'[i].name = jobs[i].name
          BY <2>2, <3>1, <5>1, UpsertedRow
        <5>3. jobs[i].every # 0
          BY <4>1 DEF Scheduled
        <5> QED
          BY <5>2, <5>3 DEF RowKept
      <4>2. CASE i \notin held(n)
        BY <2>4, <4>2 DEF RowKept
      <4> QED
        BY <4>1, <4>2
    <3> QED
      BY <1>d, <2>3, <2>4, <3>2, UndisturbedClaims, Frame
  <2>5. CASE /\ nextId \in Ids
             /\ jobs' = [jobs EXCEPT ![nextId] =
                           NewRow("queued", n, Period[b][n], Retries[b][n], Period[b][n])]
             /\ nextId' = nextId + 1
    <3>1. /\ jobs'[nextId].state = "queued" /\ jobs'[nextId].name = n
          /\ \A i \in Ids : i # nextId => jobs'[i] = jobs[i]
      BY <2>2, <2>5, InsertedRow DEF TypeOK
    <3>2. Accepted' = Accepted /\ DeadJobs' = DeadJobs
      BY <2>3 DEF Accepted, DeadJobs
    <3>a. nextId \in Nat /\ \A i \in Ids : i \in Nat
      BY <2>5, BoundsAssumption DEF Ids
    <3>3. /\ \A q \in Requests : req[q].id < nextId
          /\ \A w \in Workers : claim[w].id < nextId
          /\ \A i \in Ids : i >= nextId => jobs[i].state = "none" /\ dead[i] = NotDead
      BY DEF LossInv, FreshIds
    <3>i. /\ \A q \in Requests : req[q].id \in Int
          /\ \A w \in Workers : claim[w].id \in Int
      BY BoundsAssumption DEF TypeOK, Ids
    <3>4. FreshIds'
      BY <2>3, <2>5, <3>1, <3>a, <3>3, <3>i DEF FreshIds
    <3>5. OwnRow'
      <4>1. \A q \in Requests : req[q].id # nextId
        BY <3>3, <3>a
      <4> QED
        BY <2>3, <3>1, <4>1 DEF LossInv, OwnRow, Live
    <3>6. Owned'
      BY <2>2, <2>3, <3>1, <3>2 DEF LossInv, Owned, Busy
    <3>7. Recorded'
      BY <2>3, <3>2 DEF LossInv, Recorded, Busy
    <3>8. NothingLost'
      BY <2>3, <3>1, <3>2, <3>a, <3>3 DEF LossInv, NothingLost, InQueue
    <3> QED
      BY <3>4, <3>5, <3>6, <3>7, <3>8 DEF LossInv
  <2> QED
    BY <2>1, <2>4, <2>5
<1>3. CASE StartWorkers(r)
  <2>1. \A i \in Ids : RowKept(i)
    BY <1>3 DEF StartWorkers, RowKept
  <2> QED
    BY <1>3, <1>d, <2>1, UndisturbedClaims, Frame DEF StartWorkers
<1>4. CASE BootFails(r)
  <2>1. \A i \in Ids : RowKept(i)
    BY <1>4 DEF BootFails, RowKept
  <2> QED
    BY <1>4, <1>d, <2>1, UndisturbedClaims, Frame DEF BootFails
<1>5. CASE Stop(r)
  <2>1. \A i \in Ids : RowKept(i)
    BY <1>5 DEF Stop, RowKept
  <2>2. \A v \in Workers : \/ pc'[v] = pc[v] /\ claim'[v] = claim[v]
                           \/ pc'[v] = "idle" /\ claim'[v] = NoClaim
    BY <1>5 DEF Stop, TypeOK
  <2>3. \A v \in Workers : claim'[v].id = claim[v].id \/ claim'[v].id = 0
    BY <2>2 DEF NoClaim
  <2>4. Accepted' = Accepted /\ DeadJobs' = DeadJobs /\ done' = done
    BY <1>5 DEF Stop, Accepted, DeadJobs
  <2>5. \A v \in Workers : ClaimSound(v)'
    BY <2>2, <2>4, ClaimsSound DEF ClaimSound, Busy
  <2> QED
    BY <1>5, <1>d, <2>1, <2>3, <2>5, Frame DEF Stop
<1> QED
  BY <1>1, <1>2, <1>3, <1>4, <1>5 DEF ReplicaStep

LEMMA TickLoss ==
    ASSUME TypeOK, LossInv, Tick
    PROVE  LossInv'
<1>1. \A i \in Ids : jobs[i] \in Row
  BY DEF TypeOK
<1>2. \A i \in Ids : jobs'[i] = (IF jobs[i].state = "none" THEN NoRow ELSE Aged(jobs[i]))
  BY DEF Tick
<1>3. \A i \in Ids : RowKept(i)
  BY <1>1, <1>2, AgedRow, NoRowType DEF RowKept
<1> QED
  BY <1>3, UndisturbedClaims, Frame DEF Tick, LossInv, Owned, deploys

LEMMA RequestLoss ==
    ASSUME TypeOK, LossInv, NEW q \in Requests, RequestStep(q)
    PROVE  LossInv'
<1> USE DEF table, workers, deploys
<1>0. /\ dead' = dead /\ claim' = claim /\ pc' = pc /\ done' = done /\ DeadJobs' = DeadJobs
  BY DEF RequestStep, Enqueue, Refuse, Commit, Rollback, DeadJobs
<1>t. /\ \A p \in Requests : req[p].id \in Int
      /\ \A w \in Workers : claim[w].id \in Int
      /\ \A i \in Ids : i \in Int
      /\ nextId \in Int
  BY BoundsAssumption DEF TypeOK, Ids
<1>f. /\ \A p \in Requests : req[p].id < nextId
      /\ \A w \in Workers : claim[w].id < nextId
      /\ \A i \in Ids : i >= nextId => jobs[i].state = "none" /\ dead[i] = NotDead
  BY DEF LossInv, FreshIds
<1>1. CASE Enqueue(q)
  <2>0. PICK r \in Alive : \E n \in Declared[build[r]] \cap Calls :
          jobs' = [jobs EXCEPT ![nextId] = NewRow("open", n, 0, Retries[build[r]][n], 0)]
    BY <1>1 DEF Enqueue
  <2>1. PICK n \in Declared[build[r]] \cap Calls :
          jobs' = [jobs EXCEPT ![nextId] = NewRow("open", n, 0, Retries[build[r]][n], 0)]
    BY <2>0
  <2>2. n \in Names /\ Retries[build[r]][n] \in Nat
    BY BuildsAssumption DEF Names, TypeOK, Alive
  <2>3. nextId \in Ids /\ nextId' = nextId + 1 /\ req[q].state = "new"
    BY <1>1 DEF Enqueue
  <2>4. /\ jobs'[nextId].state = "open" /\ jobs'[nextId].name = n /\ jobs'[nextId].every = 0
        /\ \A i \in Ids : i # nextId => jobs'[i] = jobs[i]
    <3>1. /\ jobs'[nextId] = NewRow("open", n, 0, Retries[build[r]][n], 0)
          /\ \A i \in Ids : i # nextId => jobs'[i] = jobs[i]
      BY <2>1, <2>3 DEF TypeOK
    <3> QED
      BY <2>2, <3>1, InsertedRow
  <2>5. /\ req'[q].state = "open" /\ req'[q].id = nextId
        /\ \A p \in Requests : p # q => req'[p] = req[p]
    BY <1>1 DEF Enqueue, TypeOK
  <2>6. Accepted' = Accepted
    <3>1. \A i : i \in Accepted' <=> i \in Accepted
      BY <2>3, <2>5, AcceptedMembers
    <3> QED
      BY <3>1
  <2>7. FreshIds'
    <3>1. \A p \in Requests : req'[p].id < nextId'
      BY <1>f, <1>t, <2>3, <2>5
    <3> QED
      BY <1>0, <1>f, <1>t, <2>3, <2>4, <3>1 DEF FreshIds
  <2>8. OwnRow'
    <3>1. \A p \in Requests : req[p].id # nextId
      BY <1>f, <1>t
    <3>2. dead[nextId] = NotDead /\ \A w \in Workers : claim[w].id # nextId
      BY <1>f, <1>t, <2>3
    <3> QED
      BY <1>0, <2>3, <2>4, <2>5, <3>1, <3>2 DEF LossInv, OwnRow, Live
  <2>9. Owned' /\ Recorded'
    BY <1>0, <2>4, <2>6 DEF LossInv, Owned, Recorded, Busy
  <2>10. NothingLost'
    BY <1>0, <1>f, <1>t, <2>3, <2>4, <2>6 DEF LossInv, NothingLost, InQueue
  <2> QED
    BY <2>7, <2>8, <2>9, <2>10 DEF LossInv
<1>2. CASE Refuse(q)
  <2>1. jobs' = jobs /\ nextId' = nextId /\ req[q].state = "new"
    BY <1>2 DEF Refuse
  <2>2. /\ req'[q].state = "failed" /\ req'[q].id = req[q].id
        /\ \A p \in Requests : p # q => req'[p] = req[p]
    BY <1>2 DEF Refuse, TypeOK
  <2>3. Accepted' = Accepted
    <3>1. \A i : i \in Accepted' <=> i \in Accepted
      BY <2>1, <2>2, AcceptedMembers
    <3> QED
      BY <3>1
  <2>4. FreshIds'
    BY <1>0, <2>1, <2>2 DEF LossInv, FreshIds
  <2>5. OwnRow'
    BY <1>0, <2>1, <2>2 DEF LossInv, OwnRow, Live
  <2> QED
    BY <1>0, <2>1, <2>3, <2>4, <2>5 DEF LossInv, Owned, Recorded, NothingLost, InQueue, Busy
<1>3. CASE Commit(q)
  <2> DEFINE k == req[q].id
  <2>1. /\ req[q].state = "open" /\ nextId' = nextId
        /\ jobs' = [jobs EXCEPT ![k] = Committed(jobs[k])]
    BY <1>3 DEF Commit
  <2>2. /\ req'[q].state = "ok" /\ req'[q].id = k
        /\ \A p \in Requests : p # q => req'[p] = req[p]
    BY <1>3 DEF Commit, TypeOK
  <2>3. /\ k \in Ids /\ jobs[k].state = "open"
        /\ jobs[k].name \in Calls /\ jobs[k].every = 0
        /\ \A p \in Requests : p # q /\ Live(p) => req[p].id # k
        /\ \A w \in Workers : claim[w].id # k
    BY <2>1 DEF LossInv, OwnRow, Live
  <2>4. /\ jobs'[k].state = "queued" /\ jobs'[k].name = jobs[k].name
        /\ jobs'[k].every = jobs[k].every
        /\ \A i \in Ids : i # k => jobs'[i] = jobs[i]
    BY <2>1, <2>3, CommittedRow DEF TypeOK
  <2> HIDE DEF k
  <2>5. \A i : i \in Accepted' <=> i \in Accepted \/ i = k
    BY <2>1, <2>2, AcceptedMembers DEF k
  <2>6. FreshIds'
    BY <1>0, <1>f, <1>t, <2>1, <2>2, <2>3, <2>4 DEF FreshIds, k
  <2>7. OwnRow'
    BY <1>0, <2>1, <2>2, <2>3, <2>4 DEF LossInv, OwnRow, Live, k
  <2>8. Owned'
    BY <1>0, <2>4, <2>5 DEF LossInv, Owned, Busy
  <2>9. Recorded'
    BY <1>0, <2>3, <2>5 DEF LossInv, Recorded, Busy
  <2>10. NothingLost'
    BY <1>0, <2>3, <2>4, <2>5 DEF LossInv, NothingLost, InQueue
  <2> QED
    BY <2>6, <2>7, <2>8, <2>9, <2>10 DEF LossInv
<1>4. CASE Rollback(q)
  <2> DEFINE k == req[q].id
  <2>1. /\ req[q].state = "open" /\ nextId' = nextId
        /\ jobs' = [jobs EXCEPT ![k] = NoRow]
    BY <1>4 DEF Rollback
  <2>2. /\ req'[q].state = "failed" /\ req'[q].id = k
        /\ \A p \in Requests : p # q => req'[p] = req[p]
    BY <1>4 DEF Rollback, TypeOK
  <2>3. /\ k \in Ids
        /\ \A p \in Requests : p # q /\ Live(p) => req[p].id # k
    BY <2>1 DEF LossInv, OwnRow, Live
  <2>4. /\ jobs'[k].state = "none"
        /\ \A i \in Ids : i # k => jobs'[i] = jobs[i]
    BY <2>1, <2>3, NoRowType DEF TypeOK
  <2> HIDE DEF k
  <2>5. Accepted' = Accepted /\ k \notin Accepted
    <3>1. \A i : i \in Accepted' <=> i \in Accepted
      BY <2>1, <2>2, AcceptedMembers
    <3>2. k \notin Accepted
      BY <2>1, <2>3, AcceptedMembers DEF Live
    <3> QED
      BY <3>1, <3>2
  <2>6. FreshIds'
    BY <1>0, <1>f, <1>t, <2>1, <2>2, <2>4 DEF FreshIds, k
  <2>7. OwnRow'
    BY <1>0, <2>1, <2>2, <2>3, <2>4 DEF LossInv, OwnRow, Live, k
  <2>8. Owned' /\ Recorded'
    BY <1>0, <2>4, <2>5 DEF LossInv, Owned, Recorded, Busy
  <2>9. NothingLost'
    BY <1>0, <2>4, <2>5 DEF LossInv, NothingLost, InQueue
  <2> QED
    BY <2>6, <2>7, <2>8, <2>9 DEF LossInv
<1> QED
  BY <1>1, <1>2, <1>3, <1>4 DEF RequestStep

LEMMA NextLoss == TypeOK /\ LossInv /\ [Next]_vars => LossInv'
<1> SUFFICES ASSUME TypeOK, LossInv, [Next]_vars
             PROVE  LossInv'
  OBVIOUS
<1>1. CASE UNCHANGED vars
  BY <1>1 DEF vars, table, workers, deploys, LossInv, FreshIds, OwnRow, Live, Owned, Recorded,
              NothingLost, Accepted, InQueue, DeadJobs, Busy
<1> QED
  BY <1>1, RequestLoss, WorkerLoss, ReplicaLoss, TickLoss DEF Next

\* At-least-once, for every instance: a committed dispatch is queued, has run
\* to completion or is on record as dead.
THEOREM Durable == Spec => []NothingLost
<1>1. Init => LossInv
  BY InitLoss
<1>2. TypeOK /\ LossInv /\ [Next]_vars => LossInv'
  BY NextLoss
<1>3. LossInv => NothingLost
  BY DEF LossInv
<1> QED
  BY <1>1, <1>2, <1>3, TypeCorrect, PTL DEF Spec

-----------------------------------------------------------------------------
(* The queue implements AtLeastOnce: every step of it is one step of the    *)
(* contract, or none.                                                       *)

LEMMA ContractStutter ==
    ASSUME Accepted' = Accepted, done' = done,
           Accepted \cap InQueue' = Accepted \cap InQueue,
           Accepted \cap DeadJobs' = Accepted \cap DeadJobs
    PROVE  UNCHANGED Contract!vars
BY DEF Contract!vars

\* A worker that settles its row is a job that leaves, or nothing.
LEMMA SettleLeaves ==
    ASSUME TypeOK, LossInv, NEW w \in Workers, Busy(w), ResetOrDelete(claim[w].id),
           claim[w].id \in Accepted => claim[w].id \in done \cup DeadJobs,
           req' = req, dead' = dead, done' = done
    PROVE  [Contract!Next]_(Contract!vars)
<1> DEFINE k == claim[w].id
<1>0. Accepted' = Accepted /\ DeadJobs' = DeadJobs
  BY DEF Accepted, DeadJobs
<1>1. \A i \in InQueue' : i \in InQueue
  BY ResetOrDeleteRows DEF InQueue
<1>2. \A i \in InQueue : i # k => i \in InQueue'
  BY ResetOrDeleteRows DEF InQueue
<1>3. k \in Ids
  BY DEF TypeOK
<1>4. CASE k \in Accepted \cap InQueue /\ k \notin InQueue'
  <2>1. /\ k \in (Accepted \cap InQueue) \cap (done \cup (Accepted \cap DeadJobs))
        /\ (Accepted \cap InQueue)' = (Accepted \cap InQueue) \ {k}
    BY <1>0, <1>1, <1>2, <1>4
  <2>2. Contract!Leave(k)
    BY <1>0, <2>1 DEF Contract!Leave
  <2> QED
    BY <1>3, <2>2 DEF Contract!Next
<1>5. CASE ~(k \in Accepted \cap InQueue /\ k \notin InQueue')
  <2>1. Accepted \cap InQueue' = Accepted \cap InQueue
    BY <1>1, <1>2, <1>5
  <2> QED
    BY <1>0, <2>1, ContractStutter
<1> QED
  BY <1>4, <1>5

LEMMA WorkerImplements ==
    ASSUME TypeOK, LossInv, NEW w \in Workers, WorkerStep(w)
    PROVE  [Contract!Next]_(Contract!vars)
<1> USE DEF table, workers, deploys
<1>0. req' = req /\ Accepted' = Accepted
  BY DEF WorkerStep, Claim, ClaimLost, Run, Succeed, Retry, Bury, FinishBury, SettleLost, Accepted
<1>1. CASE Claim(w) \/ ClaimLost(w)
  <2>1. PICK i \in Ids : Lease(i)
    BY <1>1 DEF Claim, ClaimLost
  <2>2. InQueue' = InQueue
    BY <2>1, LeaseRows DEF InQueue
  <2>3. DeadJobs' = DeadJobs /\ done' = done
    BY <1>1 DEF Claim, ClaimLost, DeadJobs
  <2> QED
    BY <1>0, <2>2, <2>3, ContractStutter
<1>2. CASE Run(w)
  <2>1. InQueue' = InQueue /\ DeadJobs' = DeadJobs
    BY <1>2 DEF Run, InQueue, DeadJobs
  <2>2. CASE done' = done
    BY <1>0, <2>1, <2>2, ContractStutter
  <2>3. CASE done' # done
    <3>1. /\ done' = done \cup {claim[w].id}
          /\ claim[w].name \in Calls /\ pc[w] = "running"
      BY <1>2, <2>3 DEF Run
    <3>2. claim[w].id \in Accepted /\ claim[w].id \in Ids
      BY <3>1, ClaimsSound DEF ClaimSound, Busy, TypeOK
    <3>3. Contract!RunJob(claim[w].id)
      BY <1>0, <2>1, <3>1, <3>2 DEF Contract!RunJob
    <3> QED
      BY <3>2, <3>3 DEF Contract!Next
  <2> QED
    BY <2>2, <2>3
<1>3. CASE Succeed(w)
  BY <1>0, <1>3, SettleLeaves, ClaimsSound DEF Succeed, ClaimSound, Busy
<1>4. CASE Retry(w)
  <2>1. InQueue' = InQueue
    BY <1>4, RetryRows DEF InQueue
  <2>2. DeadJobs' = DeadJobs /\ done' = done
    BY <1>4 DEF Retry, DeadJobs
  <2> QED
    BY <1>0, <2>1, <2>2, ContractStutter
<1>5. CASE Bury(w)
  <2> DEFINE k == claim[w].id
  <2>1. InQueue' = InQueue /\ done' = done
    BY <1>5 DEF Bury, InQueue
  <2>2. /\ \A i \in Ids : i # k \/ k \notin InQueue => dead'[i] = dead[i]
        /\ k \in InQueue => dead'[k] # NotDead
    BY <1>5 DEF Bury, TypeOK, Row, NotDead, InQueue
  <2>3. k \in Ids
    BY <1>5 DEF Bury, Busy, TypeOK
  <2>4. CASE k \in Accepted \cap InQueue
    <3>1. DeadJobs' = DeadJobs \cup {k}
      BY <2>2, <2>3, <2>4 DEF DeadJobs
    <3>2. (Accepted \cap DeadJobs)' = (Accepted \cap DeadJobs) \cup {k}
      BY <1>0, <2>4, <3>1
    <3>3. Contract!BuryJob(k)
      BY <1>0, <2>1, <2>4, <3>2 DEF Contract!BuryJob
    <3> QED
      BY <2>3, <3>3 DEF Contract!Next
  <2>5. CASE k \notin Accepted \cap InQueue
    <3>1. Accepted \cap DeadJobs' = Accepted \cap DeadJobs
      BY <2>2, <2>5 DEF DeadJobs
    <3> QED
      BY <1>0, <2>1, <3>1, ContractStutter
  <2> QED
    BY <2>4, <2>5
<1>6. CASE FinishBury(w)
  BY <1>0, <1>6, SettleLeaves, ClaimsSound DEF FinishBury, ClaimSound, Busy
<1>7. CASE SettleLost(w)
  BY <1>0, <1>7, ContractStutter DEF SettleLost, InQueue, DeadJobs
<1> QED
  BY <1>1, <1>2, <1>3, <1>4, <1>5, <1>6, <1>7 DEF WorkerStep

\* Boots and time take no dispatch out of the queue.
LEMMA ReplicaImplements ==
    ASSUME TypeOK, LossInv, NEW r \in Replicas, ReplicaStep(r)
    PROVE  [Contract!Next]_(Contract!vars)
<1> USE DEF table, workers, deploys
<1>0. Accepted' = Accepted /\ DeadJobs' = DeadJobs /\ done' = done
  BY DEF ReplicaStep, Boot, Seed, StartWorkers, BootFails, Stop, Accepted, DeadJobs
<1>1. \A i \in Accepted : jobs'[i].state = jobs[i].state
  <2>1. \A i \in Accepted : i \in Ids /\ i # nextId /\ (jobs[i].state = "queued" => jobs[i].every = 0)
    BY AcceptedRow, AcceptedMembers, BoundsAssumption DEF LossInv, FreshIds, TypeOK, Ids
  <2>2. CASE Boot(r)
    BY <2>1, <2>2 DEF Boot, InQueue, Scheduled, TypeOK
  <2>3. CASE Seed(r)
    BY <2>1, <2>3 DEF Seed, InQueue, Scheduled, TypeOK
  <2> QED
    BY <2>2, <2>3 DEF ReplicaStep, StartWorkers, BootFails, Stop
<1>2. Accepted \cap InQueue' = Accepted \cap InQueue
  BY <1>1, AcceptedRow DEF InQueue
<1> QED
  BY <1>0, <1>2, ContractStutter

LEMMA TickImplements ==
    ASSUME TypeOK, LossInv, Tick
    PROVE  [Contract!Next]_(Contract!vars)
<1>1. \A i \in Ids : jobs'[i].state = jobs[i].state
  BY AgedRow, NoRowType DEF Tick, TypeOK
<1> QED
  BY <1>1, ContractStutter DEF Tick, deploys, Accepted, DeadJobs, InQueue

LEMMA RequestImplements ==
    ASSUME TypeOK, LossInv, NEW q \in Requests, RequestStep(q)
    PROVE  [Contract!Next]_(Contract!vars)
<1> USE DEF table, workers, deploys
<1> DEFINE k == req[q].id
<1>0. DeadJobs' = DeadJobs /\ done' = done
  BY DEF RequestStep, Enqueue, Refuse, Commit, Rollback, DeadJobs
<1>1. CASE Commit(q)
  <2>1. /\ req[q].state = "open"
        /\ jobs' = [jobs EXCEPT ![k] = Committed(jobs[k])]
        /\ req'[q].state = "ok" /\ req'[q].id = k
        /\ \A p \in Requests : p # q => req'[p] = req[p]
    BY <1>1 DEF Commit, TypeOK
  <2>2. k \in Ids /\ k \notin Accepted /\ k \notin DeadJobs
    BY <2>1, AcceptedMembers DEF LossInv, OwnRow, Live, DeadJobs
  <2>3. Accepted' = Accepted \cup {k}
    <3>1. \A i : i \in Accepted' <=> i \in Accepted \/ i = k
      BY <2>1, AcceptedMembers
    <3> QED
      BY <3>1
  <2>4. InQueue' = InQueue \cup {k}
    BY <2>1, <2>2, CommittedRow DEF TypeOK, InQueue
  <2>5. /\ (Accepted \cap InQueue)' = (Accepted \cap InQueue) \cup {k}
        /\ (Accepted \cap DeadJobs)' = Accepted \cap DeadJobs
    BY <1>0, <2>2, <2>3, <2>4
  <2>6. Contract!Accept(k)
    BY <1>0, <2>2, <2>3, <2>5 DEF Contract!Accept
  <2> QED
    BY <2>2, <2>6 DEF Contract!Next
<1>2. CASE Enqueue(q) \/ Refuse(q) \/ Rollback(q)
  <2>1. /\ req[q].state # "ok" /\ req'[q].state # "ok"
        /\ \A p \in Requests : p # q => req'[p] = req[p]
    BY <1>2 DEF Enqueue, Refuse, Rollback, TypeOK
  <2>2. Accepted' = Accepted
    <3>1. \A i : i \in Accepted' <=> i \in Accepted
      BY <2>1, AcceptedMembers
    <3> QED
      BY <3>1
  <2>3. \A i \in Accepted : jobs'[i] = jobs[i]
    <3>1. \A i \in Accepted : i \in Ids /\ i # nextId
      BY AcceptedMembers, AcceptedRow, BoundsAssumption DEF LossInv, FreshIds, TypeOK, Ids
    <3>2. CASE Enqueue(q)
      BY <3>1, <3>2 DEF Enqueue, TypeOK
    <3>3. CASE Refuse(q)
      BY <3>3 DEF Refuse
    <3>4. CASE Rollback(q)
      <4>1. k \notin Accepted
        BY <3>4, AcceptedMembers DEF Rollback, LossInv, OwnRow, Live
      <4> QED
        BY <3>1, <3>4, <4>1 DEF Rollback, TypeOK
    <3> QED
      BY <1>2, <3>2, <3>3, <3>4
  <2>4. Accepted \cap InQueue' = Accepted \cap InQueue
    BY <2>3 DEF InQueue
  <2> QED
    BY <1>0, <2>2, <2>4, ContractStutter
<1> QED
  BY <1>1, <1>2 DEF RequestStep

LEMMA NextImplements ==
    TypeOK /\ LossInv /\ [Next]_vars => [Contract!Next]_(Contract!vars)
<1> SUFFICES ASSUME TypeOK, LossInv, [Next]_vars
             PROVE  [Contract!Next]_(Contract!vars)
  OBVIOUS
<1>1. CASE UNCHANGED vars
  BY <1>1, ContractStutter DEF vars, table, workers, deploys, Accepted, InQueue, DeadJobs
<1> QED
  BY <1>1, RequestImplements, WorkerImplements, ReplicaImplements, TickImplements DEF Next

\* The queue keeps the contract of AtLeastOnce, for every instance: no
\* dispatch leaves unserved, comes back, or runs without being accepted.
THEOREM Refines == Spec => KeepsContract
<1>1. Init => Contract!Init
  BY DEF Init, Contract!Init, Accepted, InQueue, DeadJobs, NoRow, NotDead
<1>2. Init => LossInv
  BY InitLoss
<1>3. TypeOK /\ LossInv /\ [Next]_vars => LossInv'
  BY NextLoss
<1>4. TypeOK /\ LossInv /\ [Next]_vars => [Contract!Next]_(Contract!vars)
  BY NextImplements
<1> QED
  BY <1>1, <1>2, <1>3, <1>4, TypeCorrect, PTL DEF Spec, KeepsContract, Contract!Spec
=============================================================================
