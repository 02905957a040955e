--------------------------- MODULE JobLeaseProofs ---------------------------
(***************************************************************************)
(* Theorems about the leases of the job queue, about its ticks and about   *)
(* what dead-letters a job, for every instance.  They rest on what          *)
(* JobQueueProofs shows of ids and rows.                                    *)
(***************************************************************************)
EXTENDS JobQueueProofs

(* Who holds a lease is inductive together with what a worker knows of its  *)
(* row: a claim takes only a row whose lease is over, and the row of a      *)
(* busy worker has what is left of that worker's own lease.                 *)

LeaseInv == LeaseExclusive /\ ClaimCurrent

LEMMA InitLease == Init => LeaseInv
BY DEF Init, LeaseInv, LeaseExclusive, ClaimCurrent, Busy

\* No step brings back the row of a claim: rows appear by Commit and Seed.
LEMMA ClaimedRows ==
    ASSUME TypeOK, LossInv, [Next]_vars, NEW v \in Workers, Busy(v),
           claim[v].id \in InQueue'
    PROVE  claim[v].id \in InQueue
<1> DEFINE k == claim[v].id
<1> USE DEF table, workers, deploys
<1>0. /\ k \in Ids /\ jobs[k] \in Row /\ jobs \in [Ids -> Row]
      /\ k < nextId /\ k \in Int /\ nextId \in Int
  BY BoundsAssumption DEF TypeOK, LossInv, FreshIds, Ids
<1>1. \A q \in Requests : req[q].state = "open" => req[q].id \in Ids /\ req[q].id # k
  BY DEF LossInv, OwnRow, Live
<1>2. jobs'[k].state = "queued"
  BY DEF InQueue
<1> SUFFICES jobs[k].state = "queued"
  BY <1>0 DEF InQueue
<1> HIDE DEF k
<1>3. ASSUME NEW q \in Requests, RequestStep(q)
      PROVE  jobs[k].state = "queued"
  <2>1. CASE Enqueue(q)
    BY <1>0, <1>2, <2>1 DEF Enqueue
  <2>2. CASE Refuse(q)
    BY <1>2, <2>2 DEF Refuse
  <2>3. CASE Commit(q)
    BY <1>0, <1>1, <1>2, <2>3 DEF Commit
  <2>4. CASE Rollback(q)
    BY <1>0, <1>1, <1>2, <2>4 DEF Rollback
  <2> QED
    BY <1>3, <2>1, <2>2, <2>3, <2>4 DEF RequestStep
<1>4. ASSUME NEW w \in Workers, WorkerStep(w)
      PROVE  jobs[k].state = "queued"
  <2>1. CASE Claim(w) \/ ClaimLost(w)
    BY <1>0, <1>2, <2>1, LeaseRows DEF Claim, ClaimLost
  <2>2. CASE Run(w) \/ Bury(w) \/ SettleLost(w)
    BY <1>2, <2>2 DEF Run, Bury, SettleLost
  <2>3. CASE Succeed(w) \/ FinishBury(w)
    BY <1>0, <1>2, <2>3, ResetOrDeleteRows DEF Succeed, FinishBury
  <2>4. CASE Retry(w)
    BY <1>0, <1>2, <2>4, RetryRows
  <2> QED
    BY <1>4, <2>1, <2>2, <2>3, <2>4 DEF WorkerStep
<1>5. ASSUME NEW r \in Replicas, ReplicaStep(r)
      PROVE  jobs[k].state = "queued"
  <2>1. CASE Boot(r)
    BY <1>0, <1>2, <2>1, NoRowType DEF Boot
  <2>2. CASE Seed(r)
    <3>1. \/ jobs'[k] = jobs[k]
          \/ k \in InQueue
      BY <1>0, <2>2 DEF Seed
    <3> QED
      BY <1>2, <3>1 DEF InQueue
  <2>3. CASE StartWorkers(r) \/ BootFails(r) \/ Stop(r)
    BY <1>2, <2>3 DEF StartWorkers, BootFails, Stop
  <2> QED
    BY <1>5, <2>1, <2>2, <2>3 DEF ReplicaStep
<1>6. CASE Tick
  BY <1>0, <1>2, <1>6, AgedRow, NoRowType DEF Tick
<1>7. CASE UNCHANGED vars
  BY <1>2, <1>7 DEF vars
<1> QED
  BY <1>3, <1>4, <1>5, <1>6, <1>7 DEF Next

\* What keeps the invariant: the workers that stay busy keep their claim, and
\* their rows the attempts and what is left of the lease.
LEMMA LeaseFrame ==
    ASSUME LeaseInv,
           \A v \in Workers : Busy(v)' =>
               Busy(v) /\ claim'[v] = claim[v] /\ left'[v] = left[v],
           \A v \in Workers : Busy(v)' /\ claim[v].id \in InQueue' =>
               /\ claim[v].id \in InQueue
               /\ jobs'[claim[v].id].attempts = jobs[claim[v].id].attempts
               /\ jobs'[claim[v].id].lease = jobs[claim[v].id].lease
    PROVE  LeaseInv'
BY DEF LeaseInv, LeaseExclusive, ClaimCurrent, Busy

\* A settled row is nobody else's.
LEMMA SettleLease ==
    ASSUME TypeOK, LossInv, LeaseInv, [Next]_vars, NEW w \in Workers, Busy(w), Release(w),
           \A i \in Ids : i # claim[w].id => jobs'[i] = jobs[i]
    PROVE  LeaseInv'
<1>1. \A v \in Workers : pc'[v] = IF v = w THEN "idle" ELSE pc[v]
  BY DEF TypeOK, Release
<1>2. \A v \in Workers : v # w => claim'[v] = claim[v] /\ left'[v] = left[v]
  BY DEF TypeOK, Release
<1>3. \A v \in Workers : Busy(v)' => v # w /\ Busy(v)
  BY <1>1 DEF Busy
<1>4. \A v \in Workers : Busy(v)' => claim[v].id \in Ids /\ claim[v].id # claim[w].id
  BY <1>3 DEF LeaseInv, LeaseExclusive, TypeOK
<1>5. \A v \in Workers : Busy(v)' => jobs'[claim[v].id] = jobs[claim[v].id]
  BY <1>4
<1>6. \A v \in Workers : Busy(v)' /\ claim[v].id \in InQueue' => claim[v].id \in InQueue
  BY <1>3, ClaimedRows
<1> QED
  BY <1>2, <1>3, <1>5, <1>6, LeaseFrame

LEMMA ClaimLease ==
    ASSUME ~HandlersOverrun, TypeOK, LossInv, LeaseInv, NEW w \in Workers, Claim(w)
    PROVE  LeaseInv'
<1>1. PICK i \in Ids :
        /\ Lease(i)
        /\ claim' = [claim EXCEPT ![w] = [id |-> i, name |-> jobs[i].name,
                       attempts |-> jobs[i].attempts + 1, max |-> jobs[i].max]]
  BY DEF Claim
<1>2. /\ i \in InQueue /\ jobs[i].lease < 0 /\ jobs[i] \in Row
      /\ jobs'[i] = Leased(jobs[i])
      /\ \A j \in Ids : j # i => jobs'[j] = jobs[j]
  BY <1>1 DEF Lease, Ready, TypeOK
<1>3. /\ jobs'[i].attempts = jobs[i].attempts + 1
      /\ jobs'[i].lease = LeaseSeconds
      /\ jobs'[i].state = jobs[i].state
  BY <1>2, LeasedRow
<1>4. /\ claim'[w].id = i /\ claim'[w].attempts = jobs[i].attempts + 1
      /\ left'[w] = LeaseSeconds
      /\ \A v \in Workers : v # w =>
             pc'[v] = pc[v] /\ claim'[v] = claim[v] /\ left'[v] = left[v]
  BY <1>1 DEF Claim, TypeOK
\* Whoever held the row has time left, and the claim asks for a lease that is over.
<1>5. \A v \in Workers : v # w /\ Busy(v) => claim[v].id # i
  <2> SUFFICES ASSUME NEW v \in Workers, Busy(v), claim[v].id = i
               PROVE  FALSE
    OBVIOUS
  <2>1. jobs[i].lease = left[v] /\ left[v] >= 0
    BY <1>2 DEF LeaseInv, ClaimCurrent
  <2>2. jobs[i].lease \in Int
    BY <1>2, LimitsAssumption DEF Row
  <2> QED
    BY <1>2, <2>1, <2>2
<1>6. LeaseExclusive'
  BY <1>4, <1>5 DEF LeaseInv, LeaseExclusive, Busy
<1>7. ClaimCurrent'
  <2> SUFFICES ASSUME NEW v \in Workers, Busy(v)', claim'[v].id \in InQueue'
               PROVE  /\ jobs'[claim'[v].id].attempts = claim'[v].attempts
                      /\ jobs'[claim'[v].id].lease = left'[v]
                      /\ left'[v] >= 0
    BY DEF ClaimCurrent
  <2>1. CASE v = w
    BY <1>3, <1>4, <2>1, LimitsAssumption
  <2>2. CASE v # w
    <3>1. Busy(v) /\ claim'[v] = claim[v] /\ left'[v] = left[v] /\ claim[v].id # i
      BY <1>4, <1>5, <2>2 DEF Busy
    <3>2. claim[v].id \in InQueue /\ jobs'[claim[v].id] = jobs[claim[v].id]
      BY <1>2, <3>1 DEF InQueue
    <3> QED
      BY <3>1, <3>2 DEF LeaseInv, ClaimCurrent
  <2> QED
    BY <2>1, <2>2
<1> QED
  BY <1>6, <1>7 DEF LeaseInv

\* A row is claimed by nobody who lost the answer to the claim.
LEMMA ClaimLostLease ==
    ASSUME TypeOK, LossInv, LeaseInv, NEW w \in Workers, ClaimLost(w)
    PROVE  LeaseInv'
<1>1. PICK i \in Ids : Lease(i)
  BY DEF ClaimLost
<1>2. /\ i \in InQueue /\ jobs[i].lease < 0 /\ jobs[i] \in Row
      /\ \A j \in Ids : j # i => jobs'[j] = jobs[j]
  BY <1>1 DEF Lease, Ready, TypeOK
<1>3. pc' = pc /\ claim' = claim /\ left' = left
  BY DEF ClaimLost, workers
<1>4. \A v \in Workers : Busy(v) => claim[v].id # i
  <2> SUFFICES ASSUME NEW v \in Workers, Busy(v), claim[v].id = i
               PROVE  FALSE
    OBVIOUS
  <2>1. jobs[i].lease = left[v] /\ left[v] >= 0
    BY <1>2 DEF LeaseInv, ClaimCurrent
  <2>2. jobs[i].lease \in Int
    BY <1>2, LimitsAssumption DEF Row
  <2> QED
    BY <1>2, <2>1, <2>2
<1>5. \A v \in Workers : Busy(v) => claim[v].id \in Ids
  BY DEF TypeOK
<1> QED
  BY <1>2, <1>3, <1>4, <1>5, LeaseFrame DEF Busy, InQueue

LEMMA WorkerLease ==
    ASSUME ~HandlersOverrun, TypeOK, LossInv, LeaseInv, [Next]_vars,
           NEW w \in Workers, WorkerStep(w)
    PROVE  LeaseInv'
<1>1. CASE Claim(w)
  BY <1>1, ClaimLease
<1>2. CASE ClaimLost(w)
  BY <1>2, ClaimLostLease
<1>3. CASE Run(w)
  <2>1. /\ jobs' = jobs /\ claim' = claim /\ left' = left
        /\ \A v \in Workers : Busy(v)' => Busy(v)
    BY <1>3 DEF Run, table, Busy, TypeOK
  <2> QED
    BY <2>1, LeaseFrame DEF InQueue
<1>4. CASE Succeed(w)
  BY <1>4, SettleLease DEF Succeed, Busy, ResetOrDelete, TypeOK
<1>5. CASE Retry(w)
  BY <1>5, SettleLease DEF Retry, Busy, TypeOK
<1>6. CASE Bury(w)
  <2>1. /\ jobs' = jobs /\ claim' = claim /\ left' = left
        /\ \A v \in Workers : Busy(v)' => Busy(v)
    BY <1>6 DEF Bury, Busy, TypeOK
  <2> QED
    BY <2>1, LeaseFrame DEF InQueue
<1>7. CASE FinishBury(w)
  BY <1>7, SettleLease DEF FinishBury, Busy, ResetOrDelete, TypeOK
<1>8. CASE SettleLost(w)
  BY <1>8, SettleLease DEF SettleLost, Busy, table, TypeOK
<1> QED
  BY <1>1, <1>2, <1>3, <1>4, <1>5, <1>6, <1>7, <1>8 DEF WorkerStep

\* Requests and boots leave a claimed row its attempts and its lease.
LEMMA RequestLease ==
    ASSUME TypeOK, LossInv, LeaseInv, [Next]_vars, NEW q \in Requests, RequestStep(q)
    PROVE  LeaseInv'
<1>1. pc' = pc /\ claim' = claim /\ left' = left
  BY DEF RequestStep, Enqueue, Refuse, Commit, Rollback, workers
<1>2. \A v \in Workers : Busy(v) => /\ claim[v].id \in Ids
                                    /\ claim[v].id < nextId /\ claim[v].id \in Int
  BY BoundsAssumption DEF TypeOK, LossInv, FreshIds, Ids
<1>3. \A v \in Workers : req[q].state = "open" => claim[v].id # req[q].id
  BY DEF LossInv, OwnRow, Live
<1>4. \A v \in Workers : Busy(v) => jobs'[claim[v].id] = jobs[claim[v].id]
  BY <1>2, <1>3 DEF RequestStep, Enqueue, Refuse, Commit, Rollback, table, TypeOK
<1>5. \A v \in Workers : Busy(v) /\ claim[v].id \in InQueue' => claim[v].id \in InQueue
  BY ClaimedRows
<1> QED
  BY <1>1, <1>4, <1>5, LeaseFrame DEF Busy

LEMMA ReplicaLease ==
    ASSUME TypeOK, LossInv, LeaseInv, [Next]_vars, NEW r \in Replicas, ReplicaStep(r)
    PROVE  LeaseInv'
<1>1. \A v \in Workers : Busy(v)' => Busy(v) /\ claim'[v] = claim[v] /\ left'[v] = left[v]
  BY DEF ReplicaStep, Boot, Seed, StartWorkers, BootFails, Stop, workers, Busy, TypeOK
<1> SUFFICES ASSUME NEW v \in Workers, Busy(v), claim[v].id \in InQueue, claim[v].id \in InQueue'
             PROVE  /\ jobs'[claim[v].id].attempts = jobs[claim[v].id].attempts
                    /\ jobs'[claim[v].id].lease = jobs[claim[v].id].lease
  BY <1>1, ClaimedRows, LeaseFrame
<1> DEFINE k == claim[v].id
<1>2. k \in Ids /\ jobs[k] \in Row /\ k < nextId /\ k \in Int
  BY BoundsAssumption DEF TypeOK, LossInv, FreshIds, Ids
<1>3. jobs'[k].state = "queued"
  BY DEF InQueue
<1> HIDE DEF k
<1>4. CASE Boot(r)
  <2>1. jobs'[k] = jobs[k] \/ jobs'[k] = NoRow
    BY <1>2, <1>4 DEF Boot
  <2> QED
    BY <1>3, <2>1, NoRowType DEF k
<1>5. CASE Seed(r)
  <2>1. \/ jobs'[k] = jobs[k]
        \/ \E n \in unseeded[r] :
              jobs'[k] = Upserted(jobs[k], Period[build[r]][n], Retries[build[r]][n])
    BY <1>2, <1>5 DEF Seed, TypeOK
  <2>2. \A n \in unseeded[r] : Period[build[r]][n] \in Nat /\ Retries[build[r]][n] \in Nat
    BY BuildsAssumption DEF TypeOK, Names
  <2>3. \/ jobs'[k] = jobs[k]
        \/ \E every, max \in Nat : jobs'[k] = Upserted(jobs[k], every, max)
    BY <2>1, <2>2
  <2>4. jobs'[k].attempts = jobs[k].attempts /\ jobs'[k].lease = jobs[k].lease
    BY <1>2, <2>3, UpsertedRow
  <2> QED
    BY <2>4 DEF k
<1>6. CASE StartWorkers(r) \/ BootFails(r) \/ Stop(r)
  BY <1>6 DEF StartWorkers, BootFails, Stop, table
<1> QED
  BY <1>4, <1>5, <1>6 DEF ReplicaStep, k

\* Time takes the same from the lease of a row and from its worker's attempt.
LEMMA TickLease ==
    ASSUME ~HandlersOverrun, TypeOK, LossInv, LeaseInv, [Next]_vars, Tick
    PROVE  LeaseInv'
<1>1. pc' = pc /\ claim' = claim
  BY DEF Tick
<1>2. LeaseExclusive'
  BY <1>1 DEF LeaseInv, LeaseExclusive, Busy
<1>3. ClaimCurrent'
  <2> SUFFICES ASSUME NEW v \in Workers, Busy(v), claim[v].id \in InQueue'
               PROVE  /\ jobs'[claim[v].id].attempts = claim[v].attempts
                      /\ jobs'[claim[v].id].lease = left'[v]
                      /\ left'[v] >= 0
    BY <1>1 DEF ClaimCurrent, Busy
  <2>1. claim[v].id \in InQueue /\ claim[v].id \in Ids /\ jobs[claim[v].id] \in Row
    BY ClaimedRows DEF TypeOK
  <2>2. jobs[claim[v].id].attempts = claim[v].attempts /\ jobs[claim[v].id].lease = left[v]
    BY <2>1 DEF LeaseInv, ClaimCurrent
  <2>3. jobs'[claim[v].id] = Aged(jobs[claim[v].id])
    BY <2>1 DEF Tick, InQueue
  <2>4. left[v] > 0 /\ left[v] \in Int /\ left'[v] = Elapse(left[v])
    BY LimitsAssumption DEF Tick, TypeOK
  <2> QED
    BY <2>1, <2>2, <2>3, <2>4, AgedRow DEF Elapse
<1> QED
  BY <1>2, <1>3 DEF LeaseInv

LEMMA NextLease ==
    ~HandlersOverrun /\ TypeOK /\ LossInv /\ LeaseInv /\ [Next]_vars => LeaseInv'
<1> SUFFICES ASSUME ~HandlersOverrun, TypeOK, LossInv, LeaseInv, [Next]_vars
             PROVE  LeaseInv'
  OBVIOUS
<1>1. CASE UNCHANGED vars
  BY <1>1 DEF vars, table, workers, LeaseInv, LeaseExclusive, ClaimCurrent, Busy, InQueue
<1> QED
  BY <1>1, RequestLease, WorkerLease, ReplicaLease, TickLease DEF Next

LEMMA Lost == Spec => []LossInv
<1>1. Init => LossInv
  BY InitLoss
<1>2. TypeOK /\ LossInv /\ [Next]_vars => LossInv'
  BY NextLoss
<1> QED
  BY <1>1, <1>2, TypeCorrect, PTL DEF Spec

LEMMA Leases == ~HandlersOverrun => (Spec => []LeaseInv)
<1> SUFFICES ASSUME ~HandlersOverrun
             PROVE  Spec => []LeaseInv
  OBVIOUS
<1>1. Init => LeaseInv
  BY InitLease
<1>2. TypeOK /\ LossInv /\ LeaseInv /\ [Next]_vars => LeaseInv'
  BY NextLease
<1> QED
  BY <1>1, <1>2, TypeCorrect, Lost, PTL DEF Spec

\* No two workers run or settle one row, for every instance whose attempts
\* settle or die within their lease (jobs.rs:22).
THEOREM Exclusive == ~HandlersOverrun => (Spec => []LeaseExclusive)
<1>1. LeaseInv => LeaseExclusive
  BY DEF LeaseInv
<1> QED
  BY <1>1, Leases, PTL

\* And what such a worker knows of its row is what the row says: a settlement
\* by id is of the worker's own attempt.
THEOREM Current == ~HandlersOverrun => (Spec => []ClaimCurrent)
<1>1. LeaseInv => ClaimCurrent
  BY DEF LeaseInv
<1> QED
  BY <1>1, Leases, PTL

-----------------------------------------------------------------------------
(* Rows of ticks and of dispatches.  Only the row of a tick has an          *)
(* interval, and it always has one; that a dispatched row has none and      *)
(* keeps the budget of some build is what the decision to bury rests on.    *)

ScheduledRows ==
    \A i \in Ids : Scheduled(i) <=> jobs[i].state = "queued" /\ jobs[i].name \in Ticks

IsBudget(max) == \E b \in Builds, n \in Calls : max = Retries[b][n]

\* A worker may hold a claim that is stale, but its row has counted at least
\* the attempts the claim has.
Budgets ==
    /\ \A i \in Ids : jobs[i].state # "none" /\ jobs[i].name \in Calls => IsBudget(jobs[i].max)
    /\ \A w \in Workers : Busy(w) /\ claim[w].name \in Calls =>
          /\ IsBudget(claim[w].max)
          /\ claim[w].id \in InQueue => /\ jobs[claim[w].id].name = claim[w].name
                                        /\ jobs[claim[w].id].attempts >= claim[w].attempts

RowInv == ScheduledRows /\ Budgets /\ DeadAfterBudget

\* Every build that declares a job at all declares every tick: no deploy takes
\* one away, or it could come back under another id while an old worker runs it.
TicksStay == \A b \in Builds : Declared[b] = {} \/ Ticks \subseteq Declared[b]

\* One row for a tick, and the row of a busy worker's tick is there.
TickInv ==
    /\ \A i, j \in InQueue : Scheduled(i) /\ Scheduled(j) /\ jobs[i].name = jobs[j].name => i = j
    /\ \A w \in Workers : Busy(w) /\ claim[w].name \in Ticks =>
          claim[w].id \in InQueue /\ jobs[claim[w].id].name = claim[w].name

\* What a step does to a row: it keeps it, takes it away, or brings it.
Kept(i) ==
    /\ jobs'[i].state = jobs[i].state /\ jobs'[i].name = jobs[i].name
    /\ jobs[i].every = 0 => /\ jobs'[i].every = 0 /\ jobs'[i].max = jobs[i].max
                            /\ jobs'[i].attempts >= jobs[i].attempts
    /\ jobs[i].every # 0 => jobs'[i].every # 0

Withdrawn(i) ==
    \E r \in Replicas : /\ phase[r] = "down" /\ phase'[r] = "booting"
                        /\ Declared[build'[r]] # {}
                        /\ jobs[i].name \notin Declared[build'[r]]

Dropped(i) == jobs'[i] = NoRow /\ (Scheduled(i) => Withdrawn(i))

Appears(i) ==
    /\ ~Scheduled(i) /\ \A w \in Workers : claim[w].id # i
    /\ \/ /\ jobs'[i].state # "none" /\ jobs'[i].name \in Calls
          /\ jobs'[i].every = 0 /\ IsBudget(jobs'[i].max)
       \/ /\ jobs'[i].state = "queued" /\ jobs'[i].name \in Ticks /\ jobs'[i].every # 0
          /\ \A j \in Ids \ {i} : jobs'[j] = jobs[j]
          /\ \A j \in InQueue : Scheduled(j) => jobs[j].name # jobs'[i].name

RowSteps == \A i \in Ids : Kept(i) \/ Dropped(i) \/ Appears(i)

LEMMA SameRow == ASSUME TypeOK, NEW i \in Ids, jobs'[i] = jobs[i] PROVE Kept(i)
<1> jobs[i].attempts \in Nat
  BY DEF TypeOK, Row
<1> QED
  BY DEF Kept

LEMMA LeaseKeeps ==
    ASSUME TypeOK, NEW k \in Ids, Lease(k)
    PROVE  RowSteps
<1> SUFFICES ASSUME NEW i \in Ids PROVE Kept(i)
  BY DEF RowSteps
<1>1. CASE i = k
  <2>1. jobs'[i] = Leased(jobs[i]) /\ jobs[i] \in Row
    BY <1>1 DEF Lease, TypeOK
  <2>2. jobs[i].attempts \in Nat
    BY <2>1 DEF Row
  <2> QED
    BY <2>1, <2>2, LeasedRow DEF Kept
<1>2. CASE i # k
  <2>1. jobs'[i] = jobs[i]
    BY <1>2 DEF Lease, TypeOK
  <2> QED
    BY <2>1, SameRow
<1> QED
  BY <1>1, <1>2

LEMMA SettleKeeps ==
    ASSUME TypeOK, NEW k \in Ids, ResetOrDelete(k)
    PROVE  RowSteps
<1> SUFFICES ASSUME NEW i \in Ids PROVE Kept(i) \/ Dropped(i)
  BY DEF RowSteps
<1>1. CASE i = k /\ Scheduled(i)
  <2>1. jobs'[i] = Reset(jobs[i]) /\ jobs[i] \in Row
    BY <1>1 DEF ResetOrDelete, TypeOK
  <2> QED
    BY <1>1, <2>1, ResetRow DEF Kept, Scheduled
<1>2. CASE i = k /\ ~Scheduled(i)
  BY <1>2 DEF ResetOrDelete, TypeOK, Dropped
<1>3. CASE i # k
  <2>1. jobs'[i] = jobs[i]
    BY <1>3 DEF ResetOrDelete, TypeOK
  <2> QED
    BY <2>1, SameRow
<1> QED
  BY <1>1, <1>2, <1>3

LEMMA RetryKeeps ==
    ASSUME TypeOK, NEW w \in Workers, Retry(w)
    PROVE  RowSteps
<1> SUFFICES ASSUME NEW i \in Ids PROVE Kept(i)
  BY DEF RowSteps
<1>0. jobs[i] \in Row
  BY DEF TypeOK
<1>1. jobs'[i] = jobs[i] \/ jobs'[i] = Retried(jobs[i])
  BY DEF Retry, TypeOK
<1>2. CASE jobs'[i] = Retried(jobs[i])
  <2>1. jobs[i].attempts \in Nat
    BY <1>0 DEF Row
  <2> QED
    BY <1>0, <1>2, <2>1, RetriedRow DEF Kept
<1> QED
  BY <1>1, <1>2, SameRow

LEMMA WorkerRows ==
    ASSUME TypeOK, NEW w \in Workers, WorkerStep(w)
    PROVE  RowSteps
<1>1. CASE Claim(w) \/ ClaimLost(w)
  BY <1>1, LeaseKeeps DEF Claim, ClaimLost
<1>2. CASE Succeed(w) \/ FinishBury(w)
  BY <1>2, SettleKeeps DEF Succeed, FinishBury, TypeOK, Busy
<1>3. CASE Retry(w)
  BY <1>3, RetryKeeps
<1>4. CASE Run(w) \/ Bury(w) \/ SettleLost(w)
  BY <1>4, SameRow DEF Run, Bury, SettleLost, table, RowSteps
<1> QED
  BY <1>1, <1>2, <1>3, <1>4 DEF WorkerStep

LEMMA TickRows ==
    ASSUME TypeOK, RowInv, Tick
    PROVE  RowSteps
<1> SUFFICES ASSUME NEW i \in Ids PROVE Kept(i) \/ Dropped(i)
  BY DEF RowSteps
<1>0. jobs[i] \in Row
  BY DEF TypeOK
<1>1. CASE jobs[i].state = "none"
  BY <1>1 DEF Tick, Dropped, RowInv, ScheduledRows
<1>2. CASE jobs[i].state # "none"
  <2>1. jobs'[i] = Aged(jobs[i]) /\ jobs[i].attempts \in Nat
    BY <1>0, <1>2 DEF Tick, Row
  <2> QED
    BY <1>0, <2>1, AgedRow DEF Kept
<1> QED
  BY <1>1, <1>2

LEMMA FreshId ==
    ASSUME TypeOK, LossInv, RowInv, nextId \in Ids
    PROVE  ~Scheduled(nextId) /\ \A w \in Workers : claim[w].id # nextId
<1>1. nextId \in Int /\ \A w \in Workers : claim[w].id < nextId /\ claim[w].id \in Int
  BY BoundsAssumption DEF LossInv, FreshIds, TypeOK, Ids
<1>2. jobs[nextId].state = "none"
  BY <1>1 DEF LossInv, FreshIds
<1> QED
  BY <1>1, <1>2 DEF RowInv, ScheduledRows

LEMMA RequestRows ==
    ASSUME TypeOK, LossInv, RowInv, NEW q \in Requests, RequestStep(q)
    PROVE  RowSteps
<1> SUFFICES ASSUME NEW i \in Ids PROVE Kept(i) \/ Dropped(i) \/ Appears(i)
  BY DEF RowSteps
<1>1. CASE Enqueue(q)
  <2>0. PICK r \in Alive : \E n \in Declared[build[r]] \cap Calls :
          jobs' = [jobs EXCEPT ![nextId] = NewRow("open", n, 0, Retries[build[r]][n], 0)]
    BY <1>1 DEF Enqueue
  <2>1. PICK n \in Declared[build[r]] \cap Calls :
          jobs' = [jobs EXCEPT ![nextId] = NewRow("open", n, 0, Retries[build[r]][n], 0)]
    BY <2>0
  <2>2. n \in Names /\ Retries[build[r]][n] \in Nat /\ build[r] \in Builds
    BY BuildsAssumption DEF Names, TypeOK, Alive
  <2>3. CASE i = nextId
    <3>1. jobs'[i] = NewRow("open", n, 0, Retries[build[r]][n], 0)
      BY <2>1, <2>3 DEF TypeOK
    <3>2. ~Scheduled(i) /\ \A w \in Workers : claim[w].id # i
      BY <2>3, FreshId
    <3>3. /\ jobs'[i].state = "open" /\ jobs'[i].name = n /\ jobs'[i].every = 0
          /\ jobs'[i].max = Retries[build[r]][n]
      BY <2>1, <2>2, <3>1, InsertedRow
    <3> QED
      BY <2>1, <2>2, <3>2, <3>3 DEF Appears, IsBudget
  <2>4. CASE i # nextId
    BY <2>1, <2>4, SameRow DEF TypeOK
  <2> QED
    BY <2>3, <2>4
<1>2. CASE Refuse(q)
  BY <1>2, SameRow DEF Refuse, table
<1>3. CASE Commit(q)
  <2>1. CASE i = req[q].id
    <3>1. jobs'[i] = Committed(jobs[i]) /\ jobs[i] \in Row
      BY <1>3, <2>1 DEF Commit, TypeOK
    <3>2. /\ jobs[i].state = "open" /\ jobs[i].name \in Calls /\ jobs[i].every = 0
          /\ \A w \in Workers : claim[w].id # i
      BY <1>3, <2>1 DEF Commit, LossInv, OwnRow, Live
    <3>3. IsBudget(jobs[i].max)
      BY <3>2 DEF RowInv, Budgets
    <3> QED
      BY <3>1, <3>2, <3>3, CommittedRow DEF Appears, Scheduled
  <2>2. CASE i # req[q].id
    BY <1>3, <2>2, SameRow DEF Commit, TypeOK
  <2> QED
    BY <2>1, <2>2
<1>4. CASE Rollback(q)
  <2>1. CASE i = req[q].id
    <3>1. jobs'[i] = NoRow /\ jobs[i].every = 0
      BY <1>4, <2>1 DEF Rollback, TypeOK, LossInv, OwnRow, Live
    <3> QED
      BY <3>1 DEF Dropped, Scheduled
  <2>2. CASE i # req[q].id
    BY <1>4, <2>2, SameRow DEF Rollback, TypeOK
  <2> QED
    BY <2>1, <2>2
<1> QED
  BY <1>1, <1>2, <1>3, <1>4 DEF RequestStep

LEMMA ReplicaRows ==
    ASSUME TypeOK, LossInv, RowInv, NEW r \in Replicas, ReplicaStep(r)
    PROVE  RowSteps
<1> SUFFICES ASSUME NEW i \in Ids PROVE Kept(i) \/ Dropped(i) \/ Appears(i)
  BY DEF RowSteps
<1>1. CASE Boot(r)
  <2>1. CASE jobs'[i] = jobs[i]
    BY <2>1, SameRow
  <2>2. CASE jobs'[i] # jobs[i]
    <3>1. PICK b \in Builds :
            /\ build' = [build EXCEPT ![r] = b]
            /\ Declared[b] # {} /\ phase' = [phase EXCEPT ![r] = "booting"]
            /\ jobs' = [j \in Ids |->
                          IF /\ j \in InQueue /\ Scheduled(j)
                             /\ jobs[j].name \notin Declared[b] \cap Ticks
                          THEN NoRow ELSE jobs[j]]
      BY <1>1, <2>2 DEF Boot
    <3>2. jobs'[i] = NoRow /\ Scheduled(i) /\ jobs[i].name \notin Declared[b] \cap Ticks
      BY <2>2, <3>1
    <3>3. jobs[i].name \in Ticks
      BY <3>2 DEF RowInv, ScheduledRows
    <3>4. build'[r] = b /\ phase'[r] = "booting" /\ phase[r] = "down"
      BY <1>1, <3>1 DEF Boot, TypeOK
    <3> QED
      BY <3>1, <3>2, <3>3, <3>4 DEF Dropped, Withdrawn
  <2> QED
    BY <2>1, <2>2
<1>2. CASE Seed(r)
  <2> DEFINE b == build[r]
             held(n) == {j \in InQueue : Scheduled(j) /\ jobs[j].name = n}
             inserts(n) == /\ held(n) = {} /\ nextId \in Ids
                           /\ jobs' = [jobs EXCEPT ![nextId] =
                                NewRow("queued", n, Period[b][n], Retries[b][n], Period[b][n])]
             updates(n) == jobs' = [j \in Ids |-> IF j \in held(n)
                                THEN Upserted(jobs[j], Period[b][n], Retries[b][n]) ELSE jobs[j]]
  <2>1. PICK n \in unseeded[r] : inserts(n) \/ updates(n)
    BY <1>2 DEF Seed
  <2>2. /\ n \in Ticks /\ n \in Names
        /\ Period[b][n] \in Nat \ {0} /\ Retries[b][n] \in Nat
    BY BuildsAssumption DEF Names, TypeOK
  <2>3. CASE inserts(n) /\ i = nextId
    <3>1. jobs'[i] = NewRow("queued", n, Period[b][n], Retries[b][n], Period[b][n])
      BY <2>3 DEF TypeOK
    <3>2. /\ jobs'[i].state = "queued" /\ jobs'[i].name = n /\ jobs'[i].every # 0
      BY <2>2, <3>1, InsertedRow
    <3>3. ~Scheduled(i) /\ \A w \in Workers : claim[w].id # i
      BY <2>3, FreshId
    <3>4. \A j \in Ids \ {i} : jobs'[j] = jobs[j]
      BY <2>3 DEF TypeOK
    <3>5. \A j \in InQueue : Scheduled(j) => jobs[j].name # n
      BY <2>3
    <3> QED
      BY <2>2, <3>2, <3>3, <3>4, <3>5 DEF Appears
  <2>4. CASE inserts(n) /\ i # nextId
    BY <2>4, SameRow DEF TypeOK
  <2>5. CASE updates(n) /\ i \in held(n)
    <3>1. jobs'[i] = Upserted(jobs[i], Period[b][n], Retries[b][n]) /\ jobs[i] \in Row
      BY <2>5 DEF TypeOK
    <3>2. /\ jobs'[i].state = jobs[i].state /\ jobs'[i].name = jobs[i].name
          /\ jobs'[i].every # 0
      <4>1. PICK e \in Nat \ {0}, m \in Nat : jobs'[i] = Upserted(jobs[i], e, m)
        BY <2>2, <3>1
      <4>2. /\ Upserted(jobs[i], e, m).state = jobs[i].state
            /\ Upserted(jobs[i], e, m).name = jobs[i].name
            /\ Upserted(jobs[i], e, m).every = e
        BY <3>1, UpsertedRow
      <4> QED
        BY <4>1, <4>2
    <3>3. jobs[i].every # 0
      BY <2>5 DEF Scheduled
    <3> QED
      BY <2>2, <3>2, <3>3 DEF Kept
  <2>6. CASE updates(n) /\ i \notin held(n)
    BY <2>6, SameRow
  <2> QED
    BY <2>1, <2>3, <2>4, <2>5, <2>6
<1>3. CASE StartWorkers(r) \/ BootFails(r) \/ Stop(r)
  BY <1>3, SameRow DEF StartWorkers, BootFails, Stop, table
<1> QED
  BY <1>1, <1>2, <1>3 DEF ReplicaStep

LEMMA NextRows ==
    ASSUME TypeOK, LossInv, RowInv, [Next]_vars
    PROVE  RowSteps
<1>1. CASE UNCHANGED vars
  BY <1>1, SameRow DEF vars, table, RowSteps
<1> QED
  BY <1>1, RequestRows, WorkerRows, ReplicaRows, TickRows DEF Next

\* What a step does to a claim: a worker that is busy after it had its claim
\* already or takes a row that is queued, counting the attempt on it.
Takes(v, i) ==
    /\ i \in InQueue /\ claim'[v].id = i /\ claim'[v].name = jobs[i].name
    /\ claim'[v].attempts = jobs'[i].attempts /\ claim'[v].max = jobs[i].max
    /\ jobs'[i].name = jobs[i].name

ClaimSteps ==
    \A v \in Workers : Busy(v)' => \/ Busy(v) /\ claim'[v] = claim[v]
                                   \/ \E i \in Ids : Takes(v, i)

LEMMA NextClaims ==
    ASSUME TypeOK, [Next]_vars
    PROVE  ClaimSteps
<1> USE DEF table, workers, deploys
<1>1. ASSUME NEW w \in Workers, Claim(w)
      PROVE  ClaimSteps
  <2>1. PICK i \in Ids :
          /\ Lease(i)
          /\ claim' = [claim EXCEPT ![w] = [id |-> i, name |-> jobs[i].name,
                         attempts |-> jobs[i].attempts + 1, max |-> jobs[i].max]]
    BY <1>1 DEF Claim
  <2>2. i \in InQueue /\ jobs'[i] = Leased(jobs[i]) /\ jobs[i] \in Row
    BY <2>1 DEF Lease, Ready, TypeOK
  <2>3. Takes(w, i)
    BY <2>1, <2>2, LeasedRow DEF Takes, TypeOK
  <2>4. \A v \in Workers \ {w} : claim'[v] = claim[v] /\ pc'[v] = pc[v]
    BY <1>1, <2>1 DEF Claim, TypeOK
  <2> QED
    BY <2>3, <2>4 DEF ClaimSteps, Busy
<1>2. ASSUME NEW w \in Workers, ClaimLost(w) \/ Run(w) \/ Bury(w)
      PROVE  ClaimSteps
  BY <1>2 DEF ClaimLost, Run, Bury, ClaimSteps, Busy, TypeOK
<1>3. ASSUME NEW w \in Workers, Release(w)
      PROVE  ClaimSteps
  BY <1>3 DEF Release, ClaimSteps, Busy, TypeOK
<1>4. ASSUME NEW w \in Workers, WorkerStep(w)
      PROVE  ClaimSteps
  BY <1>1, <1>2, <1>3, <1>4 DEF WorkerStep, Succeed, Retry, FinishBury, SettleLost
<1>5. ASSUME NEW r \in Replicas, ReplicaStep(r)
      PROVE  ClaimSteps
  BY <1>5 DEF ReplicaStep, Boot, Seed, StartWorkers, BootFails, Stop, ClaimSteps, Busy, TypeOK
<1>6. ASSUME NEW q \in Requests, RequestStep(q)
      PROVE  ClaimSteps
  BY <1>6 DEF RequestStep, Enqueue, Refuse, Commit, Rollback, ClaimSteps, Busy
<1>7. CASE Tick \/ UNCHANGED vars
  BY <1>7 DEF Tick, vars, ClaimSteps, Busy
<1> QED
  BY <1>4, <1>5, <1>6, <1>7 DEF Next

LEMMA InitRow == Init => RowInv
BY NoRowType, NamesAssumption
   DEF Init, RowInv, ScheduledRows, Scheduled, Budgets, Busy, DeadAfterBudget, DeadJobs

LEMMA NextScheduled ==
    ASSUME TypeOK, RowInv, RowSteps
    PROVE  ScheduledRows'
<1> SUFFICES ASSUME NEW i \in Ids
             PROVE  jobs'[i].every # 0 <=> jobs'[i].state = "queued" /\ jobs'[i].name \in Ticks
  BY DEF ScheduledRows, Scheduled
<1>1. jobs[i].every # 0 <=> jobs[i].state = "queued" /\ jobs[i].name \in Ticks
  BY DEF RowInv, ScheduledRows, Scheduled
<1>2. CASE Kept(i)
  BY <1>1, <1>2 DEF Kept
<1>3. CASE Dropped(i)
  BY <1>3, NoRowType DEF Dropped
<1>4. CASE Appears(i)
  BY <1>4, NamesAssumption DEF Appears
<1> QED
  BY <1>2, <1>3, <1>4 DEF RowSteps

LEMMA NextBudgets ==
    ASSUME TypeOK, LossInv, RowInv, [Next]_vars
    PROVE  Budgets'
<1>0. RowSteps /\ ClaimSteps /\ TypeOK'
  BY NextRows, NextClaims, NextType
<1>1. ASSUME NEW i \in Ids, jobs'[i].state # "none", jobs'[i].name \in Calls
      PROVE  IsBudget(jobs'[i].max)
  <2>1. CASE Kept(i)
    <3>1. jobs[i].state # "none" /\ jobs[i].name \in Calls /\ jobs[i].name \notin Ticks
      BY <1>1, <2>1, NamesAssumption DEF Kept
    <3>2. jobs[i].every = 0 /\ IsBudget(jobs[i].max)
      BY <3>1 DEF RowInv, ScheduledRows, Scheduled, Budgets
    <3> QED
      BY <2>1, <3>2 DEF Kept
  <2>2. CASE Dropped(i)
    BY <1>1, <2>2, NoRowType DEF Dropped
  <2>3. CASE Appears(i)
    BY <1>1, <2>3, NamesAssumption DEF Appears
  <2> QED
    BY <1>0, <2>1, <2>2, <2>3 DEF RowSteps
<1>2. ASSUME NEW v \in Workers, Busy(v)', claim'[v].name \in Calls
      PROVE  /\ IsBudget(claim'[v].max)
             /\ claim'[v].id \in InQueue' =>
                   /\ jobs'[claim'[v].id].name = claim'[v].name
                   /\ jobs'[claim'[v].id].attempts >= claim'[v].attempts
  <2>1. CASE Busy(v) /\ claim'[v] = claim[v]
    <3> DEFINE k == claim[v].id
    <3>1. IsBudget(claim'[v].max)
      BY <1>2, <2>1 DEF RowInv, Budgets
    <3>2. ASSUME k \in InQueue'
          PROVE  jobs'[k].name = claim[v].name /\ jobs'[k].attempts >= claim[v].attempts
      <4>1. k \in Ids /\ k \in InQueue
        BY <2>1, <3>2, ClaimedRows DEF InQueue
      <4>2. jobs[k].name = claim[v].name /\ jobs[k].attempts >= claim[v].attempts
        BY <1>2, <2>1, <4>1 DEF RowInv, Budgets
      <4>3. Kept(k)
        BY <1>0, <3>2, <4>1, NoRowType DEF RowSteps, Dropped, Appears, InQueue
      <4>4. jobs[k].every = 0
        BY <1>2, <2>1, <4>1, <4>2, NamesAssumption DEF RowInv, ScheduledRows, Scheduled
      <4>5. /\ jobs[k].attempts \in Int /\ jobs'[k].attempts \in Int
            /\ claim[v].attempts \in Int
        BY <1>0, <4>1 DEF TypeOK, Row
      <4> QED
        BY <4>2, <4>3, <4>4, <4>5 DEF Kept
    <3> QED
      BY <2>1, <3>1, <3>2
  <2>2. ASSUME NEW i \in Ids, Takes(v, i)
        PROVE  /\ IsBudget(claim'[v].max)
               /\ jobs'[claim'[v].id].name = claim'[v].name
               /\ jobs'[claim'[v].id].attempts >= claim'[v].attempts
    <3>1. IsBudget(jobs[i].max)
      BY <1>2, <2>2 DEF Takes, InQueue, RowInv, Budgets
    <3>2. claim'[v].attempts \in Int
      BY <1>0 DEF TypeOK
    <3> QED
      BY <2>2, <3>1, <3>2 DEF Takes
  <2> QED
    BY <1>0, <1>2, <2>1, <2>2 DEF ClaimSteps
<1> QED
  BY <1>1, <1>2 DEF Budgets

\* Nothing is dead when it is accepted.
LEMMA NewAccepted ==
    ASSUME TypeOK, LossInv, [Next]_vars, NEW i \in Accepted'
    PROVE  i \in Accepted \/ (i \notin DeadJobs /\ dead' = dead)
<1> USE DEF table, workers, deploys
<1>1. ASSUME NEW q \in Requests, RequestStep(q)
      PROVE  i \in Accepted \/ (i \notin DeadJobs /\ dead' = dead)
  <2>1. PICK p \in Requests : req'[p].state = "ok" /\ req'[p].id = i
    BY AcceptedMembers
  <2>2. dead' = dead
    BY <1>1 DEF RequestStep, Enqueue, Refuse, Commit, Rollback
  <2>3. CASE req[p].state = "ok" /\ req[p].id = i
    BY <2>3, AcceptedMembers
  <2>4. CASE ~(req[p].state = "ok" /\ req[p].id = i)
    <3>1. Commit(q) /\ p = q
      BY <1>1, <2>1, <2>4 DEF RequestStep, Enqueue, Refuse, Commit, Rollback, TypeOK
    <3>2. req[p].state = "open" /\ req[p].id = i
      BY <2>1, <3>1 DEF Commit, TypeOK
    <3>3. dead[i] = NotDead
      BY <3>2 DEF LossInv, OwnRow, Live
    <3> QED
      BY <2>2, <3>3 DEF DeadJobs
  <2> QED
    BY <2>3, <2>4
<1>2. ASSUME req' = req
      PROVE  i \in Accepted
  BY <1>2 DEF Accepted
<1>3. ASSUME NEW w \in Workers, WorkerStep(w)
      PROVE  req' = req
  BY <1>3 DEF WorkerStep, Claim, ClaimLost, Run, Succeed, Retry, Bury, FinishBury, SettleLost
<1>4. ASSUME NEW r \in Replicas, ReplicaStep(r)
      PROVE  req' = req
  BY <1>4 DEF ReplicaStep, Boot, Seed, StartWorkers, BootFails, Stop
<1>5. CASE Tick \/ UNCHANGED vars
  BY <1>2, <1>5 DEF Tick, vars
<1> QED
  BY <1>1, <1>2, <1>3, <1>4, <1>5 DEF Next

LEMMA OnlyBuryKills ==
    ASSUME TypeOK, [Next]_vars, dead' # dead
    PROVE  \E w \in Workers : Bury(w)
BY DEF Next, vars, table, RequestStep, Enqueue, Refuse, Commit, Rollback, WorkerStep, Claim,
       ClaimLost, Run, Succeed, Retry, FinishBury, SettleLost, ReplicaStep, Boot, Seed,
       StartWorkers, BootFails, Stop, Tick

LEMMA NextDead ==
    ASSUME TypeOK, LossInv, RowInv, [Next]_vars
    PROVE  DeadAfterBudget'
<1> SUFFICES ASSUME NEW i \in Accepted', i \in DeadJobs'
             PROVE  \E b \in Builds, n \in Calls : dead'[i] >= Retries[b][n]
  BY DEF DeadAfterBudget
<1>0. \A j \in Accepted \cap DeadJobs : \E b \in Builds, n \in Calls : dead[j] >= Retries[b][n]
  BY DEF RowInv, DeadAfterBudget
<1>1. CASE dead' = dead
  <2>1. i \in DeadJobs
    BY <1>1 DEF DeadJobs
  <2> QED
    BY <1>0, <1>1, <2>1, NewAccepted
<1>2. CASE dead' # dead
  <2>1. PICK w \in Workers : Bury(w)
    BY <1>2, OnlyBuryKills
  <2>2. i \in Accepted
    BY <1>2, NewAccepted
  <2>3. CASE dead'[i] = dead[i]
    BY <1>0, <2>2, <2>3 DEF DeadJobs
  <2>4. CASE dead'[i] # dead[i]
    <3>1. /\ i = claim[w].id /\ i \in InQueue /\ dead'[i] = jobs[i].attempts
          /\ Busy(w) /\ claim[w].attempts >= claim[w].max
      BY <2>1, <2>4 DEF Bury, Exhausted, Busy, TypeOK
    <3>2. claim[w].name \in Calls
      BY <2>2, <3>1, ClaimsSound DEF ClaimSound
    <3>3. IsBudget(claim[w].max) /\ jobs[i].attempts >= claim[w].attempts
      BY <3>1, <3>2 DEF RowInv, Budgets
    <3>4. jobs[i].attempts \in Int /\ claim[w].attempts \in Int /\ claim[w].max \in Int
      BY <3>1 DEF TypeOK, Row, InQueue
    <3>5. dead'[i] >= claim[w].max
      BY <3>1, <3>3, <3>4
    <3> QED
      BY <3>3, <3>5 DEF IsBudget
  <2> QED
    BY <2>3, <2>4
<1> QED
  BY <1>1, <1>2

LEMMA NextRow == TypeOK /\ LossInv /\ RowInv /\ [Next]_vars => RowInv'
BY NextRows, NextScheduled, NextBudgets, NextDead DEF RowInv

LEMMA RowsHold == Spec => []RowInv
<1>1. Init => RowInv
  BY InitRow
<1> QED
  BY <1>1, NextRow, TypeCorrect, Lost, PTL DEF Spec

\* A dispatched job is dead-lettered only for having used up the attempts some
\* build gave it, however stale the claim of the worker that decides.
THEOREM DeadForBudget == Spec => []DeadAfterBudget
<1>1. RowInv => DeadAfterBudget
  BY DEF RowInv
<1> QED
  BY <1>1, RowsHold, PTL

\* The row of a tick goes only in the boot of a build that does not declare it
\* (jobs.rs:294), for every instance.
THEOREM TicksKept == Spec => ScheduleKept
<1> DEFINE Step == \A i \in Ids : Scheduled(i) /\ ~Scheduled(i)' =>
                      \E r \in Replicas : /\ phase[r] = "down" /\ phase'[r] = "booting"
                                          /\ jobs[i].name \notin Declared[build'[r]]
<1>1. TypeOK /\ LossInv /\ RowInv /\ [Next]_vars => Step
  <2> SUFFICES ASSUME TypeOK, LossInv, RowInv, [Next]_vars, NEW i \in Ids,
                      Scheduled(i), ~Scheduled(i)'
               PROVE  Withdrawn(i)
    BY DEF Withdrawn
  <2>1. Kept(i) \/ Dropped(i) \/ Appears(i)
    BY NextRows DEF RowSteps
  <2>2. ~Kept(i)
    BY DEF Kept, Scheduled
  <2> QED
    BY <2>1, <2>2 DEF Dropped, Appears
<1> QED
  BY <1>1, RowsHold, TypeCorrect, Lost, PTL DEF Spec, ScheduleKept

LEMMA InitTick == Init => TickInv
BY DEF Init, TickInv, InQueue, NoRow, Busy

LEMMA NextTick ==
    ASSUME TicksStay, TypeOK, LossInv, RowInv, TickInv, [Next]_vars
    PROVE  TickInv'
<1>0. RowSteps /\ ClaimSteps /\ ScheduledRows'
  BY NextRows, NextClaims, NextScheduled
\* The row of a tick is not taken away.
<1>1. \A i \in Ids : Scheduled(i) => ~Withdrawn(i)
  <2> SUFFICES ASSUME NEW i \in Ids, Scheduled(i), NEW r \in Replicas,
                      Declared[build'[r]] # {}, jobs[i].name \notin Declared[build'[r]]
               PROVE  FALSE
    BY DEF Withdrawn
  <2>1. build'[r] \in Builds
    BY NextType DEF TypeOK
  <2>2. jobs[i].name \in Ticks
    BY DEF RowInv, ScheduledRows
  <2> QED
    BY <2>1, <2>2 DEF TicksStay
<1>2. \A i \in Ids : Scheduled(i) => Kept(i)
  BY <1>0, <1>1 DEF RowSteps, Dropped, Appears
<1>3. ASSUME NEW i \in InQueue', Scheduled(i)'
      PROVE  \/ i \in InQueue /\ Scheduled(i) /\ jobs'[i].name = jobs[i].name
             \/ /\ \A j \in Ids \ {i} : jobs'[j] = jobs[j]
                /\ \A j \in InQueue : Scheduled(j) => jobs[j].name # jobs'[i].name
  <2>1. CASE Kept(i)
    BY <1>3, <2>1 DEF Kept, InQueue, Scheduled
  <2>2. CASE Dropped(i)
    BY <1>3, <2>2, NoRowType DEF Dropped, Scheduled
  <2>3. CASE Appears(i)
    BY <1>3, <2>3 DEF Appears, Scheduled
  <2> QED
    BY <1>0, <1>3, <2>1, <2>2, <2>3 DEF RowSteps, InQueue
<1>4. ASSUME NEW i \in InQueue', NEW j \in InQueue', Scheduled(i)', Scheduled(j)',
             jobs'[i].name = jobs'[j].name
      PROVE  i = j
  <2>0. i \in Ids /\ j \in Ids
    BY DEF InQueue
  <2>1. CASE /\ i \in InQueue /\ Scheduled(i) /\ jobs'[i].name = jobs[i].name
             /\ j \in InQueue /\ Scheduled(j) /\ jobs'[j].name = jobs[j].name
    BY <1>4, <2>1 DEF TickInv
  <2>2. CASE /\ \A k \in Ids \ {i} : jobs'[k] = jobs[k]
             /\ \A k \in InQueue : Scheduled(k) => jobs[k].name # jobs'[i].name
    <3> SUFFICES ASSUME i # j PROVE FALSE
      OBVIOUS
    <3>1. jobs'[j] = jobs[j]
      BY <2>0, <2>2
    <3>2. j \in InQueue /\ Scheduled(j)
      BY <1>4, <3>1 DEF InQueue, Scheduled
    <3> QED
      BY <1>4, <2>2, <3>1, <3>2
  <2>3. CASE /\ \A k \in Ids \ {j} : jobs'[k] = jobs[k]
             /\ \A k \in InQueue : Scheduled(k) => jobs[k].name # jobs'[j].name
    <3> SUFFICES ASSUME i # j PROVE FALSE
      OBVIOUS
    <3>1. jobs'[i] = jobs[i]
      BY <2>0, <2>3
    <3>2. i \in InQueue /\ Scheduled(i)
      BY <1>4, <3>1 DEF InQueue, Scheduled
    <3> QED
      BY <1>4, <2>3, <3>1, <3>2
  <2> QED
    BY <1>3, <1>4, <2>1, <2>2, <2>3
<1>5. ASSUME NEW v \in Workers, Busy(v)', claim'[v].name \in Ticks
      PROVE  claim'[v].id \in InQueue' /\ jobs'[claim'[v].id].name = claim'[v].name
  <2>1. PICK i \in InQueue : /\ claim'[v].id = i /\ jobs[i].name = claim'[v].name
    BY <1>0, <1>5 DEF TickInv, ClaimSteps, Takes
  <2>2. i \in Ids /\ Scheduled(i)
    BY <1>5, <2>1 DEF RowInv, ScheduledRows, InQueue
  <2>3. Kept(i)
    BY <1>2, <2>2
  <2> QED
    BY <2>1, <2>2, <2>3 DEF Kept, InQueue
<1> QED
  BY <1>4, <1>5 DEF TickInv

\* No two workers run one tick at a time (jobs.rs:109), for every instance whose
\* attempts settle or die within their lease and whose builds keep the ticks.
THEOREM NoOverlap == ~HandlersOverrun /\ TicksStay => (Spec => []TicksNeverOverlap)
<1> SUFFICES ASSUME ~HandlersOverrun, TicksStay
             PROVE  Spec => []TicksNeverOverlap
  OBVIOUS
<1>1. Init => TickInv
  BY InitTick
<1>2. TypeOK /\ LossInv /\ RowInv /\ TickInv /\ [Next]_vars => TickInv'
  BY NextTick
<1>3. RowInv /\ TickInv /\ LeaseInv => TicksNeverOverlap
  <2> SUFFICES ASSUME RowInv, TickInv, LeaseInv, NEW v \in Workers, NEW w \in Workers,
                      Busy(v), Busy(w), v # w,
                      claim[v].name \in Ticks, claim[v].name = claim[w].name
               PROVE  FALSE
    BY DEF TicksNeverOverlap
  <2>1. /\ claim[v].id \in InQueue /\ claim[w].id \in InQueue
        /\ jobs[claim[v].id].name = claim[v].name /\ jobs[claim[w].id].name = claim[v].name
    BY DEF TickInv
  <2>2. Scheduled(claim[v].id) /\ Scheduled(claim[w].id)
    BY <2>1 DEF RowInv, ScheduledRows, InQueue
  <2>3. claim[v].id = claim[w].id
    BY <2>1, <2>2 DEF TickInv
  <2> QED
    BY <2>3 DEF LeaseInv, LeaseExclusive
<1>4. Spec => []LeaseInv
  BY Leases
<1> QED
  BY <1>1, <1>2, <1>3, <1>4, RowsHold, TypeCorrect, Lost, PTL DEF Spec
=============================================================================
