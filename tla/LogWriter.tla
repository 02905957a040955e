------------------------------ MODULE LogWriter ------------------------------
(***************************************************************************)
(* `insert ... buffered` (log_writer.rs): handlers push rows into a bounded *)
(* channel, and one consumer writes them in batches, when a batch is full   *)
(* or its deadline is over.                                                 *)
(*                                                                          *)
(* A row has a number, in the order the channel took them, and the          *)
(* statement it is for.                                                     *)
(***************************************************************************)
EXTENDS Server, Functions

CONSTANTS
    Statements,     \* prefix and tuple: what rows share to be merged
    Columns,        \* how many parameters a row of each has
    MaxBindParams,  \* of one statement
    QueueCapacity,  \* JWC_LOG_QUEUE
    BatchSize,      \* JWC_LOG_BATCH
    FlushInterval,  \* JWC_LOG_FLUSH_MS, in ticks
    MaxRows         \* bound: rows pushed

NoStatement == "none"
ASSUME LogAssumption ==
    /\ NoStatement \notin Statements
    /\ Columns \in [Statements -> Nat]
    /\ {MaxBindParams, QueueCapacity, BatchSize, FlushInterval} \subseteq Nat \ {0}
    /\ MaxRows \in Nat

VARIABLES
    hand,      \* the row each request has counted and not yet sent
    channel,   \* rows the consumer has not taken
    pending,   \* the batch it fills
    writing,   \* rows of the batch it flushes that are still to write
    deadline,  \* ticks until it flushes what it has
    counts,    \* the four counters
    stored,    \* rows in the database, in the order they got there
    lost       \* rows that went with the process

logs == <<hand, channel, pending, writing, deadline, counts, stored, lost>>

LogInit ==
    /\ hand = [r \in Requests |-> NoStatement]
    /\ channel = <<>> /\ pending = <<>> /\ writing = <<>>
    /\ deadline = FlushInterval
    /\ counts = [queued |-> 0, written |-> 0, failed |-> 0, dropped |-> 0, sent |-> 0]
    /\ stored = <<>> /\ lost = 0
------------------------------------------------------------------------------
(* A handler: the row is counted, then sent if there is room. *)

Push(r, s) ==
    /\ Runs(r) /\ hand[r] = NoStatement /\ counts.queued < MaxRows
    /\ hand' = [hand EXCEPT ![r] = s]
    /\ counts' = [counts EXCEPT !.queued = @ + 1]
    /\ UNCHANGED <<server, channel, pending, writing, deadline, stored, lost>>

\* Mutant: a row that finds the channel full is sent anyway.
TrySendAlways(r) ==
    /\ hand[r] # NoStatement
    /\ hand' = [hand EXCEPT ![r] = NoStatement]
    /\ channel' = Append(channel, [n |-> counts.sent + 1, to |-> hand[r]])
    /\ counts' = [counts EXCEPT !.sent = @ + 1,
                                !.dropped = IF Len(channel) < QueueCapacity THEN @ ELSE @ + 1]
    /\ UNCHANGED <<server, pending, writing, deadline, stored, lost>>
TrySend(r) ==
    /\ life # "exited" /\ hand[r] # NoStatement
    /\ hand' = [hand EXCEPT ![r] = NoStatement]
    /\ IF Len(channel) < QueueCapacity
       THEN /\ channel' = Append(channel, [n |-> counts.sent + 1, to |-> hand[r]])
            /\ counts' = [counts EXCEPT !.sent = @ + 1]
       ELSE /\ counts' = [counts EXCEPT !.dropped = @ + 1]
            /\ UNCHANGED channel
    /\ UNCHANGED <<server, pending, writing, deadline, stored, lost>>
------------------------------------------------------------------------------
(* The consumer. *)

\* The larger of a number and one.
Some(n) == IF n = 0 THEN 1 ELSE n
RowsPerChunk(s) == Some(MaxBindParams \div Some(Columns[s]))

\* The statement of row i comes up in a batch before that of row j, or the row
\* does and they share it.
Sooner(rows, i, j) ==
    IF rows[i].to = rows[j].to THEN i < j
    ELSE \E k \in 1..i : rows[k].to = rows[i].to /\ \A m \in 1..k : rows[m].to # rows[j].to

\* The orders of a batch, of which there is one, that group its rows.
Groupings(rows) ==
    {p \in Bijection(DOMAIN rows, DOMAIN rows) :
        \A a, b \in DOMAIN rows : a < b => Sooner(rows, p[a], p[b])}
FlushOf(rows) == \E p \in Groupings(rows) : writing' = [k \in 1..Len(rows) |-> rows[p[k]]]

Idle == life # "exited" /\ writing = <<>>

Receive ==
    /\ Idle /\ channel # <<>>
    /\ channel' = Tail(channel)
    /\ LET batch == Append(pending, Head(channel)) IN
       IF Len(batch) >= BatchSize
       THEN FlushOf(batch) /\ pending' = <<>>
       ELSE pending' = batch /\ UNCHANGED writing
    /\ UNCHANGED <<server, hand, deadline, counts, stored, lost>>

\* A row that is there is taken before the deadline is looked at.
\* Mutant: the deadline starts a new interval and flushes nothing.
DeadlineForgets ==
    /\ Idle /\ channel = <<>> /\ deadline = 0
    /\ deadline' = FlushInterval
    /\ UNCHANGED <<server, hand, channel, pending, writing, counts, stored, lost>>
Deadline ==
    /\ Idle /\ channel = <<>> /\ deadline = 0
    /\ FlushOf(pending)
    /\ pending' = <<>>
    /\ deadline' = FlushInterval
    /\ UNCHANGED <<server, hand, channel, counts, stored, lost>>

\* The next k rows are a chunk: of one statement, and as many of that as fit.
Chunk(k) ==
    /\ k <= RowsPerChunk(writing[1].to)
    /\ \A i \in 1..k : writing[i].to = writing[1].to
    /\ k < Len(writing) /\ k < RowsPerChunk(writing[1].to) => writing[k + 1].to # writing[1].to

\* A chunk is behind; after the last one the interval starts again.
Sent(k) ==
    /\ life # "exited" /\ Chunk(k)
    /\ writing' = SubSeq(writing, k + 1, Len(writing))
    /\ deadline' = IF k = Len(writing) THEN FlushInterval ELSE deadline
    /\ UNCHANGED <<server, hand, channel, pending, lost>>

Written(k) ==
    /\ Sent(k)
    /\ stored' = stored \o SubSeq(writing, 1, k)
    /\ counts' = [counts EXCEPT !.written = @ + k]

\* A chunk that fails may be stored all the same: its answer was lost.
Failed(k) ==
    /\ Sent(k)
    /\ stored' \in {stored, stored \o SubSeq(writing, 1, k)}
    /\ counts' = [counts EXCEPT !.failed = @ + k]

LogTick ==
    /\ life # "exited" /\ deadline > 0
    /\ deadline' = deadline - 1
    /\ UNCHANGED <<server, hand, channel, pending, writing, counts, stored, lost>>

\* The rows the process holds: counted, in the channel, in the batch.
Counted == {r \in Requests : hand[r] # NoStatement}
Held == channel \o pending \o writing

\* The sender is a static: the channel never closes, and nothing is flushed.
LogExit ==
    /\ Exit
    /\ lost' = Len(Held) + Cardinality(Counted)
    /\ hand' = [r \in Requests |-> NoStatement]
    /\ channel' = <<>> /\ pending' = <<>> /\ writing' = <<>>
    /\ UNCHANGED <<deadline, counts, stored>>
------------------------------------------------------------------------------
Consumes == Receive \/ Deadline \/ \E k \in DOMAIN writing : Written(k) \/ Failed(k)

\* A handler sends what it counted before it does anything else.
LogRequest(r) ==
    \/ \E s \in Statements : Push(r, s)
    \/ TrySend(r)
    \/ hand[r] = NoStatement /\ (Accept(r) \/ Respond(r) \/ TimeOut(r)) /\ UNCHANGED logs

LogNext == \/ \E r \in Requests : LogRequest(r)
           \/ Consumes \/ LogTick \/ LogExit \/ (Signal /\ UNCHANGED logs)

\* A process whose handlers have pushed nothing yet, with any requests under way.
LogStart ==
    /\ life = "serving"
    /\ req \in [Requests -> {"coming", "running", "answered", "timed out"}]
    /\ LogInit
LogSpec == LogStart /\ [][LogNext]_<<server, logs>>
------------------------------------------------------------------------------
(* Properties. *)

LogTypeOK ==
    /\ hand \in [Requests -> Statements \cup {NoStatement}]
    /\ Len(channel) <= QueueCapacity /\ Len(pending) < BatchSize
    /\ deadline \in 0..FlushInterval /\ lost \in 0..MaxRows
    /\ counts \in [queued : 0..MaxRows, written : 0..MaxRows, failed : 0..MaxRows,
                   dropped : 0..MaxRows, sent : 0..MaxRows]
    /\ \A i, j, k \in DOMAIN writing :
          i < j /\ j < k /\ writing[i].to = writing[k].to => writing[j].to = writing[k].to

\* Every row that was queued is on record as written, failed or dropped, or is
\* still held: /metrics never loses one, in a full channel, a batch that is
\* cut into chunks or one of which a chunk fails (log_writer.rs, push, flush);
\* and the rows of one statement reach the table in the order they were pushed.
LogConserved ==
    /\ counts.queued = counts.written + counts.failed + counts.dropped + lost
                       + Len(Held) + Cardinality(Counted)
    /\ \A i, j \in 1..Len(stored) :
          i < j /\ stored[i].to = stored[j].to => stored[i].n < stored[j].n

\* Once handlers push no more, no row stays in the process: the last of them,
\* too few for a batch, are written, fail, or are lost with the process
\* (log_writer.rs, flush_interval: the longest a row may sit).
LogSettles == (Held # <<>>) ~> (Held = <<>>)
=============================================================================
