--------------------------- MODULE LogWriterProofs ---------------------------
(***************************************************************************)
(* Theorems about the buffered log writer, for every set of requests and    *)
(* statements, every size of the channel, the batch and a chunk.            *)
(***************************************************************************)
EXTENDS LogWriter, FiniteSetTheorems, SequenceTheorems, TLAPS

-----------------------------------------------------------------------------
(* Rows in order.                                                          *)

Row == [n : Nat, to : Statements]

\* Within s, and of s before t, the rows of one statement are in their order.
InOrder(s) == \A i, j \in 1..Len(s) : i < j /\ s[i].to = s[j].to => s[i].n < s[j].n
Precedes(s, t) == \A i \in 1..Len(s), j \in 1..Len(t) : s[i].to = t[j].to => s[i].n < t[j].n
UpTo(s, m) == \A i \in 1..Len(s) : s[i].n <= m

\* The rows of a statement are side by side.
Grouped(s) == \A i, j, k \in 1..Len(s) : i < j /\ j < k /\ s[i].to = s[k].to => s[j].to = s[k].to

LEMMA EmptyOrder ==
    /\ <<>> \in Seq(Row) /\ Len(<<>>) = 0
    /\ InOrder(<<>>) /\ Grouped(<<>>) /\ \A m : UpTo(<<>>, m)
    /\ \A s : Precedes(s, <<>>) /\ Precedes(<<>>, s)
<1>1. <<>> \in Seq(Row) /\ Len(<<>>) = 0
  BY EmptySeq
<1>2. 1..Len(<<>>) = {}
  BY <1>1
<1> QED
  BY <1>1, <1>2 DEF InOrder, Grouped, UpTo, Precedes

\* s is followed by t.
LEMMA Joined ==
    ASSUME NEW s \in Seq(Row), NEW t \in Seq(Row)
    PROVE  /\ s \o t \in Seq(Row) /\ Len(s \o t) = Len(s) + Len(t)
           /\ InOrder(s) /\ InOrder(t) /\ Precedes(s, t) => InOrder(s \o t)
           /\ \A u \in Seq(Row) : Precedes(s, u) /\ Precedes(t, u) => Precedes(s \o t, u)
           /\ \A u \in Seq(Row) : Precedes(u, s) /\ Precedes(u, t) => Precedes(u, s \o t)
           /\ \A m \in Nat : UpTo(s, m) /\ UpTo(t, m) => UpTo(s \o t, m)
<1>0. Len(s) \in Nat /\ Len(t) \in Nat
  BY LenProperties
<1>1. /\ s \o t \in Seq(Row) /\ Len(s \o t) = Len(s) + Len(t)
      /\ \A i \in 1..Len(s) + Len(t) : (s \o t)[i] = IF i <= Len(s) THEN s[i] ELSE t[i - Len(s)]
  BY ConcatProperties
<1>2. ASSUME NEW i \in 1..Len(s) + Len(t)
      PROVE  \/ i \in 1..Len(s) /\ (s \o t)[i] = s[i]
             \/ i - Len(s) \in 1..Len(t) /\ i > Len(s) /\ (s \o t)[i] = t[i - Len(s)]
  <2>1. CASE i <= Len(s)
    BY <1>0, <1>1, <2>1
  <2>2. CASE i > Len(s)
    BY <1>0, <1>1, <2>2
  <2> QED
    BY <1>0, <2>1, <2>2
<1>3. ASSUME InOrder(s), InOrder(t), Precedes(s, t) PROVE InOrder(s \o t)
  <2> SUFFICES ASSUME NEW i \in 1..Len(s) + Len(t), NEW j \in 1..Len(s) + Len(t),
                      i < j, (s \o t)[i].to = (s \o t)[j].to
               PROVE  (s \o t)[i].n < (s \o t)[j].n
    BY <1>1 DEF InOrder
  <2>1. CASE j \in 1..Len(s) /\ (s \o t)[j] = s[j]
    <3>1. i \in 1..Len(s) /\ (s \o t)[i] = s[i]
      BY <1>0, <1>2, <2>1
    <3> QED
      BY <1>3, <2>1, <3>1 DEF InOrder
  <2>2. CASE j - Len(s) \in 1..Len(t) /\ j > Len(s) /\ (s \o t)[j] = t[j - Len(s)]
    <3>1. CASE i \in 1..Len(s) /\ (s \o t)[i] = s[i]
      BY <1>3, <2>2, <3>1 DEF Precedes
    <3>2. CASE i - Len(s) \in 1..Len(t) /\ i > Len(s) /\ (s \o t)[i] = t[i - Len(s)]
      <4>1. i - Len(s) < j - Len(s)
        BY <1>0
      <4> QED
        BY <1>3, <2>2, <3>2, <4>1 DEF InOrder
    <3> QED
      BY <1>2, <3>1, <3>2
  <2> QED
    BY <1>2, <2>1, <2>2
<1>4. \A u \in Seq(Row) : Precedes(s, u) /\ Precedes(t, u) => Precedes(s \o t, u)
  BY <1>1, <1>2 DEF Precedes
<1>5. \A u \in Seq(Row) : Precedes(u, s) /\ Precedes(u, t) => Precedes(u, s \o t)
  BY <1>1, <1>2 DEF Precedes
<1>6. \A m \in Nat : UpTo(s, m) /\ UpTo(t, m) => UpTo(s \o t, m)
  BY <1>1, <1>2 DEF UpTo
<1> QED
  BY <1>1, <1>3, <1>4, <1>5, <1>6

\* Every row of t is one of s.
Part(t, s) == \A i \in 1..Len(t) : \E j \in 1..Len(s) : t[i] = s[j]

LEMMA Parts ==
    ASSUME NEW s \in Seq(Row), NEW t \in Seq(Row), Part(t, s)
    PROVE  /\ \A u : Precedes(s, u) => Precedes(t, u)
           /\ \A u : Precedes(u, s) => Precedes(u, t)
           /\ \A m \in Nat : UpTo(s, m) => UpTo(t, m)
BY DEF Part, Precedes, UpTo

\* A statement sends the first k rows and leaves the rest.
LEMMA Cut ==
    ASSUME NEW s \in Seq(Row), NEW k \in 1..Len(s)
    PROVE  LET a == SubSeq(s, 1, k)  b == SubSeq(s, k + 1, Len(s))
           IN  /\ a \in Seq(Row) /\ b \in Seq(Row)
               /\ Len(a) = k /\ Len(b) = Len(s) - k
               /\ Part(a, s) /\ Part(b, s)
               /\ InOrder(s) => InOrder(a) /\ InOrder(b) /\ Precedes(a, b)
               /\ Grouped(s) => Grouped(b)
<1> DEFINE a == SubSeq(s, 1, k)  b == SubSeq(s, k + 1, Len(s))
<1>0. Len(s) \in Nat /\ \A i \in 1..Len(s) : s[i] \in Row
  BY LenProperties, ElementOfSeq
<1>1. a \in Seq(Row) /\ Len(a) = k /\ \A i \in 1..k : a[i] = s[i]
  <2>1. \A i \in 1..k : s[i] \in Row
    BY <1>0
  <2>2. /\ a \in Seq(Row) /\ Len(a) = IF 1 <= k THEN k - 1 + 1 ELSE 0
        /\ \A i \in 1..(k - 1 + 1) : a[i] = s[1 + i - 1]
    BY <1>0, <2>1, SubSeqProperties
  <2> QED
    BY <1>0, <2>2
<1>2. b \in Seq(Row) /\ Len(b) = Len(s) - k /\ \A i \in 1..(Len(s) - k) : b[i] = s[k + i]
  <2>1. \A i \in (k + 1)..Len(s) : s[i] \in Row
    BY <1>0
  <2>2. /\ b \in Seq(Row) /\ Len(b) = IF k + 1 <= Len(s) THEN Len(s) - (k + 1) + 1 ELSE 0
        /\ \A i \in 1..(Len(s) - (k + 1) + 1) : b[i] = s[(k + 1) + i - 1]
    BY <1>0, <2>1, SubSeqProperties
  <2> QED
    BY <1>0, <2>2
<1> HIDE DEF a, b
<1>3. \A i \in 1..(Len(s) - k) : k + i \in 1..Len(s)
  BY <1>0
<1>4. Part(a, s) /\ Part(b, s)
  <2>1. \A i \in 1..k : i \in 1..Len(s)
    BY <1>0
  <2>2. Part(a, s)
    BY <1>1, <2>1 DEF Part
  <2>3. Part(b, s)
    BY <1>2, <1>3 DEF Part
  <2> QED
    BY <2>2, <2>3
<1>5. ASSUME InOrder(s) PROVE InOrder(a) /\ InOrder(b) /\ Precedes(a, b)
  <2>1. InOrder(a)
    BY <1>0, <1>1, <1>5 DEF InOrder
  <2>2. InOrder(b)
    <3> SUFFICES ASSUME NEW i \in 1..Len(b), NEW j \in 1..Len(b), i < j, b[i].to = b[j].to
                 PROVE  b[i].n < b[j].n
      BY DEF InOrder
    <3>1. k + i \in 1..Len(s) /\ k + j \in 1..Len(s) /\ k + i < k + j
      BY <1>0, <1>2
    <3> QED
      BY <1>2, <1>5, <3>1 DEF InOrder
  <2>3. Precedes(a, b)
    <3> SUFFICES ASSUME NEW i \in 1..Len(a), NEW j \in 1..Len(b), a[i].to = b[j].to
                 PROVE  a[i].n < b[j].n
      BY DEF Precedes
    <3>1. i \in 1..Len(s) /\ k + j \in 1..Len(s) /\ i < k + j
      BY <1>0, <1>1, <1>2
    <3> QED
      BY <1>1, <1>2, <1>5, <3>1 DEF InOrder
  <2> QED
    BY <2>1, <2>2, <2>3
<1>6. ASSUME Grouped(s) PROVE Grouped(b)
  <2>1. ASSUME NEW h \in 1..Len(b), NEW i \in 1..Len(b), NEW j \in 1..Len(b),
               h < i, i < j, b[h].to = b[j].to
        PROVE  b[i].to = b[j].to
    <3>1. /\ k + h \in 1..Len(s) /\ k + i \in 1..Len(s) /\ k + j \in 1..Len(s)
          /\ k + h < k + i /\ k + i < k + j
      BY <1>0, <1>2, <2>1
    <3>2. s[k + h].to = s[k + j].to
      BY <1>2, <2>1
    <3>3. s[k + i].to = s[k + j].to
      BY <1>6, <3>1, <3>2 DEF Grouped
    <3> QED
      BY <1>2, <3>3
  <2> QED
    BY <2>1 DEF Grouped
<1> QED
  BY <1>1, <1>2, <1>4, <1>5, <1>6 DEF a, b

\* A flush takes the rows of the batch, each once, group by group.
LEMMA FlushRows ==
    ASSUME NEW s \in Seq(Row), InOrder(s), FlushOf(s)
    PROVE  /\ writing' \in Seq(Row) /\ Len(writing') = Len(s) /\ Part(writing', s)
           /\ InOrder(writing') /\ Grouped(writing')
<1>0. Len(s) \in Nat /\ DOMAIN s = 1..Len(s) /\ \A i \in 1..Len(s) : s[i] \in Row
  BY LenProperties, ElementOfSeq
<1>1. PICK p \in Groupings(s) : writing' = [k \in 1..Len(s) |-> s[p[k]]]
  BY DEF FlushOf
<1>2. /\ p \in [1..Len(s) -> 1..Len(s)]
      /\ \A a, b \in 1..Len(s) : a < b => Sooner(s, p[a], p[b])
  BY <1>0, <1>1 DEF Groupings, Bijection, Injection
<1>3. \A k \in 1..Len(s) : p[k] \in 1..Len(s) /\ writing'[k] = s[p[k]]
  BY <1>1, <1>2
<1>4. writing' \in Seq(Row) /\ Len(writing') = Len(s)
  BY <1>0, <1>1, <1>3
<1>5. Part(writing', s)
  BY <1>3, <1>4 DEF Part
<1>6. InOrder(writing')
  <2> SUFFICES ASSUME NEW i \in 1..Len(s), NEW j \in 1..Len(s), i < j,
                      s[p[i]].to = s[p[j]].to
               PROVE  s[p[i]].n < s[p[j]].n
    BY <1>3, <1>4 DEF InOrder
  <2>1. p[i] < p[j]
    BY <1>2 DEF Sooner
  <2> QED
    BY <1>3, <2>1 DEF InOrder
<1>7. Grouped(writing')
  <2> SUFFICES ASSUME NEW h \in 1..Len(s), NEW i \in 1..Len(s), NEW j \in 1..Len(s),
                      h < i, i < j, s[p[h]].to = s[p[j]].to, s[p[i]].to # s[p[j]].to
               PROVE  FALSE
    BY <1>3, <1>4 DEF Grouped
  <2>0. p[h] \in Nat /\ p[i] \in Nat
    BY <1>0, <1>3
  <2>1. PICK k \in 1..p[h] : s[k].to = s[p[h]].to /\ \A m \in 1..k : s[m].to # s[p[i]].to
    BY <1>2 DEF Sooner
  <2>2. PICK l \in 1..p[i] : s[l].to = s[p[i]].to /\ \A m \in 1..l : s[m].to # s[p[j]].to
    BY <1>2 DEF Sooner
  <2>3. k \in 1..l \/ l \in 1..k
    BY <2>0
  <2> QED
    BY <2>1, <2>2, <2>3
<1> QED
  BY <1>4, <1>5, <1>6, <1>7
-----------------------------------------------------------------------------
(* The invariant.                                                          *)

Counts == [queued : Nat, written : Nat, failed : Nat, dropped : Nat, sent : Nat]

Typed ==
    /\ hand \in [Requests -> Statements \cup {NoStatement}]
    /\ {channel, pending, writing, stored} \subseteq Seq(Row)
    /\ Len(channel) <= QueueCapacity /\ Len(pending) < BatchSize
    /\ deadline \in 0..FlushInterval /\ lost \in Nat
    /\ counts \in Counts
    /\ IsFiniteSet(Counted)

\* Every row counted is out of the process, held, or in the hand of a request;
\* those sent are among them.
Out == counts.written + counts.failed + counts.dropped + lost
In == Len(channel) + Len(pending) + Len(writing)
Hands == Cardinality(Counted)
Sums ==
    /\ counts.queued = Out + In + Hands
    /\ counts.sent + counts.dropped + Hands <= counts.queued
    /\ counts.queued <= MaxRows

\* The rows of a statement go through the four places one after the other.
Lined ==
    /\ InOrder(stored) /\ InOrder(writing) /\ InOrder(pending) /\ InOrder(channel)
    /\ Precedes(stored, writing) /\ Precedes(stored, pending) /\ Precedes(stored, channel)
    /\ Precedes(writing, pending) /\ Precedes(writing, channel) /\ Precedes(pending, channel)
    /\ UpTo(stored, counts.sent) /\ UpTo(writing, counts.sent)
    /\ UpTo(pending, counts.sent) /\ UpTo(channel, counts.sent)
    /\ Grouped(writing)

LogInv == Typed /\ Sums /\ Lined

LEMMA Sizes ==
    ASSUME Typed
    PROVE  /\ Len(channel) \in Nat /\ Len(pending) \in Nat /\ Len(writing) \in Nat
           /\ Len(stored) \in Nat
BY LenProperties DEF Typed

LEMMA Numbers ==
    ASSUME Typed
    PROVE  /\ counts.queued \in Nat /\ counts.written \in Nat /\ counts.failed \in Nat
           /\ counts.dropped \in Nat /\ counts.sent \in Nat /\ lost \in Nat
           /\ Out \in Nat /\ In \in Nat /\ Hands \in Nat
<1>1. /\ counts.queued \in Nat /\ counts.written \in Nat /\ counts.failed \in Nat
      /\ counts.dropped \in Nat /\ counts.sent \in Nat /\ lost \in Nat
  BY DEF Typed, Counts
<1>2. Out \in Nat
  BY <1>1 DEF Out
<1>3. In \in Nat
  <2>1. \A a, b, c \in Nat : a + b + c \in Nat
    OBVIOUS
  <2> QED
    BY <2>1, Sizes DEF In
<1>4. Hands \in Nat
  BY FS_CardinalityType DEF Hands, Typed
<1> QED
  BY <1>1, <1>2, <1>3, <1>4

\* A counter goes up by k, and no other.
LEMMA Counter ==
    ASSUME NEW c \in Counts, NEW k \in Nat
    PROVE  /\ [c EXCEPT !.queued = @ + k] \in Counts /\ [c EXCEPT !.written = @ + k] \in Counts
           /\ [c EXCEPT !.failed = @ + k] \in Counts /\ [c EXCEPT !.dropped = @ + k] \in Counts
           /\ [c EXCEPT !.sent = @ + k] \in Counts
BY DEF Counts

LEMMA Rows ==
    /\ \A s \in Seq(Row) : \A i \in 1..Len(s) : s[i].n \in Nat
    /\ \A r \in Row : r.n \in Nat
<1>1. \A s \in Seq(Row) : \A i \in 1..Len(s) : s[i] \in Row
  BY ElementOfSeq
<1> QED
  BY <1>1 DEF Row

LEMMA Starts == LogStart => LogInv
<1> SUFFICES ASSUME LogStart PROVE LogInv
  OBVIOUS
<1>1. /\ hand = [r \in Requests |-> NoStatement]
      /\ channel = <<>> /\ pending = <<>> /\ writing = <<>> /\ stored = <<>>
      /\ deadline = FlushInterval /\ lost = 0
      /\ counts = [queued |-> 0, written |-> 0, failed |-> 0, dropped |-> 0, sent |-> 0]
  BY DEF LogStart, LogInit
<1>2. IsFiniteSet(Counted) /\ Hands = 0
  BY <1>1, FS_EmptySet DEF Counted, Hands
<1>3. Typed
  BY <1>1, <1>2, EmptyOrder, LogAssumption DEF Typed, Counts
<1>4. Sums
  <2>1. In = 0
    BY <1>1, EmptyOrder DEF In
  <2>2. Out = 0
    BY <1>1 DEF Out
  <2> QED
    BY <1>1, <1>2, <2>1, <2>2, LogAssumption DEF Sums
<1>5. Lined
  BY <1>1, EmptyOrder DEF Lined
<1> QED
  BY <1>3, <1>4, <1>5 DEF LogInv

LEMMA PushInv ==
    ASSUME LogInv, NEW r \in Requests, NEW s \in Statements, Push(r, s)
    PROVE  LogInv'
<1>1. /\ hand' = [hand EXCEPT ![r] = s] /\ hand[r] = NoStatement
      /\ counts' = [counts EXCEPT !.queued = @ + 1] /\ counts.queued < MaxRows
      /\ UNCHANGED <<channel, pending, writing, deadline, stored, lost>>
  BY DEF Push
<1>2. Typed /\ Sums /\ Lined
  BY DEF LogInv
<1>c. counts \in Counts
  BY <1>2 DEF Typed
<1>n. /\ counts.queued \in Nat /\ counts.written \in Nat /\ counts.failed \in Nat
      /\ counts.dropped \in Nat /\ counts.sent \in Nat /\ lost \in Nat
      /\ Out \in Nat /\ In \in Nat /\ Hands \in Nat
  BY <1>2, Numbers
<1>s. Len(channel) \in Nat /\ Len(pending) \in Nat /\ Len(writing) \in Nat /\ Len(stored) \in Nat
  BY <1>2, Sizes
<1>3. /\ counts' \in Counts /\ counts'.queued = counts.queued + 1
      /\ counts'.written = counts.written /\ counts'.failed = counts.failed
      /\ counts'.dropped = counts.dropped /\ counts'.sent = counts.sent
  BY <1>1, <1>c, Counter DEF Counts
<1>4. Counted' = Counted \cup {r} /\ r \notin Counted
  BY <1>1, <1>2, LogAssumption DEF Counted, Typed
<1>5. IsFiniteSet(Counted') /\ Hands' = Hands + 1
  BY <1>2, <1>4, FS_AddElement DEF Typed, Hands
<1>6. Typed'
  BY <1>1, <1>2, <1>3, <1>5 DEF Typed
<1>7. Sums'
  <2>1. Out' = Out /\ In' = In
    BY <1>1, <1>3 DEF Out, In
  <2>2. Sums /\ counts.queued < MaxRows /\ MaxRows \in Nat
    BY <1>1, <1>2, LogAssumption
  <2> QED
    BY <1>n, <1>3, <1>5, <2>1, <2>2 DEF Sums
<1>8. Lined'
  BY <1>1, <1>2, <1>3 DEF Lined
<1> QED
  BY <1>6, <1>7, <1>8 DEF LogInv

LEMMA SendInv ==
    ASSUME LogInv, NEW r \in Requests, TrySend(r)
    PROVE  LogInv'
<1>1. /\ hand' = [hand EXCEPT ![r] = NoStatement] /\ hand[r] # NoStatement
      /\ UNCHANGED <<pending, writing, deadline, stored, lost>>
  BY DEF TrySend
<1>2. Typed /\ Sums /\ Lined
  BY DEF LogInv
<1>c. counts \in Counts
  BY <1>2 DEF Typed
<1>n. /\ counts.queued \in Nat /\ counts.written \in Nat /\ counts.failed \in Nat
      /\ counts.dropped \in Nat /\ counts.sent \in Nat /\ lost \in Nat
      /\ Out \in Nat /\ In \in Nat /\ Hands \in Nat
  BY <1>2, Numbers
<1>s. Len(channel) \in Nat /\ Len(pending) \in Nat /\ Len(writing) \in Nat /\ Len(stored) \in Nat
  BY <1>2, Sizes
<1>3. Counted' = Counted \ {r} /\ r \in Counted
  BY <1>1, <1>2 DEF Counted, Typed
<1>4. IsFiniteSet(Counted') /\ Hands' = Hands - 1
  BY <1>2, <1>3, FS_RemoveElement DEF Typed, Hands
<1>5. CASE Len(channel) < QueueCapacity
  <2> DEFINE row == [n |-> counts.sent + 1, to |-> hand[r]]
  <2>1. channel' = Append(channel, row) /\ counts' = [counts EXCEPT !.sent = @ + 1]
    BY <1>5 DEF TrySend
  <2>2. /\ counts' \in Counts /\ counts'.queued = counts.queued
        /\ counts'.written = counts.written /\ counts'.failed = counts.failed
        /\ counts'.dropped = counts.dropped /\ counts'.sent = counts.sent + 1
    BY <1>c, <2>1, Counter DEF Counts
  <2>3. row \in Row /\ row.n = counts.sent + 1
    BY <1>1, <1>2, <1>n DEF Row, Typed
  <2> HIDE DEF row
  <2>4. /\ channel \in Seq(Row) /\ pending \in Seq(Row) /\ writing \in Seq(Row)
        /\ stored \in Seq(Row)
    BY <1>2 DEF Typed
  <2>5. /\ channel' \in Seq(Row) /\ Len(channel') = Len(channel) + 1
        /\ \A i \in 1..Len(channel) : channel'[i] = channel[i]
        /\ channel'[Len(channel) + 1] = row
    BY <2>1, <2>3, <2>4
  <2>6. Typed'
    <3>1. Len(channel') <= QueueCapacity
      BY <1>s, <1>5, <2>5, LogAssumption
    <3> QED
      BY <1>1, <1>2, <1>4, <2>2, <2>5, <3>1 DEF Typed
  <2>7. Sums'
    <3>1. Out' = Out
      BY <1>1, <2>2 DEF Out
    <3>2. In' = In + 1
      <4>1. \A a, b, c \in Nat : (a + 1) + b + c = (a + b + c) + 1
        OBVIOUS
      <4> QED
        BY <1>1, <1>s, <2>5, <4>1 DEF In
    <3>3. Sums
      BY <1>2
    <3> QED
      BY <1>n, <1>4, <2>2, <3>1, <3>2, <3>3 DEF Sums
  <2>8. \A t \in Seq(Row) : UpTo(t, counts.sent) => UpTo(t, counts'.sent)
    BY <1>n, <2>2, Rows DEF UpTo
  <2>9. \A i \in 1..Len(channel') : i \in 1..Len(channel) \/ channel'[i] = row
    BY <1>s, <2>5
  <2>10. \A t \in Seq(Row) : UpTo(t, counts.sent) /\ Precedes(t, channel) => Precedes(t, channel')
    <3> SUFFICES ASSUME NEW t \in Seq(Row), UpTo(t, counts.sent), Precedes(t, channel),
                        NEW i \in 1..Len(t), NEW j \in 1..Len(channel'),
                        t[i].to = channel'[j].to
                 PROVE  t[i].n < channel'[j].n
      BY DEF Precedes
    <3>1. CASE j \in 1..Len(channel)
      BY <2>5, <3>1 DEF Precedes
    <3>2. CASE channel'[j] = row
      <4>1. t[i].n \in Nat /\ t[i].n <= counts.sent
        BY Rows DEF UpTo
      <4>2. channel'[j].n = counts.sent + 1
        BY <2>3, <3>2
      <4>3. \A a, b \in Nat : a <= b => a < b + 1
        OBVIOUS
      <4> QED
        BY <1>n, <4>1, <4>2, <4>3
    <3> QED
      BY <2>9, <3>1, <3>2
  <2>11. InOrder(channel')
    <3> SUFFICES ASSUME NEW i \in 1..Len(channel'), NEW j \in 1..Len(channel'),
                        i < j, channel'[i].to = channel'[j].to
                 PROVE  channel'[i].n < channel'[j].n
      BY DEF InOrder
    <3>1. i \in 1..Len(channel) /\ channel'[i] = channel[i]
      BY <1>s, <2>5
    <3>2. CASE j \in 1..Len(channel)
      BY <1>2, <2>5, <3>1, <3>2 DEF InOrder, Lined
    <3>3. CASE channel'[j] = row
      <4>1. channel[i].n \in Nat /\ channel[i].n <= counts.sent
        BY <1>2, <2>4, <3>1, Rows DEF Lined, UpTo
      <4> QED
        BY <1>n, <2>3, <3>1, <3>3, <4>1
    <3> QED
      BY <2>9, <3>2, <3>3
  <2>12. UpTo(channel', counts'.sent)
    <3>1. \A i \in 1..Len(channel) : channel[i].n \in Nat /\ channel[i].n <= counts.sent
      BY <1>2, <2>4, Rows DEF Lined, UpTo
    <3>2. ASSUME NEW i \in 1..Len(channel') PROVE channel'[i].n <= counts.sent + 1
      <4>1. CASE i \in 1..Len(channel)
        <5>1. channel'[i].n \in Nat /\ channel'[i].n <= counts.sent
          BY <2>5, <3>1, <4>1
        <5>2. \A a, b \in Nat : a <= b => a <= b + 1
          OBVIOUS
        <5> QED
          BY <1>n, <5>1, <5>2
      <4>2. CASE channel'[i] = row
        BY <1>n, <2>3, <4>2
      <4> QED
        BY <2>9, <4>1, <4>2
    <3> QED
      BY <2>2, <3>2 DEF UpTo
  <2>13. Lined'
    BY <1>1, <1>2, <2>4, <2>8, <2>10, <2>11, <2>12 DEF Lined
  <2> QED
    BY <2>6, <2>7, <2>13 DEF LogInv
<1>6. CASE ~(Len(channel) < QueueCapacity)
  <2>1. channel' = channel /\ counts' = [counts EXCEPT !.dropped = @ + 1]
    BY <1>6 DEF TrySend
  <2>2. /\ counts' \in Counts /\ counts'.queued = counts.queued
        /\ counts'.written = counts.written /\ counts'.failed = counts.failed
        /\ counts'.dropped = counts.dropped + 1 /\ counts'.sent = counts.sent
    BY <1>c, <2>1, Counter DEF Counts
  <2>3. Typed'
    BY <1>1, <1>2, <1>4, <2>1, <2>2 DEF Typed
  <2>4. Sums'
    <3>1. In' = In
      BY <1>1, <2>1 DEF In
    <3>2. Out' = Out + 1
      BY <1>1, <1>n, <2>2 DEF Out
    <3>3. Sums
      BY <1>2
    <3> QED
      BY <1>n, <1>4, <2>2, <3>1, <3>2, <3>3 DEF Sums
  <2>5. Lined'
    BY <1>1, <1>2, <2>1, <2>2 DEF Lined
  <2> QED
    BY <2>3, <2>4, <2>5 DEF LogInv
<1> QED
  BY <1>5, <1>6

\* The consumer takes the first row of the channel.
LEMMA Taken ==
    ASSUME NEW c \in Seq(Row), c # <<>>
    PROVE  /\ SubSeq(c, 1, 1) = <<Head(c)>> /\ Tail(c) = SubSeq(c, 2, Len(c))
           /\ Head(c) \in Row /\ 1 \in 1..Len(c)
<1>1. Len(c) \in Nat \ {0} /\ Head(c) = c[1] /\ Head(c) \in Row
  BY EmptySeq, HeadTailProperties
<1>2. Tail(c) = SubSeq(c, 2, Len(c))
  BY TailIsSubSeq
<1>3. SubSeq(c, 1, 1) = <<c[1]>> \o SubSeq(c, 2, 1)
  BY <1>1, SubSeqRecursiveFirst
<1>4. SubSeq(c, 2, 1) = <<>>
  BY SubSeqEmpty
<1>5. <<c[1]>> \o <<>> = <<c[1]>>
  BY <1>1, ConcatEmptySeq
<1>6. 1 \in 1..Len(c)
  <2>1. \A n \in Nat \ {0} : 1 \in 1..n
    OBVIOUS
  <2> QED
    BY <1>1, <2>1
<1>7. SubSeq(c, 1, 1) = <<Head(c)>>
  BY <1>1, <1>3, <1>4, <1>5
<1> QED
  BY <1>1, <1>2, <1>6, <1>7

LEMMA ReceiveInv ==
    ASSUME LogInv, Receive
    PROVE  LogInv'
<1> DEFINE x == SubSeq(channel, 1, 1)
           batch == pending \o x
<1>2. Typed /\ Sums /\ Lined
  BY DEF LogInv
<1>n. /\ counts.queued \in Nat /\ Out \in Nat /\ In \in Nat /\ Hands \in Nat
  BY <1>2, Numbers
<1>s. Len(channel) \in Nat /\ Len(pending) \in Nat /\ Len(writing) \in Nat /\ Len(stored) \in Nat
  BY <1>2, Sizes
<1>0. /\ channel \in Seq(Row) /\ pending \in Seq(Row) /\ writing \in Seq(Row)
      /\ stored \in Seq(Row) /\ counts \in Counts
  BY <1>2 DEF Typed
<1>1. /\ channel # <<>> /\ writing = <<>> /\ channel' = Tail(channel)
      /\ UNCHANGED <<hand, deadline, counts, stored, lost>>
  BY DEF Receive, Idle
<1>3. /\ x = <<Head(channel)>> /\ channel' = SubSeq(channel, 2, Len(channel))
      /\ Head(channel) \in Row /\ 1 \in 1..Len(channel)
  BY <1>0, <1>1, Taken
<1>4. /\ x \in Seq(Row) /\ channel' \in Seq(Row)
      /\ Len(x) = 1 /\ Len(channel') = Len(channel) - 1
      /\ Part(x, channel) /\ Part(channel', channel)
      /\ InOrder(x) /\ InOrder(channel') /\ Precedes(x, channel')
  <2>1. channel' = SubSeq(channel, 1 + 1, Len(channel))
    BY <1>3
  <2>2. InOrder(channel) /\ 1 \in 1..Len(channel) /\ channel \in Seq(Row)
    BY <1>0, <1>2, <1>3 DEF Lined
  <2> DEFINE t == SubSeq(channel, 1 + 1, Len(channel))
  <2>3. /\ x \in Seq(Row) /\ t \in Seq(Row) /\ Len(x) = 1 /\ Len(t) = Len(channel) - 1
        /\ Part(x, channel) /\ Part(t, channel)
        /\ InOrder(x) /\ InOrder(t) /\ Precedes(x, t)
    BY ONLY <2>2, Cut, Zenon
  <2> HIDE DEF x, t
  <2> QED
    BY <2>1, <2>3 DEF t
<1>5. Append(pending, Head(channel)) = batch
  BY <1>0, <1>3, AppendIsConcat
<1> HIDE DEF x
<1>6. batch \in Seq(Row) /\ Len(batch) = Len(pending) + 1
  BY <1>0, <1>4, Joined
<1>7. /\ InOrder(batch) /\ Precedes(batch, channel') /\ Precedes(stored, batch)
      /\ UpTo(batch, counts.sent) /\ UpTo(channel', counts.sent) /\ Precedes(stored, channel')
  <2>1. /\ Precedes(pending, x) /\ Precedes(pending, channel')
        /\ Precedes(stored, x) /\ Precedes(stored, channel')
    BY <1>0, <1>2, <1>4, Parts DEF Lined
  <2>2. counts.sent \in Nat
    BY <1>2, Numbers
  <2>3. UpTo(x, counts.sent) /\ UpTo(channel', counts.sent)
    BY <1>0, <1>2, <1>4, <2>2, Parts DEF Lined
  <2> QED
    BY <1>0, <1>2, <1>4, <2>1, <2>2, <2>3, Joined DEF Lined
<1> HIDE DEF batch
<1>8. Out' = Out /\ Hands' = Hands /\ counts' = counts /\ Counted' = Counted
  BY <1>1 DEF Out, Hands, Counted
<1>9. Len(channel') <= QueueCapacity
  BY <1>2, <1>4, <1>s, LogAssumption DEF Typed
<1>10. CASE Len(batch) >= BatchSize
  <2>1. FlushOf(batch) /\ pending' = <<>>
    BY <1>5, <1>10 DEF Receive
  <2>2. /\ writing' \in Seq(Row) /\ Len(writing') = Len(batch) /\ Part(writing', batch)
        /\ InOrder(writing') /\ Grouped(writing')
    BY <1>6, <1>7, <2>1, FlushRows
  <2>3. /\ Precedes(writing', channel') /\ Precedes(stored, writing')
        /\ UpTo(writing', counts.sent)
    <3>1. counts.sent \in Nat
      BY <1>2, Numbers
    <3> QED
      BY <1>6, <1>7, <2>2, <3>1, Parts
  <2>4. pending' \in Seq(Row) /\ Len(pending') = 0 /\ Len(pending') < BatchSize
    BY <2>1, EmptyOrder, LogAssumption
  <2>5. Typed'
    BY <1>1, <1>2, <1>4, <1>8, <1>9, <2>2, <2>4 DEF Typed
  <2>6. In' = In
    <3>1. Len(writing) = 0
      BY <1>1, EmptyOrder
    <3>2. \A a, b \in Nat : (a - 1) + 0 + (b + 1) = a + b + 0
      OBVIOUS
    <3> QED
      BY <1>4, <1>6, <1>s, <2>2, <2>4, <3>1, <3>2 DEF In
  <2>7. Sums'
    BY <1>2, <1>8, <2>6 DEF Sums
  <2>8. Lined'
    BY <1>1, <1>2, <1>4, <1>7, <1>8, <2>1, <2>2, <2>3, EmptyOrder DEF Lined
  <2> QED
    BY <2>5, <2>7, <2>8 DEF LogInv
<1>11. CASE ~(Len(batch) >= BatchSize)
  <2>1. pending' = batch /\ writing' = writing
    BY <1>5, <1>11 DEF Receive
  <2>2. Len(pending') < BatchSize
    BY <1>6, <1>11, <1>s, <2>1, LogAssumption
  <2>3. Typed'
    BY <1>1, <1>2, <1>4, <1>6, <1>8, <1>9, <2>1, <2>2 DEF Typed
  <2>4. In' = In
    <3>1. \A a, b, c \in Nat : (a - 1) + (b + 1) + c = a + b + c
      OBVIOUS
    <3> QED
      BY <1>4, <1>6, <1>s, <2>1, <3>1 DEF In
  <2>5. Sums'
    BY <1>2, <1>8, <2>4 DEF Sums
  <2>6. Lined'
    BY <1>1, <1>2, <1>4, <1>7, <1>8, <2>1, EmptyOrder DEF Lined
  <2> QED
    BY <2>3, <2>5, <2>6 DEF LogInv
<1> QED
  BY <1>10, <1>11

LEMMA DeadlineInv ==
    ASSUME LogInv, Deadline
    PROVE  LogInv'
<1>1. /\ channel = <<>> /\ writing = <<>> /\ FlushOf(pending) /\ pending' = <<>>
      /\ deadline' = FlushInterval
      /\ UNCHANGED <<hand, channel, counts, stored, lost>>
  BY DEF Deadline, Idle
<1>2. Typed /\ Sums /\ Lined
  BY DEF LogInv
<1>s. Len(channel) \in Nat /\ Len(pending) \in Nat
  BY <1>2, Sizes
<1>0. pending \in Seq(Row) /\ counts.sent \in Nat
  BY <1>2, Numbers DEF Typed
<1>3. /\ writing' \in Seq(Row) /\ Len(writing') = Len(pending) /\ Part(writing', pending)
      /\ InOrder(writing') /\ Grouped(writing')
  BY <1>0, <1>1, <1>2, FlushRows DEF Lined
<1>4. Precedes(stored, writing') /\ UpTo(writing', counts.sent)
  BY <1>0, <1>2, <1>3, Parts DEF Lined
<1>5. Out' = Out /\ Hands' = Hands /\ counts' = counts /\ Counted' = Counted
  BY <1>1 DEF Out, Hands, Counted
<1>6. Typed'
  <2>1. deadline' \in 0..FlushInterval /\ Len(<<>>) < BatchSize
    BY <1>1, EmptyOrder, LogAssumption
  <2> QED
    BY <1>1, <1>2, <1>3, <1>5, <2>1, EmptyOrder DEF Typed
<1>7. In' = In
  <2>1. Len(writing) = 0 /\ Len(pending') = 0
    BY <1>1, EmptyOrder
  <2>2. \A a, b \in Nat : a + 0 + b = a + b + 0
    OBVIOUS
  <2> QED
    BY <1>1, <1>3, <1>s, <2>1, <2>2 DEF In
<1>8. Sums'
  BY <1>2, <1>5, <1>7 DEF Sums
<1>9. Lined'
  BY <1>1, <1>2, <1>3, <1>4, <1>5, EmptyOrder DEF Lined
<1> QED
  BY <1>6, <1>8, <1>9 DEF LogInv

\* A statement is behind: its rows are counted as written or as failed, and are
\* in the table or not.
LEMMA SentInv ==
    ASSUME LogInv, NEW k \in DOMAIN writing, Written(k) \/ Failed(k)
    PROVE  LogInv'
<1> DEFINE a == SubSeq(writing, 1, k)
           b == SubSeq(writing, k + 1, Len(writing))
<1>2. Typed /\ Sums /\ Lined
  BY DEF LogInv
<1>n. /\ counts.queued \in Nat /\ counts.sent \in Nat /\ Out \in Nat /\ In \in Nat /\ Hands \in Nat
      /\ counts.written \in Nat /\ counts.failed \in Nat
      /\ counts.dropped \in Nat /\ lost \in Nat
  BY <1>2, Numbers
<1>s. Len(channel) \in Nat /\ Len(pending) \in Nat /\ Len(writing) \in Nat
  BY <1>2, Sizes
<1>0. /\ channel \in Seq(Row) /\ pending \in Seq(Row) /\ writing \in Seq(Row)
      /\ stored \in Seq(Row) /\ counts \in Counts
      /\ k \in 1..Len(writing)
  BY <1>2, <1>s, LenProperties DEF Typed
<1>c. counts \in Counts
  BY <1>0
<1>k. k \in Nat
  BY <1>0, <1>s
<1>1. /\ writing' = b /\ stored' \in {stored, stored \o a}
      /\ counts' \in {[counts EXCEPT !.written = @ + k], [counts EXCEPT !.failed = @ + k]}
      /\ deadline' \in {FlushInterval, deadline}
      /\ UNCHANGED <<hand, channel, pending, lost>>
  BY DEF Written, Failed, Sent
<1>3. /\ a \in Seq(Row) /\ b \in Seq(Row) /\ Len(a) = k /\ Len(b) = Len(writing) - k
      /\ Part(a, writing) /\ Part(b, writing)
      /\ InOrder(a) /\ InOrder(b) /\ Precedes(a, b) /\ Grouped(b)
  BY <1>0, <1>2, Cut DEF Lined
<1> HIDE DEF a, b
<1>4. /\ Precedes(stored, a) /\ Precedes(stored, b)
      /\ Precedes(a, pending) /\ Precedes(a, channel)
      /\ Precedes(b, pending) /\ Precedes(b, channel)
      /\ UpTo(a, counts.sent) /\ UpTo(b, counts.sent)
  BY <1>0, <1>n, <1>2, <1>3, Parts DEF Lined
<1>5. /\ stored \o a \in Seq(Row) /\ InOrder(stored \o a) /\ UpTo(stored \o a, counts.sent)
      /\ Precedes(stored \o a, b) /\ Precedes(stored \o a, pending)
      /\ Precedes(stored \o a, channel)
  BY <1>0, <1>n, <1>2, <1>3, <1>4, Joined DEF Lined
<1>6. /\ counts' \in Counts /\ counts'.queued = counts.queued /\ counts'.sent = counts.sent
      /\ counts'.dropped = counts.dropped
      /\ \/ counts'.written = counts.written + k /\ counts'.failed = counts.failed
         \/ counts'.written = counts.written /\ counts'.failed = counts.failed + k
  BY <1>c, <1>k, <1>1, Counter DEF Counts
<1>7. Out' = Out + k
  <2>1. lost' = lost
    BY <1>1
  <2> QED
    BY <1>k, <1>n, <1>6, <2>1 DEF Out
<1>8. Hands' = Hands /\ Counted' = Counted
  BY <1>1 DEF Hands, Counted
<1>9. In' = In - k
  <2>1. \A c, p, w \in Nat : c + p + (w - k) = c + p + w - k
    BY <1>k
  <2> QED
    BY <1>1, <1>3, <1>s, <2>1 DEF In
<1>10. Typed'
  <2>1. deadline' \in 0..FlushInterval
    BY <1>1, <1>2, LogAssumption DEF Typed
  <2> QED
    BY <1>1, <1>2, <1>3, <1>5, <1>6, <1>8, <2>1 DEF Typed
<1>11. Sums'
  BY <1>k, <1>n, <1>2, <1>6, <1>7, <1>8, <1>9 DEF Sums
<1>12. Lined'
  BY <1>1, <1>2, <1>3, <1>4, <1>5, <1>6 DEF Lined
<1> QED
  BY <1>10, <1>11, <1>12 DEF LogInv

\* What was in the process when it ended is known as lost.
Alive == life # "exited" => lost = 0

\* What a process holds, as one sequence.
LEMMA HeldLen ==
    ASSUME Typed
    PROVE  Len(Held) = In
<1>1. /\ channel \in Seq(Row) /\ pending \in Seq(Row) /\ writing \in Seq(Row)
  BY DEF Typed
<1>2. channel \o pending \in Seq(Row) /\ Len(channel \o pending) = Len(channel) + Len(pending)
  BY <1>1, Joined
<1> QED
  BY <1>1, <1>2, Joined DEF Held, In

LEMMA ExitInv ==
    ASSUME LogInv, Alive, LogExit
    PROVE  LogInv'
<1>1. /\ lost' = Len(Held) + Cardinality(Counted) /\ life # "exited"
      /\ hand' = [r \in Requests |-> NoStatement]
      /\ channel' = <<>> /\ pending' = <<>> /\ writing' = <<>>
      /\ UNCHANGED <<deadline, counts, stored>>
  BY DEF LogExit, Exit
<1>2. Typed /\ Sums /\ Lined
  BY DEF LogInv
<1>n. /\ counts.queued \in Nat /\ counts.sent \in Nat /\ Out \in Nat /\ In \in Nat /\ Hands \in Nat
      /\ counts.written \in Nat /\ counts.failed \in Nat /\ counts.dropped \in Nat
  BY <1>2, Numbers
<1>3. lost' = In + Hands
  BY <1>1, <1>2, HeldLen DEF Hands
<1>4. Out' = Out + (In + Hands)
  BY <1>1, <1>n, <1>3 DEF Out, Alive
<1>5. In' = 0
  BY <1>1, EmptyOrder DEF In
<1>6. IsFiniteSet(Counted') /\ Hands' = 0
  <2>1. Counted' = {}
    BY <1>1 DEF Counted
  <2> QED
    BY <2>1, FS_EmptySet DEF Hands
<1>7. Typed'
  <2>1. lost' \in Nat
    BY <1>n, <1>3
  <2>2. Len(<<>>) <= QueueCapacity /\ Len(<<>>) < BatchSize
    BY EmptyOrder, LogAssumption
  <2> QED
    BY <1>1, <1>2, <1>6, <2>1, <2>2, EmptyOrder DEF Typed
<1>8. Sums'
  BY <1>1, <1>n, <1>2, <1>4, <1>5, <1>6 DEF Sums
<1>9. Lined'
  BY <1>1, <1>2, EmptyOrder DEF Lined
<1> QED
  BY <1>7, <1>8, <1>9 DEF LogInv

\* Steps that move no row: the clock, and the process around the writer.
LEMMA QuietInv ==
    ASSUME LogInv, UNCHANGED <<hand, channel, pending, writing, counts, stored, lost>>,
           deadline' \in 0..FlushInterval
    PROVE  LogInv'
<1>1. Typed /\ Sums /\ Lined
  BY DEF LogInv
<1>2. Out' = Out /\ In' = In /\ Hands' = Hands /\ Counted' = Counted
  BY DEF Out, In, Hands, Counted
<1>3. Typed'
  BY <1>1, <1>2 DEF Typed
<1>4. Sums'
  BY <1>1, <1>2 DEF Sums
<1>5. Lined'
  BY <1>1 DEF Lined
<1> QED
  BY <1>3, <1>4, <1>5 DEF LogInv

LEMMA NextLog == LogInv /\ Alive /\ [LogNext]_<<server, logs>> => LogInv' /\ Alive'
<1> SUFFICES ASSUME LogInv, Alive, [LogNext]_<<server, logs>> PROVE LogInv' /\ Alive'
  OBVIOUS
<1>0. deadline \in 0..FlushInterval
  BY DEF LogInv, Typed
<1>1. ASSUME NEW r \in Requests, LogRequest(r) PROVE LogInv' /\ Alive'
  <2>1. ASSUME NEW s \in Statements, Push(r, s) PROVE LogInv' /\ Alive'
    BY <2>1, PushInv DEF Push, Alive, server
  <2>2. CASE TrySend(r)
    BY <2>2, SendInv DEF TrySend, Alive, server
  <2>3. CASE (Accept(r) \/ Respond(r) \/ TimeOut(r)) /\ UNCHANGED logs
    BY <1>0, <2>3, QuietInv DEF Accept, Respond, TimeOut, Alive, logs
  <2> QED
    BY <1>1, <2>1, <2>2, <2>3 DEF LogRequest
<1>2. CASE Receive
  BY <1>2, ReceiveInv DEF Receive, Alive, server
<1>3. CASE Deadline
  BY <1>3, DeadlineInv DEF Deadline, Alive, server
<1>4. ASSUME NEW k \in DOMAIN writing, Written(k) \/ Failed(k) PROVE LogInv' /\ Alive'
  BY <1>4, SentInv DEF Written, Failed, Sent, Alive, server
<1>5. CASE LogTick
  <2>1. deadline' \in 0..FlushInterval
    BY <1>0, <1>5, LogAssumption DEF LogTick
  <2> QED
    BY <1>5, <2>1, QuietInv DEF LogTick, Alive, server
<1>6. CASE LogExit
  BY <1>6, ExitInv DEF LogExit, Exit, Alive
<1>7. CASE Signal /\ UNCHANGED logs
  BY <1>0, <1>7, QuietInv DEF Signal, Alive, logs
<1>8. CASE UNCHANGED <<server, logs>>
  BY <1>0, <1>8, QuietInv DEF Alive, server, logs
<1> QED
  BY <1>1, <1>2, <1>3, <1>4, <1>5, <1>6, <1>7, <1>8 DEF LogNext, Consumes

LEMMA LogAlways == LogSpec => [](LogInv /\ Alive)
<1>1. LogStart => LogInv /\ Alive
  BY Starts DEF LogStart, LogInit, Alive
<1> QED
  BY <1>1, NextLog, PTL DEF LogSpec

-----------------------------------------------------------------------------
(* Theorems.                                                               *)

\* The channel and the batch stay within their sizes, every counter within what
\* was pushed, and a batch on its way out is grouped by statement.
THEOREM LogTyped == LogSpec => []LogTypeOK
<1>1. LogInv => LogTypeOK
  <2> SUFFICES ASSUME LogInv PROVE LogTypeOK
    OBVIOUS
  <2>1. Typed /\ Sums /\ Lined
    BY DEF LogInv
  <2>2. /\ counts.queued \in Nat /\ counts.written \in Nat /\ counts.failed \in Nat
        /\ counts.dropped \in Nat /\ counts.sent \in Nat /\ lost \in Nat
        /\ Out \in Nat /\ In \in Nat /\ Hands \in Nat /\ MaxRows \in Nat
    BY <2>1, Numbers, LogAssumption
  <2>3. /\ counts.queued <= MaxRows /\ Out <= counts.queued
        /\ counts.sent <= counts.queued
    BY <2>1, <2>2 DEF Sums
  <2>4. /\ counts.written <= MaxRows /\ counts.failed <= MaxRows /\ counts.dropped <= MaxRows
        /\ counts.sent <= MaxRows /\ lost <= MaxRows
    BY <2>2, <2>3 DEF Out
  <2>5. /\ counts \in [queued : 0..MaxRows, written : 0..MaxRows, failed : 0..MaxRows,
                       dropped : 0..MaxRows, sent : 0..MaxRows]
        /\ lost \in 0..MaxRows
    BY <2>1, <2>2, <2>3, <2>4 DEF Typed, Counts
  <2>6. \A i, j, k \in DOMAIN writing :
           i < j /\ j < k /\ writing[i].to = writing[k].to => writing[j].to = writing[k].to
    <3>1. DOMAIN writing = 1..Len(writing)
      BY <2>1, LenProperties DEF Typed
    <3>2. Grouped(writing)
      BY <2>1 DEF Lined
    <3> QED
      BY <3>1, <3>2 DEF Grouped
  <2>7. /\ hand \in [Requests -> Statements \cup {NoStatement}]
        /\ Len(channel) <= QueueCapacity /\ Len(pending) < BatchSize
        /\ deadline \in 0..FlushInterval
    BY <2>1 DEF Typed
  <2> QED
    BY <2>5, <2>6, <2>7, Zenon DEF LogTypeOK
<1> QED
  BY <1>1, LogAlways, PTL

\* Every row that was pushed is on record as written, failed, dropped or lost with
\* the process, or still on its way, whatever the sizes of the channel, the batch
\* and a chunk and whichever chunks fail; and the rows of one statement are in
\* the table in the order they were pushed (log_writer.rs, push, flush).
THEOREM Conserved == LogSpec => []LogConserved
<1>1. LogInv => LogConserved
  <2> SUFFICES ASSUME LogInv PROVE LogConserved
    OBVIOUS
  <2>1. Typed /\ Sums /\ Lined
    BY DEF LogInv
  <2>2. Len(Held) = In
    BY <2>1, HeldLen
  <2> QED
    BY <2>1, <2>2 DEF LogConserved, Sums, Lined, InOrder, Out, Hands
<1> QED
  BY <1>1, LogAlways, PTL
=============================================================================
