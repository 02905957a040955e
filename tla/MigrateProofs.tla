---------------------------- MODULE MigrateProofs ----------------------------
(***************************************************************************)
(* Theorems about `jwc migrate` on a database that deploys share, for      *)
(* every project, any number of deploys, commands, errors and crashes: who *)
(* has the lock, the order in which files are recorded, and what the       *)
(* statements of the files make of the catalog.  The last supposes of each *)
(* file that it does on its own what it is for (FilesFit).                 *)
(***************************************************************************)
EXTENDS Migrate, FiniteSetTheorems, TLAPS

-----------------------------------------------------------------------------
(* The invariant.                                                          *)

\* What the session of a deploy that is gone runs is a file of the project.
OrphanOK == orphan # NoWire => orphan.op \in OnWire /\ orphan.at \in 1..N

\* The records are of the files up to one, in the order they were written.
InOrder == \E k \in 0..N : recorded = 1..k

\* What is on the wire is the file after the last that is recorded, or undoes
\* that one: no record is there already, and none is left out.
InLine(w) == recorded = IF w.op = "undo" THEN 1..w.at ELSE 1..(w.at - 1)
Lines ==
    /\ \A d \in Deploys : pc[d] \in OnWire => InLine(Wire(d))
    /\ orphan # NoWire => InLine(orphan)

\* What a deploy read after it took the lock is still so, but for what it did
\* itself, up to the file it is at.
Applying == {"file", "value", "record", "mark"}
Upward(d) ==
    /\ done[d] \subseteq recorded
    /\ recorded \subseteq done[d] \cup 1..at[d]
    /\ \A f \in 1..cmd[d].checkout : f <= cmd[d].count /\ f <= at[d] => f \in recorded
Below(d) == {f \in done[d] : f < at[d]}
Delivered(d) == \A f \in 1..cmd[d].checkout : f <= cmd[d].count => f \in recorded
Going(d) ==
    /\ pc[d] \in Applying => cmd[d].kind # "down" /\ done[d] \subseteq recorded
    /\ pc[d] = "undo" => cmd[d].kind = "down" /\ Below(d) = 1..(at[d] - 1)
    /\ pc[d] = "next" /\ cmd[d].kind = "down" => recorded = Below(d)
    /\ pc[d] = "next" /\ cmd[d].kind # "down" => Upward(d)
    /\ pc[d] = "ended" /\ cmd[d].kind # "down" => Delivered(d)

MigInv == TypeOK /\ OrphanOK /\ InOrder /\ Lines /\ \A d \in Deploys : Going(d)

-----------------------------------------------------------------------------
(* The least and the greatest of numbers: a family of intervals has one    *)
(* that has no other inside of it.                                         *)

LEMMA Innermost ==
    ASSUME NEW F \in SUBSET FiniteSubsetsOf(Nat), F # {}
    PROVE  \E I \in F : \A J \in F : J \subseteq I => J = I
<1>1. PICK I \in F : \A J \in F : <<J, I>> \notin StrictSubsetOrdering(Nat)
  BY FS_StrictSubsetOrderingWellFounded, WFMin
<1>2. \A J \in F : J \in SUBSET Nat
  BY DEF FiniteSubsetsOf
<1> QED
  BY <1>1, <1>2 DEF StrictSubsetOrdering

LEMMA MinOf ==
    ASSUME NEW S, S \subseteq Nat, S # {}
    PROVE  Min(S) \in S /\ \A y \in S : Min(S) <= y
<1> DEFINE F == {0..x : x \in S}
<1>1. F \in SUBSET FiniteSubsetsOf(Nat)
  <2>1. ASSUME NEW x \in S
        PROVE  0..x \in SUBSET Nat /\ IsFiniteSet(0..x)
    BY FS_Interval
  <2> QED
    BY <2>1 DEF FiniteSubsetsOf
<1>2. F # {}
  OBVIOUS
<1> HIDE DEF F
<1>3. PICK I \in F : \A J \in F : J \subseteq I => J = I
  BY <1>1, <1>2, Innermost
<1> USE DEF F
<1>4. PICK x \in S : I = 0..x
  BY <1>3
<1>5. ASSUME NEW y \in S PROVE x <= y
  <2>1. 0..y \subseteq 0..x => 0..y = 0..x
    BY <1>3, <1>4
  <2>2. x \in Nat /\ y \in Nat
    OBVIOUS
  <2>3. CASE y < x
    <3>1. 0..y \subseteq 0..x /\ x \in 0..x /\ x \notin 0..y
      BY <2>2, <2>3
    <3> QED
      BY <2>1, <3>1
  <2> QED
    BY <2>2, <2>3
<1> QED
  BY <1>5 DEF Min

LEMMA MaxOf ==
    ASSUME NEW n \in Nat, NEW S, S \subseteq 0..n, S # {}
    PROVE  Max(S) \in S /\ \A y \in S : Max(S) >= y
<1> DEFINE F == {x..n : x \in S}
<1>1. F \in SUBSET FiniteSubsetsOf(Nat)
  <2>1. ASSUME NEW x \in S
        PROVE  (x..n) \in SUBSET Nat /\ IsFiniteSet((x..n))
    BY FS_Interval
  <2> QED
    BY <2>1 DEF FiniteSubsetsOf
<1>2. F # {}
  OBVIOUS
<1> HIDE DEF F
<1>3. PICK I \in F : \A J \in F : J \subseteq I => J = I
  BY <1>1, <1>2, Innermost
<1> USE DEF F
<1>4. PICK x \in S : I = x..n
  BY <1>3
<1>5. ASSUME NEW y \in S PROVE x >= y
  <2>1. y..n \subseteq x..n => y..n = x..n
    BY <1>3, <1>4
  <2>2. x \in 0..n /\ y \in 0..n
    OBVIOUS
  <2>3. CASE y > x
    <3>1. y..n \subseteq x..n /\ x \in x..n /\ x \notin y..n
      BY <2>2, <2>3
    <3> QED
      BY <2>1, <3>1
  <2> QED
    BY <2>2, <2>3
<1> QED
  BY <1>5 DEF Max

-----------------------------------------------------------------------------
(* Types.                                                                  *)

Places == {"idle", "lock", "gate", "read", "next", "ended", "failed"} \cup OnWire

LEMMA Project ==
    ASSUME TypeOK
    PROVE  /\ N \in Nat /\ N >= 1 /\ project.commands \subseteq Commands(N)
           /\ project.faults \in Nat /\ MaxRuns \in Nat
BY ProjectsAssumption, BoundsAssumption DEF TypeOK, N, files

LEMMA Command ==
    ASSUME NEW n \in Nat, NEW c \in Commands(n)
    PROVE  c.checkout \in 1..n /\ c.count \in 1..n
BY DEF Commands

LEMMA Ordered ==
    ASSUME TypeOK, NEW d \in Deploys
    PROVE  cmd[d].checkout \in 1..N /\ cmd[d].count \in 1..N
<1>1. cmd[d] \in Commands(N) \cup {NoCommand}
  BY DEF TypeOK
<1>2. CASE cmd[d] \in Commands(N)
  BY <1>2, Command, Project
<1>3. CASE cmd[d] = NoCommand
  BY <1>3, Project DEF NoCommand
<1> QED
  BY <1>1, <1>2, <1>3

\* Where a deploy is, the lock apart.
LEMMA Located ==
    ASSUME TypeOK, NEW d \in Deploys
    PROVE  /\ pc[d] \in Places /\ done[d] \in SUBSET (1..N) /\ at[d] \in 0..(N + 1)
           /\ stmt[d] \in Nat /\ left[d] \in 0..N
           /\ pc[d] \in OnWire => at[d] \in 1..N
           /\ pc[d] \in {"idle", "lock"} <=> lock # d
BY DEF TypeOK, Places

\* Only the deploy that has the lock goes on.
LEMMA Alone ==
    ASSUME MigInv, NEW d \in Deploys, \A e \in Deploys : e # d => pc'[e] \in {"idle", "lock"},
           TypeOK', OrphanOK', InOrder', orphan' # NoWire => InLine(orphan)',
           pc'[d] \in OnWire => InLine(Wire(d))', Going(d)'
    PROVE  MigInv'
<1>1. \A e \in Deploys : e # d => Going(e)'
  BY DEF Going, Applying
<1>2. Lines'
  BY DEF Lines, OnWire
<1> QED
  BY <1>1, <1>2 DEF MigInv

\* A deploy that is, and stays, where nothing is known of it.
LEMMA Apart ==
    ASSUME MigInv, TypeOK', UNCHANGED <<project, recorded, orphan>>, NEW d \in Deploys,
           pc'[d] \in {"idle", "lock", "gate", "read", "failed"},
           \A e \in Deploys : e # d =>
               /\ pc'[e] = pc[e] /\ cmd'[e] = cmd[e] /\ done'[e] = done[e]
               /\ at'[e] = at[e] /\ stmt'[e] = stmt[e]
    PROVE  MigInv'
<1>1. \A e \in Deploys : Going(e)'
  BY DEF MigInv, Going, Applying, Upward, Below, Delivered
<1>2. Lines'
  BY DEF MigInv, Lines, OnWire, InLine, Wire
<1>3. OrphanOK' /\ InOrder'
  BY DEF MigInv, OrphanOK, InOrder, N, files
<1> QED
  BY <1>1, <1>2, <1>3 DEF MigInv

\* The others wait or do nothing while one has the lock.
LEMMA Others ==
    ASSUME TypeOK, NEW d \in Deploys, lock = d
    PROVE  \A e \in Deploys : e # d => pc[e] \in {"idle", "lock"}
BY DEF TypeOK

LEMMA NobodyPast ==
    ASSUME TypeOK, lock \notin Deploys
    PROVE  \A e \in Deploys : pc[e] \in {"idle", "lock"}
BY DEF TypeOK

-----------------------------------------------------------------------------
(* Every step keeps the invariant.                                         *)

LEMMA MigStarts == Init => MigInv
<1> SUFFICES ASSUME Init PROVE MigInv
  OBVIOUS
<1>1. N \in Nat /\ N >= 1 /\ project.faults \in Nat /\ MaxRuns \in Nat
  BY ProjectsAssumption, BoundsAssumption DEF Init, N, files
<1>2. TypeOK
  <2>1. orphan \in [op : OnWire \cup {"none"}, at : 0..N, stmt : Nat]
    BY <1>1 DEF Init, NoWire
  <2>2. /\ pc \in [Deploys -> {"idle", "lock", "gate", "read", "next", "ended", "failed"} \cup OnWire]
        /\ cmd \in [Deploys -> Commands(N) \cup {NoCommand}]
        /\ done \in [Deploys -> SUBSET (1..N)]
        /\ at \in [Deploys -> 0..(N + 1)]
        /\ stmt \in [Deploys -> Nat] /\ left \in [Deploys -> 0..N]
    BY <1>1 DEF Init
  <2>3. \A d \in Deploys : pc[d] = "idle" /\ lock # d
    BY SessionsAssumption DEF Init
  <2>4. orphan = NoWire /\ lock # Orphan
    BY SessionsAssumption DEF Init
  <2>5. \A d \in Deploys : pc[d] \in OnWire => at[d] \in 1..N
    BY <2>3 DEF OnWire
  <2>6. /\ project \in Projects /\ recorded \subseteq 1..N
        /\ lock \in Deploys \cup {Nobody, Orphan}
        /\ runs \in 0..MaxRuns /\ faults \in 0..project.faults
    BY <1>1 DEF Init
  <2>7. apart \in BOOLEAN
    BY Zenon DEF Init
  <2> QED
    BY <2>1, <2>2, <2>3, <2>4, <2>5, <2>6, <2>7 DEF TypeOK
<1>3. \A d \in Deploys : pc[d] = "idle"
  BY DEF Init
<1>4. OrphanOK /\ Lines
  BY <1>3 DEF Init, OrphanOK, Lines, OnWire
<1>5. InOrder
  BY <1>1 DEF Init, InOrder
<1>6. \A d \in Deploys : Going(d)
  BY <1>3 DEF Going, Applying
<1> QED
  BY <1>2, <1>4, <1>5, <1>6 DEF MigInv

LEMMA StartKeeps ==
    ASSUME MigInv, NEW d \in Deploys, NEW c \in project.commands, Start(d, c)
    PROVE  MigInv'
<1>1. TypeOK /\ c \in Commands(N) /\ MaxRuns \in Nat
  BY Project DEF MigInv
<1>2. TypeOK'
  BY <1>1 DEF TypeOK, Start, database, session, N, files, OnWire
<1> QED
  BY <1>1, <1>2, Apart DEF TypeOK, Start, database, session

LEMMA TakeLockKeeps ==
    ASSUME MigInv, NEW d \in Deploys, TakeLock(d)
    PROVE  MigInv'
<1>1. TypeOK
  BY DEF MigInv
<1>2. TypeOK'
  BY <1>1, SessionsAssumption DEF TypeOK, TakeLock, database, deploy, N, files, OnWire
<1> QED
  BY <1>1, <1>2, Apart DEF TypeOK, TakeLock, database, deploy

LEMMA GateKeeps ==
    ASSUME MigInv, NEW d \in Deploys, Gate(d)
    PROVE  MigInv'
<1>1. TypeOK
  BY DEF MigInv
<1>2. /\ pc' \in [Deploys -> Places] /\ pc'[d] \in {"read", "failed"} /\ pc[d] = "gate"
      /\ \A e \in Deploys : e # d => pc'[e] = pc[e]
      /\ UNCHANGED <<project, database, session, deploy, runs, faults>>
  BY <1>1 DEF TypeOK, Gate, Places
<1>3. TypeOK'
  BY <1>1, <1>2 DEF TypeOK, Places, database, session, deploy, N, files, OnWire
<1> QED
  BY <1>1, <1>2, <1>3, Apart DEF database, session, deploy

LEMMA ReadKeeps ==
    ASSUME MigInv, NEW d \in Deploys, Read(d)
    PROVE  MigInv'
<1>1. TypeOK /\ N \in Nat /\ cmd[d].count \in 1..N /\ recorded \subseteq 1..N
  BY Project, Ordered DEF MigInv, TypeOK
<1>2. /\ pc[d] = "read" /\ pc'[d] = "next" /\ done'[d] = recorded
      /\ at'[d] = (IF cmd[d].kind = "down" THEN N + 1 ELSE 0)
      /\ UNCHANGED <<project, database, session, cmd, stmt, runs, faults>>
      /\ \A e \in Deploys : e # d => pc'[e] = pc[e]
  BY <1>1 DEF TypeOK, Read
<1>3. TypeOK'
  <2>1. done' \in [Deploys -> SUBSET (1..N)] /\ at' \in [Deploys -> 0..(N + 1)]
    BY <1>1 DEF TypeOK, Read
  <2>2. left' \in [Deploys -> 0..N]
    BY <1>1 DEF TypeOK, Read
  <2>3. pc' \in [Deploys -> Places]
    BY <1>1 DEF TypeOK, Read, Places
  <2>4. \A e \in Deploys : pc'[e] \in OnWire => at'[e] \in 1..N
    BY <1>1 DEF TypeOK, Read, OnWire
  <2>5. \A e \in Deploys : pc'[e] \in {"idle", "lock"} <=> lock' # e
    BY <1>1, <1>2 DEF TypeOK, session
  <2> QED
    BY <1>1, <1>2, <2>1, <2>2, <2>3, <2>4, <2>5 DEF TypeOK, Places, database, session, N, files
<1>4. lock = d
  BY <1>1, <1>2 DEF TypeOK
<1>5. \A e \in Deploys : e # d => pc'[e] \in {"idle", "lock"}
  BY <1>1, <1>2, <1>4, Others
<1>6. Going(d)'
  <2>1. CASE cmd[d].kind = "down"
    <3>1. recorded' = recorded /\ done'[d] = recorded /\ at'[d] = N + 1
      BY <1>2, <2>1 DEF database
    <3>2. ASSUME NEW f \in recorded PROVE f < N + 1
      <4>1. f \in 1..N
        BY <1>1
      <4>2. N \in Nat
        BY <1>1
      <4> QED
        BY <4>1, <4>2
    <3>3. recorded' = Below(d)'
      BY <3>1, <3>2 DEF Below
    <3> QED
      BY <1>2, <2>1, <3>3 DEF Going, Applying
  <2>2. CASE cmd[d].kind # "down"
    <3>1. Upward(d)'
      BY <1>1, <1>2, <2>2, Ordered DEF Upward, database
    <3> QED
      BY <1>2, <2>2, <3>1 DEF Going, Applying
  <2> QED
    BY <2>1, <2>2
<1>7. OrphanOK' /\ InOrder' /\ (orphan' # NoWire => InLine(orphan)')
  BY <1>2 DEF MigInv, OrphanOK, InOrder, Lines, InLine, database, session, N, files
<1>8. pc'[d] \notin OnWire
  BY <1>2 DEF OnWire
<1> QED
  BY <1>3, <1>5, <1>6, <1>7, <1>8, Alone

LEMMA TakeFileKeeps ==
    ASSUME MigInv, NEW d \in Deploys, TakeFile(d)
    PROVE  MigInv'
<1>1. TypeOK /\ N \in Nat /\ cmd[d].count \in 1..N /\ cmd[d].checkout \in 1..N /\ recorded \subseteq 1..N
  BY Project, Ordered DEF MigInv, TypeOK
<1> DEFINE f == Min(Pending(d))
<1>2. /\ pc[d] = "next" /\ cmd[d].kind # "down" /\ Pending(d) # {}
      /\ at' = [at EXCEPT ![d] = f] /\ stmt' = [stmt EXCEPT ![d] = 1]
      /\ UNCHANGED <<project, database, session, cmd, done, left, runs, faults>>
  BY DEF TakeFile
<1>3. /\ pc' \in [Deploys -> Places] /\ pc'[d] \in Applying
      /\ \A e \in Deploys : e # d => pc'[e] = pc[e]
  BY <1>1 DEF TypeOK, TakeFile, Places, Applying, OnWire
<1>4. f \in Pending(d) /\ \A g \in Pending(d) : f <= g
  <2>1. Pending(d) \subseteq Nat
    BY <1>1 DEF Pending
  <2> QED
    BY <1>2, <2>1, MinOf
<1> HIDE DEF f
<1>5. f \in 1..N /\ f \in 1..cmd[d].checkout /\ f <= cmd[d].count /\ f \notin done[d] /\ f > at[d]
  BY <1>1, <1>4 DEF Pending
<1>6. at'[d] = f /\ at' \in [Deploys -> 0..(N + 1)] /\ stmt' \in [Deploys -> Nat]
      /\ \A e \in Deploys : e # d => at'[e] = at[e]
  BY <1>1, <1>2, <1>5 DEF TypeOK
<1>7. lock = d
  BY <1>1, <1>2 DEF TypeOK
<1>8. TypeOK'
  <2>1. \A e \in Deploys : pc'[e] \in OnWire => at'[e] \in 1..N
    BY <1>1, <1>3, <1>5, <1>6 DEF TypeOK
  <2>2. \A e \in Deploys : pc'[e] \in {"idle", "lock"} <=> lock' # e
    BY <1>1, <1>2, <1>3, <1>7 DEF TypeOK, session, Applying
  <2> QED
    BY <1>1, <1>2, <1>3, <1>6, <2>1, <2>2 DEF TypeOK, Places, database, session, N, files
<1>9. \A e \in Deploys : e # d => pc'[e] \in {"idle", "lock"}
  BY <1>1, <1>3, <1>7, Others
<1>10. Upward(d)
  BY <1>2 DEF MigInv, Going
<1>11. recorded = 1..(f - 1)
  <2>1. PICK k \in 0..N : recorded = 1..k
    BY DEF MigInv, InOrder
  <2>2. at[d] \in 0..(N + 1)
    BY <1>1 DEF TypeOK
  <2>3. f \notin recorded
    BY <1>5, <1>10, <2>2 DEF Upward
  <2>4. f >= k + 1
    BY <2>1, <2>3, <1>1, <1>5
  <2>5. k + 1 \notin recorded
    BY <2>1
  <2>6. k + 1 \in 1..cmd[d].checkout /\ k + 1 <= cmd[d].count
    BY <1>1, <1>5, <2>1, <2>4
  <2>7. k + 1 \notin done[d] /\ k + 1 > at[d]
    BY <1>10, <2>1, <2>2, <2>5, <2>6 DEF Upward
  <2>8. k + 1 \in Pending(d)
    BY <2>6, <2>7 DEF Pending
  <2>9. f = k + 1
    BY <1>4, <1>5, <2>1, <2>4, <2>8, <1>1
  <2> QED
    BY <2>1, <2>9
<1>12. Going(d)' /\ InLine(Wire(d))'
  <2>1. pc'[d] \in Applying /\ pc'[d] \notin {"undo", "next", "ended"}
    BY <1>3 DEF Applying
  <2>2. cmd'[d].kind # "down" /\ done'[d] \subseteq recorded'
    BY <1>2, <1>10 DEF Upward, database
  <2>3. Wire(d)'.op = pc'[d] /\ Wire(d)'.at = f
    BY <1>6 DEF Wire
  <2>4. InLine(Wire(d))'
    BY <1>2, <1>11, <2>1, <2>3 DEF InLine, database
  <2> QED
    BY <2>1, <2>2, <2>4 DEF Going
<1>13. OrphanOK' /\ InOrder' /\ (orphan' # NoWire => InLine(orphan)')
  BY <1>2 DEF MigInv, OrphanOK, InOrder, Lines, InLine, database, session, N, files
<1> QED
  BY <1>8, <1>9, <1>12, <1>13, Alone

LEMMA TakeUndoKeeps ==
    ASSUME MigInv, NEW d \in Deploys, TakeUndo(d)
    PROVE  MigInv'
<1>1. TypeOK /\ N \in Nat /\ recorded \subseteq 1..N
  BY Project DEF MigInv, TypeOK
<1> DEFINE f == Newest(d)
<1>2. /\ pc[d] = "next" /\ cmd[d].kind = "down" /\ left[d] > 0 /\ Below(d) # {}
      /\ at' = [at EXCEPT ![d] = f] /\ left' = [left EXCEPT ![d] = @ - 1]
      /\ UNCHANGED <<project, database, session, cmd, done, stmt, runs, faults>>
  BY DEF TakeUndo, ToUndo, Below
<1>3. /\ pc' \in [Deploys -> Places] /\ pc'[d] \in {"undo", "failed"}
      /\ \A e \in Deploys : e # d => pc'[e] = pc[e]
  BY <1>1 DEF TypeOK, TakeUndo, Places, OnWire
<1>4. f \in Below(d) /\ \A g \in Below(d) : f >= g
  <2>1. Below(d) \subseteq 0..N
    BY <1>1 DEF TypeOK, Below
  <2>2. f = Max(Below(d))
    BY DEF Newest, Below
  <2> HIDE DEF f
  <2> QED
    BY <1>1, <1>2, <2>1, <2>2, MaxOf
<1> HIDE DEF f
<1>5. recorded = Below(d)
  BY <1>2 DEF MigInv, Going
<1>6. f \in 1..N /\ f \in done[d] /\ recorded = 1..f
  <2>1. PICK k \in 0..N : recorded = 1..k
    BY DEF MigInv, InOrder
  <2>2. f \in 1..k /\ \A g \in 1..k : f >= g
    BY <1>4, <1>5, <2>1
  <2>3. f = k
    BY <2>1, <2>2, <1>1
  <2> QED
    BY <1>1, <1>4, <2>1, <2>2, <2>3 DEF Below
<1>7. /\ at'[d] = f /\ at' \in [Deploys -> 0..(N + 1)] /\ left' \in [Deploys -> 0..N]
      /\ \A e \in Deploys : e # d => at'[e] = at[e]
  BY <1>1, <1>2, <1>6 DEF TypeOK
<1>8. lock = d
  BY <1>1, <1>2 DEF TypeOK
<1>9. TypeOK'
  <2>1. \A e \in Deploys : pc'[e] \in OnWire => at'[e] \in 1..N
    BY <1>1, <1>3, <1>6, <1>7 DEF TypeOK
  <2>2. \A e \in Deploys : pc'[e] \in {"idle", "lock"} <=> lock' # e
    BY <1>1, <1>2, <1>3, <1>8 DEF TypeOK, session
  <2> QED
    BY <1>1, <1>2, <1>3, <1>7, <2>1, <2>2 DEF TypeOK, Places, database, session, N, files
<1>10. \A e \in Deploys : e # d => pc'[e] \in {"idle", "lock"}
  BY <1>1, <1>3, <1>8, Others
<1>11. Going(d)'
  <2>1. Below(d)' = 1..(f - 1)
    <3>1. \A g \in 1..f : g \in done[d]
      BY <1>5, <1>6 DEF Below
    <3>2. \A g \in done[d] : g \in 1..N
      BY <1>1 DEF TypeOK
    <3>3. \A g \in done[d] : g < f => g \in 1..(f - 1)
      BY <1>6, <3>2, <1>1
    <3>4. \A g \in 1..(f - 1) : g \in done[d] /\ g < f
      BY <1>6, <3>1, <1>1
    <3> QED
      BY <1>2, <1>7, <3>3, <3>4 DEF Below
  <2> QED
    BY <1>2, <1>3, <1>7, <2>1 DEF Going, Applying
<1>12. pc'[d] \in OnWire => InLine(Wire(d))'
  <2> SUFFICES ASSUME pc'[d] = "undo" PROVE InLine(Wire(d))'
    BY <1>3 DEF OnWire
  <2>1. Wire(d)'.op = "undo" /\ Wire(d)'.at = f
    BY <1>7 DEF Wire
  <2> QED
    BY <1>2, <1>6, <2>1 DEF InLine, database
<1>13. OrphanOK' /\ InOrder' /\ (orphan' # NoWire => InLine(orphan)')
  BY <1>2 DEF MigInv, OrphanOK, InOrder, Lines, InLine, database, session, N, files
<1> QED
  BY <1>9, <1>10, <1>11, <1>12, <1>13, Alone

LEMMA NothingLeftKeeps ==
    ASSUME MigInv, NEW d \in Deploys, NothingLeft(d)
    PROVE  MigInv'
<1>1. TypeOK
  BY DEF MigInv
<1>2. /\ pc[d] = "next" /\ pc'[d] = "ended" /\ pc' \in [Deploys -> Places]
      /\ \A e \in Deploys : e # d => pc'[e] = pc[e]
      /\ UNCHANGED <<project, database, session, deploy, runs, faults>>
  BY <1>1 DEF TypeOK, NothingLeft, Places
<1>3. lock = d
  BY <1>1, <1>2 DEF TypeOK
<1>4. TypeOK'
  BY <1>1, <1>2 DEF TypeOK, Places, database, session, deploy, N, files, OnWire
<1>5. \A e \in Deploys : e # d => pc'[e] \in {"idle", "lock"}
  BY <1>1, <1>2, <1>3, Others
<1>6. cmd[d].kind # "down" => Delivered(d)
  <2> SUFFICES ASSUME cmd[d].kind # "down", NEW f \in 1..cmd[d].checkout, f <= cmd[d].count
               PROVE  f \in recorded
    BY DEF Delivered
  <2>1. Upward(d) /\ f \notin Pending(d)
    BY <1>2 DEF MigInv, Going, NothingLeft
  <2>2. f \in done[d] \/ f <= at[d]
    <3>1. at[d] \in Nat /\ f \in Nat
      BY <1>1, Project, Ordered DEF TypeOK
    <3> QED
      BY <2>1, <3>1 DEF Pending
  <2> QED
    BY <2>1, <2>2 DEF Upward
<1>7. Going(d)'
  BY <1>2, <1>6 DEF Going, Applying, Delivered, database, deploy
<1>8. OrphanOK' /\ InOrder' /\ (orphan' # NoWire => InLine(orphan)')
  BY <1>2 DEF MigInv, OrphanOK, InOrder, Lines, InLine, database, session, N, files
<1>9. pc'[d] \notin OnWire
  BY <1>2 DEF OnWire
<1> QED
  BY <1>4, <1>5, <1>7, <1>8, <1>9, Alone

\* What is on the wire reaches the database: the records stay in order.
LEMMA Recording ==
    ASSUME TypeOK, InOrder, NEW w, w.op \in OnWire, w.at \in 1..N, InLine(w), Executes(w)
    PROVE  /\ \E k \in 0..N : recorded' = 1..k
           /\ recorded' = IF w.op \in Records THEN 1..w.at
                          ELSE IF w.op = "undo" THEN 1..(w.at - 1) ELSE recorded
           /\ recorded' \subseteq 1..N /\ apart' \in BOOLEAN
<1>1. N \in Nat
  BY Project
<1>2. recorded' = Recorded(w)
  BY DEF Executes
<1>3. apart' \in BOOLEAN
  <2>1. (~Matches(db, Shape(recorded'))) \in BOOLEAN
    BY Zenon
  <2>2. apart \in BOOLEAN
    BY DEF TypeOK
  <2>3. apart' = IF w.op = "mark" THEN ~Matches(db, Shape(recorded')) ELSE apart
    BY Zenon DEF Executes
  <2> QED
    BY <2>1, <2>2, <2>3
<1>4. CASE w.op \in Records
  <2>1. recorded = 1..(w.at - 1)
    BY <1>4 DEF InLine, Records
  <2>2. recorded' = recorded \cup {w.at}
    BY <1>2, <1>4 DEF Recorded
  <2>3. 1..(w.at - 1) \cup {w.at} = 1..w.at
    BY <1>1
  <2>4. recorded' = 1..w.at
    BY <2>1, <2>2, <2>3
  <2> QED
    BY <1>1, <1>3, <1>4, <2>4
<1>5. CASE w.op = "undo"
  <2>1. recorded = 1..w.at /\ w.op \notin Records
    BY <1>5 DEF InLine, Records
  <2>2. recorded' = recorded \ {w.at}
    BY <1>2, <1>5, <2>1 DEF Recorded
  <2>3. 1..w.at \ {w.at} = 1..(w.at - 1)
    BY <1>1
  <2>4. recorded' = 1..(w.at - 1) /\ w.at - 1 \in 0..N
    BY <1>1, <2>1, <2>2, <2>3
  <2> QED
    BY <1>1, <1>3, <1>5, <2>1, <2>4
<1>6. CASE w.op \notin Records /\ w.op # "undo"
  <2>1. recorded' = recorded
    BY <1>2, <1>6 DEF Recorded
  <2> QED
    BY <1>3, <1>6, <2>1 DEF InOrder, TypeOK
<1> QED
  BY <1>4, <1>5, <1>6

LEMMA DoneKeeps ==
    ASSUME MigInv, NEW d \in Deploys, Done(d)
    PROVE  MigInv'
<1>1. TypeOK /\ N \in Nat /\ at[d] \in 1..N /\ pc[d] \in OnWire /\ lock = d
  BY Project DEF MigInv, TypeOK, Done, OnWire
<1>2. /\ UNCHANGED <<project, session, cmd, done, at, left, runs, faults>>
      /\ Executes(Wire(d))
  BY DEF Done
<1>3. /\ pc' \in [Deploys -> Places]
      /\ \A e \in Deploys : e # d => pc'[e] = pc[e]
      /\ pc'[d] = IF MoreValues(d) THEN "value" ELSE IF pc[d] = "value" THEN "record" ELSE "next"
  BY <1>1 DEF TypeOK, Done, Places, OnWire
<1>4. Wire(d).op = pc[d] /\ Wire(d).at = at[d]
  BY DEF Wire
<1>5. InLine(Wire(d))
  BY <1>1 DEF MigInv, Lines
<1>6. /\ \E k \in 0..N : recorded' = 1..k
      /\ recorded' = (IF pc[d] \in Records THEN 1..at[d]
                      ELSE IF pc[d] = "undo" THEN 1..(at[d] - 1) ELSE recorded)
      /\ recorded' \subseteq 1..N /\ apart' \in BOOLEAN
  BY <1>1, <1>2, <1>4, <1>5, Recording DEF MigInv
<1>7. stmt' \in [Deploys -> Nat]
  BY <1>1 DEF TypeOK, Done
<1>8. TypeOK'
  <2>1. \A e \in Deploys : pc'[e] \in OnWire => at'[e] \in 1..N
    BY <1>1, <1>2, <1>3 DEF TypeOK
  <2>2. \A e \in Deploys : pc'[e] \in {"idle", "lock"} <=> lock' # e
    BY <1>1, <1>2, <1>3 DEF TypeOK, session
  <2> QED
    BY <1>1, <1>2, <1>3, <1>6, <1>7, <2>1, <2>2 DEF TypeOK, Places, session, N, files
<1>9. \A e \in Deploys : e # d => pc'[e] \in {"idle", "lock"}
  BY <1>1, <1>3, Others
<1>10. OrphanOK' /\ InOrder' /\ (orphan' # NoWire => InLine(orphan)')
  <2>1. orphan = NoWire /\ orphan' = orphan
    BY <1>1, <1>2, SessionsAssumption DEF TypeOK, session
  <2> QED
    BY <1>2, <1>6, <2>1 DEF OrphanOK, InOrder, N, files
<1>11. Going(d)
  BY DEF MigInv
<1>12. CASE pc[d] = "value"
  <2>1. recorded' = recorded /\ recorded = 1..(at[d] - 1)
    BY <1>4, <1>5, <1>6, <1>12 DEF Records, InLine
  <2>2. pc'[d] \in {"value", "record"}
    BY <1>3, <1>12
  <2>3. cmd[d].kind # "down" /\ done[d] \subseteq recorded
    BY <1>11, <1>12 DEF Going, Applying
  <2>4. Going(d)'
    BY <1>2, <2>1, <2>2, <2>3 DEF Going, Applying
  <2>5. InLine(Wire(d))'
    BY <1>2, <2>1, <2>2 DEF InLine, Wire
  <2> QED
    BY <1>8, <1>9, <1>10, <2>4, <2>5, Alone
<1>13. CASE pc[d] \in Records
  <2>1. pc'[d] = "next" /\ recorded' = 1..at[d] /\ recorded = 1..(at[d] - 1)
    BY <1>3, <1>4, <1>5, <1>6, <1>13 DEF Records, InLine, MoreValues
  <2>2. cmd[d].kind # "down" /\ done[d] \subseteq recorded
    BY <1>11, <1>13 DEF Going, Applying, Records
  <2>3. recorded \subseteq 1..at[d]
    BY <1>1, <2>1
  <2>4. Upward(d)'
    <3>1. cmd[d].checkout \in Nat
      BY <1>1, Ordered
    <3>2. \A f \in 1..cmd[d].checkout : f <= at[d] => f \in 1..at[d]
      BY <1>1, <3>1
    <3> QED
      BY <1>2, <2>1, <2>2, <2>3, <3>2 DEF Upward
  <2>5. Going(d)' /\ pc'[d] \notin OnWire
    BY <1>2, <2>1, <2>2, <2>4 DEF Going, Applying, OnWire
  <2> QED
    BY <1>8, <1>9, <1>10, <2>5, Alone
<1>14. CASE pc[d] = "undo"
  <2>1. pc'[d] = "next" /\ recorded' = 1..(at[d] - 1)
    BY <1>3, <1>6, <1>14 DEF Records, MoreValues
  <2>2. cmd[d].kind = "down" /\ Below(d) = 1..(at[d] - 1)
    BY <1>11, <1>14 DEF Going
  <2>3. Going(d)' /\ pc'[d] \notin OnWire
    BY <1>2, <2>1, <2>2 DEF Going, Below, Applying, OnWire
  <2> QED
    BY <1>8, <1>9, <1>10, <2>3, Alone
<1> QED
  BY <1>1, <1>12, <1>13, <1>14 DEF OnWire, Records

LEMMA RefusedKeeps ==
    ASSUME MigInv, NEW d \in Deploys, Refused(d) \/ Fails(d)
    PROVE  MigInv'
<1>1. TypeOK /\ project.faults \in Nat
  BY Project DEF MigInv
<1>2. /\ pc[d] \in OnWire /\ pc' \in [Deploys -> Places] /\ pc'[d] = "failed"
      /\ \A e \in Deploys : e # d => pc'[e] = pc[e]
      /\ UNCHANGED <<project, database, session, deploy, runs>>
  BY <1>1 DEF TypeOK, Refused, Fails, Places
<1>3. faults' \in 0..project.faults
  BY <1>1 DEF TypeOK, Refused, Fails
<1>4. TypeOK'
  BY <1>1, <1>2, <1>3 DEF TypeOK, Places, database, session, deploy, N, files, OnWire
<1> QED
  BY <1>1, <1>2, <1>4, Apart DEF database, session, deploy

LEMMA Forgotten ==
    ASSUME TypeOK, NEW d \in Deploys, Forget(d), UNCHANGED project
    PROVE  /\ pc' \in [Deploys -> Places] /\ cmd' \in [Deploys -> Commands(N) \cup {NoCommand}]
           /\ done' \in [Deploys -> SUBSET (1..N)] /\ at' \in [Deploys -> 0..(N + 1)]
           /\ stmt' \in [Deploys -> Nat] /\ left' \in [Deploys -> 0..N]
           /\ pc'[d] = "idle" /\ N' = N
           /\ \A e \in Deploys : e # d =>
                 /\ pc'[e] = pc[e] /\ cmd'[e] = cmd[e] /\ done'[e] = done[e]
                 /\ at'[e] = at[e] /\ stmt'[e] = stmt[e]
<1>1. N \in Nat /\ N' = N
  BY Project DEF N, files
<1>2. pc' \in [Deploys -> Places] /\ pc'[d] = "idle"
  BY DEF TypeOK, Forget, Places
<1>3. cmd' \in [Deploys -> Commands(N) \cup {NoCommand}] /\ done' \in [Deploys -> SUBSET (1..N)]
  BY DEF TypeOK, Forget
<1>4. at' \in [Deploys -> 0..(N + 1)] /\ stmt' \in [Deploys -> Nat] /\ left' \in [Deploys -> 0..N]
  BY <1>1 DEF TypeOK, Forget
<1>5. \A e \in Deploys : e # d =>
         /\ pc'[e] = pc[e] /\ cmd'[e] = cmd[e] /\ done'[e] = done[e]
         /\ at'[e] = at[e] /\ stmt'[e] = stmt[e]
  BY DEF TypeOK, Forget
<1> QED
  BY <1>1, <1>2, <1>3, <1>4, <1>5

LEMMA ReleaseKeeps ==
    ASSUME MigInv, NEW d \in Deploys, Release(d)
    PROVE  MigInv'
<1>1. TypeOK /\ lock = d
  BY DEF MigInv, TypeOK, Release, OnWire
<1>2. Forget(d) /\ lock' = Nobody /\ UNCHANGED <<project, database, orphan, runs, faults>>
  BY DEF Release
<1>3. TypeOK'
  <2>1. \A e \in Deploys : pc'[e] \in {"idle", "lock"} /\ lock' # e
    BY <1>1, <1>2, Others, Forgotten, SessionsAssumption
  <2>2. \A e \in Deploys : pc'[e] \in OnWire => at'[e] \in 1..N
    BY <2>1 DEF OnWire
  <2>3. orphan' # NoWire <=> lock' = Orphan
    BY <1>1, <1>2, SessionsAssumption DEF TypeOK
  <2> QED
    BY <1>1, <1>2, <2>1, <2>2, <2>3, Forgotten DEF TypeOK, Places, database
<1> QED
  BY <1>1, <1>2, <1>3, Forgotten, Apart DEF database

LEMMA CrashKeeps ==
    ASSUME MigInv, NEW d \in Deploys, Crash(d)
    PROVE  MigInv'
<1>1. TypeOK /\ project.faults \in Nat /\ N \in Nat
  BY Project DEF MigInv
<1>2. Forget(d) /\ faults' = faults + 1 /\ UNCHANGED <<project, database, runs>>
  BY DEF Crash
<1>3. faults' \in 0..project.faults
  BY <1>1 DEF TypeOK, Crash
<1>4. CASE pc[d] \in OnWire
  <2>1. lock' = Orphan /\ orphan' = Wire(d) /\ lock = d
    BY <1>1, <1>4 DEF Crash, TypeOK, OnWire
  <2>2. /\ Wire(d) \in [op : OnWire \cup {"none"}, at : 0..N, stmt : Nat]
        /\ Wire(d).op \in OnWire /\ Wire(d).at \in 1..N /\ Wire(d) # NoWire
    <3>1. at[d] \in 1..N /\ stmt[d] \in Nat
      BY <1>1, <1>4 DEF TypeOK
    <3>2. Wire(d).op = pc[d] /\ NoWire.op = "none" /\ "none" \notin OnWire
      BY DEF Wire, NoWire, OnWire
    <3> QED
      BY <1>1, <1>4, <3>1, <3>2 DEF Wire
  <2>3. \A e \in Deploys : pc'[e] \in {"idle", "lock"} /\ lock' # e
    BY <1>1, <1>2, <2>1, Others, Forgotten, SessionsAssumption
  <2>4. TypeOK'
    <3>1. \A e \in Deploys : pc'[e] \in OnWire => at'[e] \in 1..N
      BY <2>3 DEF OnWire
    <3> QED
      BY <1>1, <1>2, <1>3, <2>1, <2>2, <2>3, <3>1, Forgotten DEF TypeOK, Places, database
  <2>5. OrphanOK'
    BY <1>1, <1>2, <2>1, <2>2, Forgotten DEF OrphanOK
  <2>6. InLine(orphan)'
    BY <1>2, <1>4, <2>1 DEF MigInv, Lines, InLine, database
  <2>7. InOrder'
    BY <1>1, <1>2, Forgotten DEF MigInv, InOrder, database
  <2>8. Going(d)' /\ pc'[d] \notin OnWire
    BY <1>1, <1>2, Forgotten DEF Going, Applying, OnWire
  <2> QED
    BY <2>3, <2>4, <2>5, <2>6, <2>7, <2>8, Alone
<1>5. CASE pc[d] \notin OnWire
  <2>1. lock' = (IF lock = d THEN Nobody ELSE lock) /\ UNCHANGED orphan
    BY <1>5 DEF Crash
  <2>2. TypeOK'
    <3>1. \A e \in Deploys : pc'[e] \in OnWire => at'[e] \in 1..N
      BY <1>1, <1>2, Forgotten DEF TypeOK, OnWire
    <3>2. \A e \in Deploys : pc'[e] \in {"idle", "lock"} <=> lock' # e
      BY <1>1, <1>2, <2>1, Forgotten, SessionsAssumption DEF TypeOK
    <3>3. orphan' # NoWire <=> lock' = Orphan
      BY <1>1, <2>1, SessionsAssumption DEF TypeOK
    <3>4. lock' \in Deploys \cup {Nobody, Orphan}
      BY <1>1, <2>1 DEF TypeOK
    <3> QED
      BY <1>1, <1>2, <1>3, <2>1, <3>1, <3>2, <3>3, <3>4, Forgotten DEF TypeOK, Places, database
  <2> QED
    BY <1>1, <1>2, <2>1, <2>2, Forgotten, Apart DEF database
<1> QED
  BY <1>4, <1>5

LEMMA OrphanKeeps ==
    ASSUME MigInv, OrphanEnds
    PROVE  MigInv'
<1>1. TypeOK /\ lock = Orphan /\ orphan.op \in OnWire /\ orphan.at \in 1..N /\ N \in Nat
  BY Project DEF MigInv, TypeOK, OrphanEnds, OrphanOK
<1>2. orphan' = NoWire /\ lock' = Nobody /\ UNCHANGED <<project, pc, deploy, runs, faults>>
  BY DEF OrphanEnds
<1>3. (\E k \in 0..N : recorded' = 1..k) /\ recorded' \subseteq 1..N /\ apart' \in BOOLEAN
  <2>1. CASE Executes(orphan)
    BY <1>1, <2>1, Recording DEF MigInv, Lines, OrphanEnds
  <2>2. CASE UNCHANGED database
    BY <1>1, <2>2 DEF MigInv, InOrder, TypeOK, database
  <2> QED
    BY <2>1, <2>2 DEF OrphanEnds
<1>4. N' = N
  BY <1>2 DEF N, files
<1>5. \A e \in Deploys : pc'[e] \in {"idle", "lock"} /\ lock' # e
  BY <1>1, <1>2, NobodyPast, SessionsAssumption
<1>6. TypeOK'
  <2>1. \A e \in Deploys : pc'[e] \in OnWire => at'[e] \in 1..N
    BY <1>5 DEF OnWire
  <2>2. NoWire \in [op : OnWire \cup {"none"}, at : 0..N, stmt : Nat]
    BY <1>1 DEF NoWire
  <2> QED
    BY <1>1, <1>2, <1>3, <1>4, <1>5, <2>1, <2>2, SessionsAssumption DEF TypeOK, deploy
<1>7. Lines' /\ OrphanOK'
  BY <1>2, <1>5 DEF Lines, OrphanOK, OnWire
<1>8. InOrder'
  BY <1>3, <1>4 DEF InOrder
<1>9. \A e \in Deploys : Going(e)'
  BY <1>5 DEF Going, Applying
<1> QED
  BY <1>6, <1>7, <1>8, <1>9 DEF MigInv

LEMMA MigSteps == MigInv /\ [Next]_vars => MigInv'
<1> SUFFICES ASSUME MigInv, [Next]_vars PROVE MigInv'
  OBVIOUS
<1>1. CASE UNCHANGED vars
  BY <1>1 DEF vars, database, session, deploy, MigInv, TypeOK, OrphanOK, InOrder, Lines, InLine,
              Wire, Going, Upward, Below, Delivered, N, files
<1>2. ASSUME NEW d \in Deploys, NEW c \in project.commands, Start(d, c) PROVE MigInv'
  BY <1>2, StartKeeps
<1>3. ASSUME NEW d \in Deploys, TakeLock(d) PROVE MigInv'
  BY <1>3, TakeLockKeeps
<1>4. ASSUME NEW d \in Deploys, Gate(d) PROVE MigInv'
  BY <1>4, GateKeeps
<1>5. ASSUME NEW d \in Deploys, Read(d) PROVE MigInv'
  BY <1>5, ReadKeeps
<1>6. ASSUME NEW d \in Deploys, TakeFile(d) PROVE MigInv'
  BY <1>6, TakeFileKeeps
<1>7. ASSUME NEW d \in Deploys, TakeUndo(d) PROVE MigInv'
  BY <1>7, TakeUndoKeeps
<1>8. ASSUME NEW d \in Deploys, NothingLeft(d) PROVE MigInv'
  BY <1>8, NothingLeftKeeps
<1>9. ASSUME NEW d \in Deploys, Done(d) PROVE MigInv'
  BY <1>9, DoneKeeps
<1>10. ASSUME NEW d \in Deploys, Refused(d) \/ Fails(d) PROVE MigInv'
  BY <1>10, RefusedKeeps
<1>11. ASSUME NEW d \in Deploys, Release(d) PROVE MigInv'
  BY <1>11, ReleaseKeeps
<1>12. ASSUME NEW d \in Deploys, Crash(d) PROVE MigInv'
  BY <1>12, CrashKeeps
<1>13. CASE OrphanEnds
  BY <1>13, OrphanKeeps
<1> QED
  BY <1>1, <1>2, <1>3, <1>4, <1>5, <1>6, <1>7, <1>8, <1>9, <1>10, <1>11, <1>12, <1>13
     DEF Next, Proceeds

LEMMA MigAlways == Spec => []MigInv
<1> QED
  BY MigStarts, MigSteps, PTL DEF Spec

-----------------------------------------------------------------------------
(* What a statement makes of a database and of the schema it follows: a type *)
(* or a value of a type is never taken away, so that a database may have   *)
(* more of them than the schema whose shape it has.                        *)

\* Two catalogs that differ in their types and in what is in the tables, at most;
\* a database that has the types of a schema and maybe more; and one that has
\* the shape of a schema.
Alike(c, a) ==
    /\ c.tables = a.tables /\ c.cons = a.cons /\ c.ixs = a.ixs /\ c.fns = a.fns
    /\ c.trgs = a.trgs /\ c.views = a.views
Grown(c, a) == \A e \in DOMAIN a.enums : e \in DOMAIN c.enums /\ a.enums[e] \subseteq c.enums[e]
Follows(c, a) == IsCatalog(c) /\ IsCatalog(a) /\ Alike(c, a) /\ Grown(c, a)

\* What a statement that is not about a type leaves of that: x is made of c as
\* y is of a.  And the parts of a catalog, by name.
Kept(c, a, x, y) ==
    /\ IsCatalog(x) /\ IsCatalog(y) /\ Alike(x, y)
    /\ x.enums = c.enums /\ y.enums = a.enums /\ (c.rows = a.rows => x.rows = y.rows)
Holds(y, T, K, I, F, G, V, E, R) ==
    /\ IsCatalog(y) /\ y.tables = T /\ y.cons = K /\ y.ixs = I /\ y.fns = F
    /\ y.trgs = G /\ y.views = V /\ y.enums = E /\ y.rows = R

LEMMA Constrained ==
    ASSUME NEW c, IsCatalog(c), NEW a, IsCatalog(a), Alike(c, a),
           NEW s, s.op \in {"AddConstraint", "RenameConstraint", "DropConstraint"}
    PROVE  Kept(c, a, After(c, s), After(a, s))
<1> DEFINE K(x) == IF s.op = "AddConstraint" THEN x.cons \cup {s.con}
                   ELSE IF s.op = "RenameConstraint"
                   THEN Renamed(x.cons, {k \in x.cons : <<k.table, k.name>> = <<s.table, s.from>>}, s.name)
                   ELSE {k \in x.cons : <<k.table, k.name>> # <<s.table, s.name>>}
<1>1. ASSUME NEW x, IsCatalog(x)
      PROVE  Holds(After(x, s), x.tables, K(x), x.ixs, x.fns, x.trgs, x.views, x.enums, x.rows)
  <2>1. After(x, s) = [x EXCEPT !.cons = K(x)]
    BY DEF After
  <2> HIDE DEF K
  <2> QED
    BY ONLY <1>1, <2>1 DEF Holds, IsCatalog, Fields
<1>2. K(c) = K(a)
  BY DEF Alike
<1> HIDE DEF K
<1> QED
  BY <1>1, <1>2 DEF Holds, Alike, Kept

LEMMA Indexed ==
    ASSUME NEW c, IsCatalog(c), NEW a, IsCatalog(a), Alike(c, a),
           NEW s, s.op \in {"CreateIndex", "RenameIndex", "DropIndex"}
    PROVE  Kept(c, a, After(c, s), After(a, s))
<1> DEFINE I(x) == IF s.op = "CreateIndex" THEN x.ixs \cup {s.ix}
                   ELSE IF s.op = "RenameIndex"
                   THEN Renamed(x.ixs, {i \in x.ixs : i.name = s.from}, s.name)
                   ELSE {i \in x.ixs : i.name # s.name}
<1>1. ASSUME NEW x, IsCatalog(x)
      PROVE  Holds(After(x, s), x.tables, x.cons, I(x), x.fns, x.trgs, x.views, x.enums, x.rows)
  <2>1. After(x, s) = [x EXCEPT !.ixs = I(x)]
    BY DEF After
  <2> HIDE DEF I
  <2> QED
    BY ONLY <1>1, <2>1 DEF Holds, IsCatalog, Fields
<1>2. I(c) = I(a)
  BY DEF Alike
<1> HIDE DEF I
<1> QED
  BY <1>1, <1>2 DEF Holds, Alike, Kept

LEMMA Touching ==
    ASSUME NEW c, IsCatalog(c), NEW a, IsCatalog(a), Alike(c, a),
           NEW s, s.op \in {"CreateFunction", "DropFunction"}
    PROVE  Kept(c, a, After(c, s), After(a, s))
<1> DEFINE F(x) == IF s.op = "CreateFunction" THEN x.fns \cup {s.name} ELSE x.fns \ {s.name}
<1>1. ASSUME NEW x, IsCatalog(x)
      PROVE  Holds(After(x, s), x.tables, x.cons, x.ixs, F(x), x.trgs, x.views, x.enums, x.rows)
  <2>1. After(x, s) = [x EXCEPT !.fns = F(x)]
    BY DEF After
  <2> HIDE DEF F
  <2> QED
    BY ONLY <1>1, <2>1 DEF Holds, IsCatalog, Fields
<1>2. F(c) = F(a)
  BY DEF Alike
<1> HIDE DEF F
<1> QED
  BY <1>1, <1>2 DEF Holds, Alike, Kept

LEMMA Triggered ==
    ASSUME NEW c, IsCatalog(c), NEW a, IsCatalog(a), Alike(c, a),
           NEW s, s.op \in {"CreateTrigger", "DropTrigger"}
    PROVE  Kept(c, a, After(c, s), After(a, s))
<1> DEFINE G(x) == IF s.op = "CreateTrigger" THEN x.trgs \cup {[table |-> s.table, name |-> s.name]}
                   ELSE x.trgs \ {[table |-> s.table, name |-> s.name]}
<1>1. ASSUME NEW x, IsCatalog(x)
      PROVE  Holds(After(x, s), x.tables, x.cons, x.ixs, x.fns, G(x), x.views, x.enums, x.rows)
  <2>1. After(x, s) = [x EXCEPT !.trgs = G(x)]
    BY DEF After
  <2> HIDE DEF G
  <2> QED
    BY ONLY <1>1, <2>1 DEF Holds, IsCatalog, Fields
<1>2. G(c) = G(a)
  BY DEF Alike
<1> HIDE DEF G
<1> QED
  BY <1>1, <1>2 DEF Holds, Alike, Kept

LEMMA Viewing ==
    ASSUME NEW c, IsCatalog(c), NEW a, IsCatalog(a), Alike(c, a),
           NEW s, s.op \in {"CreateView", "DropView"}
    PROVE  Kept(c, a, After(c, s), After(a, s))
<1> DEFINE V(x) == IF s.op = "CreateView" THEN With(x.views, s.view, s.reads) ELSE Without(x.views, {s.view})
<1>1. ASSUME NEW x, IsCatalog(x)
      PROVE  Holds(After(x, s), x.tables, x.cons, x.ixs, x.fns, x.trgs, V(x), x.enums, x.rows)
  <2>1. After(x, s) = [x EXCEPT !.views = V(x)]
    BY DEF After
  <2> HIDE DEF V
  <2> QED
    BY ONLY <1>1, <2>1 DEF Holds, IsCatalog, Fields
<1>2. V(c) = V(a)
  BY DEF Alike
<1> HIDE DEF V
<1> QED
  BY <1>1, <1>2 DEF Holds, Alike, Kept

LEMMA TableCreated ==
    ASSUME NEW c, IsCatalog(c), NEW a, IsCatalog(a), Alike(c, a),
           NEW s, s.op = "CreateTable"
    PROVE  Kept(c, a, After(c, s), After(a, s))
<1> DEFINE T(x) == With(x.tables, s.table, s.cols)
           K(x) == x.cons \cup s.keys
<1>1. ASSUME NEW x, IsCatalog(x)
      PROVE  Holds(After(x, s), T(x), K(x), x.ixs, x.fns, x.trgs, x.views, x.enums, x.rows)
  <2>1. After(x, s) = [x EXCEPT !.tables = T(x), !.cons = K(x)]
    BY DEF After
  <2> HIDE DEF T, K
  <2> QED
    BY ONLY <1>1, <2>1 DEF Holds, IsCatalog, Fields
<1>2. T(c) = T(a) /\ K(c) = K(a)
  BY DEF Alike
<1> HIDE DEF T, K
<1> QED
  BY <1>1, <1>2 DEF Holds, Alike, Kept

LEMMA Columned ==
    ASSUME NEW c, IsCatalog(c), NEW a, IsCatalog(a), Alike(c, a),
           NEW s, s.op \in {"AddColumn", "AlterColumnType"}
    PROVE  Kept(c, a, After(c, s), After(a, s))
<1> DEFINE T(x) == [x.tables EXCEPT ![s.table] = With(@, s.col, s.type)]
<1>1. ASSUME NEW x, IsCatalog(x)
      PROVE  Holds(After(x, s), T(x), x.cons, x.ixs, x.fns, x.trgs, x.views, x.enums, x.rows)
  <2>1. After(x, s) = [x EXCEPT !.tables = T(x)]
    BY DEF After
  <2> HIDE DEF T
  <2> QED
    BY ONLY <1>1, <2>1 DEF Holds, IsCatalog, Fields
<1>2. T(c) = T(a)
  BY DEF Alike
<1> HIDE DEF T
<1> QED
  BY <1>1, <1>2 DEF Holds, Alike, Kept

LEMMA TableDropped ==
    ASSUME NEW c, IsCatalog(c), NEW a, IsCatalog(a), Alike(c, a),
           NEW s, s.op = "DropTable"
    PROVE  Kept(c, a, After(c, s), After(a, s))
<1> DEFINE T(x) == Without(x.tables, {s.table})
           K(x) == {k \in x.cons : k.table # s.table}
           I(x) == {i \in x.ixs : i.table # s.table}
           G(x) == {g \in x.trgs : g.table # s.table}
           R(x) == {r \in x.rows : r[1] # s.table}
<1>1. ASSUME NEW x, IsCatalog(x)
      PROVE  Holds(After(x, s), T(x), K(x), I(x), x.fns, G(x), x.views, x.enums, R(x))
  <2>1. After(x, s) = [x EXCEPT !.tables = T(x), !.cons = K(x), !.ixs = I(x), !.trgs = G(x), !.rows = R(x)]
    BY DEF After
  <2> HIDE DEF T, K, I, G, R
  <2> QED
    BY ONLY <1>1, <2>1 DEF Holds, IsCatalog, Fields
<1>2. T(c) = T(a) /\ K(c) = K(a) /\ I(c) = I(a) /\ G(c) = G(a) /\ (c.rows = a.rows => R(c) = R(a))
  BY DEF Alike
<1> HIDE DEF T, K, I, G, R
<1> QED
  BY <1>1, <1>2 DEF Holds, Alike, Kept

LEMMA ColumnDropped ==
    ASSUME NEW c, IsCatalog(c), NEW a, IsCatalog(a), Alike(c, a),
           NEW s, s.op = "DropColumn"
    PROVE  Kept(c, a, After(c, s), After(a, s))
<1> DEFINE T(x) == [x.tables EXCEPT ![s.table] = Without(@, {s.col})]
           K(x) == {k \in x.cons : <<k.table, k.col>> # <<s.table, s.col>>}
           I(x) == {i \in x.ixs : <<i.table, i.col>> # <<s.table, s.col>>}
           R(x) == x.rows \ {<<s.table, s.col>>}
<1>1. ASSUME NEW x, IsCatalog(x)
      PROVE  Holds(After(x, s), T(x), K(x), I(x), x.fns, x.trgs, x.views, x.enums, R(x))
  <2>1. After(x, s) = [x EXCEPT !.tables = T(x), !.cons = K(x), !.ixs = I(x), !.rows = R(x)]
    BY DEF After
  <2> HIDE DEF T, K, I, R
  <2> QED
    BY ONLY <1>1, <2>1 DEF Holds, IsCatalog, Fields
<1>2. T(c) = T(a) /\ K(c) = K(a) /\ I(c) = I(a) /\ (c.rows = a.rows => R(c) = R(a))
  BY DEF Alike
<1> HIDE DEF T, K, I, R
<1> QED
  BY <1>1, <1>2 DEF Holds, Alike, Kept

LEMMA TableRenamed ==
    ASSUME NEW c, IsCatalog(c), NEW a, IsCatalog(a), Alike(c, a),
           NEW s, s.op = "RenameTable"
    PROVE  Kept(c, a, After(c, s), After(a, s))
<1> DEFINE Name(t) == IF t = s.from THEN s.table ELSE t
           Col(r) == <<Name(r[1]), r[2]>>
           T(x) == Moved(x.tables, s.from, s.table)
           K(x) == {[k EXCEPT !.table = Name(k.table), !.ref = Col(k.ref)] : k \in x.cons}
           I(x) == {[i EXCEPT !.table = Name(i.table)] : i \in x.ixs}
           G(x) == {[g EXCEPT !.table = Name(g.table)] : g \in x.trgs}
           V(x) == [v \in DOMAIN x.views |-> [x.views[v] EXCEPT !.cols = {Col(r) : r \in x.views[v].cols}]]
           R(x) == {Col(r) : r \in x.rows}
<1>1. ASSUME NEW x, IsCatalog(x)
      PROVE  Holds(After(x, s), T(x), K(x), I(x), x.fns, G(x), V(x), x.enums, R(x))
  <2>1. After(x, s) = [[x EXCEPT !.cons = K(x), !.ixs = I(x), !.trgs = G(x), !.views = V(x),
                             !.rows = R(x)] EXCEPT !.tables = T(x)]
    BY DEF After, OnTables
  <2> HIDE DEF T, K, I, G, V, R
  <2> QED
    BY ONLY <1>1, <2>1 DEF Holds, IsCatalog, Fields
<1>2. T(c) = T(a) /\ K(c) = K(a) /\ I(c) = I(a) /\ G(c) = G(a) /\ V(c) = V(a)
      /\ (c.rows = a.rows => R(c) = R(a))
  BY DEF Alike
<1> HIDE DEF T, K, I, G, V, R
<1> QED
  BY <1>1, <1>2 DEF Holds, Alike, Kept

LEMMA ColumnRenamed ==
    ASSUME NEW c, IsCatalog(c), NEW a, IsCatalog(a), Alike(c, a),
           NEW s, s.op = "RenameColumn"
    PROVE  Kept(c, a, After(c, s), After(a, s))
<1> DEFINE Col(r) == IF r = <<s.table, s.from>> THEN <<s.table, s.col>> ELSE r
           T(x) == [x.tables EXCEPT ![s.table] = Moved(@, s.from, s.col)]
           K(x) == {[k EXCEPT !.col = Col(<<k.table, k.col>>)[2], !.ref = Col(k.ref)] : k \in x.cons}
           I(x) == {[i EXCEPT !.col = Col(<<i.table, i.col>>)[2]] : i \in x.ixs}
           V(x) == [v \in DOMAIN x.views |-> [x.views[v] EXCEPT !.cols = {Col(r) : r \in x.views[v].cols}]]
           R(x) == {Col(r) : r \in x.rows}
<1>1. ASSUME NEW x, IsCatalog(x)
      PROVE  Holds(After(x, s), T(x), K(x), I(x), x.fns, x.trgs, V(x), x.enums, R(x))
  <2>1. After(x, s) = [[x EXCEPT !.cons = K(x), !.ixs = I(x), !.views = V(x),
                             !.rows = R(x)] EXCEPT !.tables = T(x)]
    BY DEF After, OnColumns
  <2> HIDE DEF T, K, I, V, R
  <2> QED
    BY ONLY <1>1, <2>1 DEF Holds, IsCatalog, Fields
<1>2. T(c) = T(a) /\ K(c) = K(a) /\ I(c) = I(a) /\ V(c) = V(a) /\ (c.rows = a.rows => R(c) = R(a))
  BY DEF Alike
<1> HIDE DEF T, K, I, V, R
<1> QED
  BY <1>1, <1>2 DEF Holds, Alike, Kept

\* What a statement about a type makes of the types.
Typing == {"CreateEnum", "AddEnumValue"}
Typed(c, s, y) ==
    /\ IsCatalog(y) /\ Alike(y, c) /\ y.rows = c.rows
    /\ DOMAIN y.enums = IF s.op = "CreateEnum" THEN DOMAIN c.enums \cup {s.enum} ELSE DOMAIN c.enums
    /\ \A e \in DOMAIN c.enums :
          y.enums[e] = IF s.op = "AddEnumValue" /\ e = s.enum THEN c.enums[e] \cup {s.value} ELSE c.enums[e]
    /\ s.op = "CreateEnum" => s.enum \notin DOMAIN c.enums /\ y.enums[s.enum] = s.values

LEMMA EnumStep ==
    ASSUME NEW c, IsCatalog(c), NEW s, s.op \in Typing, Applies(c, s)
    PROVE  Typed(c, s, After(c, s))
<1>1. CASE s.op = "CreateEnum"
  <2> DEFINE E == With(c.enums, s.enum, s.values)
  <2>1. After(c, s) = [c EXCEPT !.enums = E]
    BY <1>1 DEF After
  <2>2. s.enum \notin DOMAIN c.enums
    BY <1>1 DEF Applies
  <2>3. /\ DOMAIN E = DOMAIN c.enums \cup {s.enum} /\ E[s.enum] = s.values
        /\ \A e \in DOMAIN c.enums : E[e] = c.enums[e]
    BY <2>2 DEF With
  <2> HIDE DEF E
  <2> QED
    BY <1>1, <2>1, <2>2, <2>3 DEF Typed, IsCatalog, Fields, Alike
<1>2. CASE s.op = "AddEnumValue"
  <2> DEFINE E == [c.enums EXCEPT ![s.enum] = @ \cup {s.value}]
  <2>1. After(c, s) = [c EXCEPT !.enums = E]
    BY <1>2 DEF After
  <2>3. /\ DOMAIN E = DOMAIN c.enums
        /\ \A e \in DOMAIN c.enums : E[e] = IF e = s.enum THEN c.enums[e] \cup {s.value} ELSE c.enums[e]
    OBVIOUS
  <2> HIDE DEF E
  <2> QED
    BY <1>2, <2>1, <2>3 DEF Typed, IsCatalog, Fields, Alike
<1> QED
  BY <1>1, <1>2 DEF Typing

\* Postgres accepts of a database that follows a schema what it accepts of the
\* schema, but for a type that is there already.
LEMMA Accepting ==
    ASSUME NEW c, NEW a, Alike(c, a), Grown(c, a), NEW s, s.op \in Statements, Applies(a, s),
           s.op = "CreateEnum" => s.enum \notin DOMAIN c.enums
    PROVE  Applies(c, s)
<1>1. RelNames(c) = RelNames(a) /\ Columns(c) = Columns(a) /\ \A t : ConsOf(c, t) = ConsOf(a, t)
  BY DEF Alike, RelNames, Columns, ConsOf
<1>2. \A t, k : PointedAt(c, t, k) <=> PointedAt(a, t, k)
  BY DEF Alike, PointedAt
<1>3. \A t, k : Viewed(c, t, k) <=> Viewed(a, t, k)
  BY DEF Alike, Viewed
<1>4. \A r : Readers(c, r) = Readers(a, r)
  BY DEF Alike, Readers
<1>5. \A k : Constrains(c, k) <=> Constrains(a, k)
  BY <1>1 DEF Alike, Constrains
<1> QED
  BY <1>1, <1>2, <1>3, <1>4, <1>5 DEF Applies, Alike, Statements, Grown

LEMMA Stepwise ==
    ASSUME NEW c, NEW a, Follows(c, a), NEW s, s.op \in Statements, Applies(c, s), Applies(a, s)
    PROVE  LET x == After(c, s)  y == After(a, s) IN
           /\ Follows(x, y) /\ Grown(x, c) /\ (c.rows = a.rows => x.rows = y.rows)
           /\ DOMAIN x.enums \subseteq DOMAIN c.enums \cup DOMAIN y.enums
<1> DEFINE x == After(c, s)
           y == After(a, s)
<1>1. IsCatalog(c) /\ IsCatalog(a) /\ Alike(c, a) /\ Grown(c, a)
  BY DEF Follows
<1>2. CASE s.op \notin {"CreateEnum", "AddEnumValue"}
  <2>1. Kept(c, a, x, y)
    BY <1>1, <1>2, Constrained, Indexed, Touching, Triggered, Viewing, TableCreated, Columned,
       TableDropped, ColumnDropped, TableRenamed, ColumnRenamed DEF Statements
  <2> HIDE DEF x, y
  <2>2. Grown(x, y) /\ Grown(x, c)
    BY <1>1, <2>1 DEF Kept, Grown
  <2>3. DOMAIN x.enums \subseteq DOMAIN c.enums \cup DOMAIN y.enums
    BY <2>1 DEF Kept
  <2>4. Follows(x, y) /\ (c.rows = a.rows => x.rows = y.rows)
    BY <2>1, <2>2 DEF Kept, Follows
  <2> QED
    BY <2>2, <2>3, <2>4 DEF x, y
<1>3. CASE s.op \in {"CreateEnum", "AddEnumValue"}
  <2>1. Typed(c, s, x) /\ Typed(a, s, y)
    BY <1>1, <1>3, EnumStep DEF Typing
  <2> HIDE DEF x, y
  <2>3. Alike(x, y)
    BY <1>1, <2>1 DEF Typed, Alike
  <2>4. Grown(x, c)
    BY <2>1 DEF Typed, Grown
  <2>5. Grown(x, y)
    <3> SUFFICES ASSUME NEW e \in DOMAIN y.enums
                 PROVE  e \in DOMAIN x.enums /\ y.enums[e] \subseteq x.enums[e]
      BY DEF Grown
    <3>1. \A f \in DOMAIN a.enums : f \in DOMAIN c.enums /\ a.enums[f] \subseteq c.enums[f]
      BY <1>1 DEF Grown
    <3>2. CASE e \in DOMAIN a.enums
      BY <1>3, <2>1, <3>1, <3>2 DEF Typed
    <3>3. CASE e \notin DOMAIN a.enums
      BY <1>3, <2>1, <3>3 DEF Typed
    <3> QED
      BY <3>2, <3>3
  <2>6. DOMAIN x.enums \subseteq DOMAIN c.enums \cup DOMAIN y.enums
    BY <1>3, <2>1 DEF Typed
  <2> QED
    BY <2>1, <2>3, <2>4, <2>5, <2>6 DEF Typed, Follows, x, y
<1> QED
  BY <1>2, <1>3

-----------------------------------------------------------------------------
(* A file: its statements one after the other.  What holds of each prefix is *)
(* a set of numbers that has 0 and with each number the next, since the    *)
(* least number that is missing would have one before it.                  *)

LEMMA Induction ==
    ASSUME NEW S \in SUBSET Nat, 0 \in S, \A n \in S : n + 1 \in S
    PROVE  \A n \in Nat : n \in S
<1> SUFFICES ASSUME Nat \ S # {} PROVE FALSE
  OBVIOUS
<1>1. PICK m : m = Min(Nat \ S)
  OBVIOUS
<1>2. m \in Nat \ S /\ \A y \in Nat \ S : m <= y
  BY <1>1, MinOf
<1>3. m # 0 /\ m - 1 \in Nat /\ ~(m <= m - 1)
  BY <1>2
<1>4. m - 1 \in S
  BY <1>2, <1>3
<1>5. (m - 1) + 1 = m
  BY <1>2
<1> QED
  BY <1>2, <1>4, <1>5

\* The catalogs that a statement makes of those it applies to, and the fold.
Each(C, s) == {After(c, s) : c \in {c \in C : Applies(c, s)}}
RunOf(g, cat, file, n) ==
    /\ DOMAIN g = 0..n /\ g[0] = {cat}
    /\ \A i \in 1..n : g[i] = Each(g[i - 1], file[i])

Run(g, cat, file, n) == g = [i \in 0..n |-> IF i = 0 THEN {cat} ELSE Each(g[i - 1], file[i])]

LEMMA Runs ==
    ASSUME NEW cat, NEW file
    PROVE  \A n \in Nat : \E g : Run(g, cat, file, n)
<1> DEFINE S == {n \in Nat : \E g : Run(g, cat, file, n)}
<1>1. 0 \in S
  <2> DEFINE g == [i \in 0..0 |-> {cat}]
  <2>1. g = [i \in 0..0 |-> IF i = 0 THEN {cat} ELSE Each(g[i - 1], file[i])]
    OBVIOUS
  <2>2. Run(g, cat, file, 0)
    BY <2>1 DEF Run
  <2> QED
    BY <2>2
<1>2. ASSUME NEW n \in S PROVE n + 1 \in S
  <2>1. n \in Nat
    OBVIOUS
  <2>2. PICK g : Run(g, cat, file, n)
    OBVIOUS
  <2> DEFINE h == [i \in 0..(n + 1) |-> IF i = n + 1 THEN Each(g[n], file[n + 1]) ELSE g[i]]
  <2>3. h = [i \in 0..(n + 1) |-> IF i = 0 THEN {cat} ELSE Each(h[i - 1], file[i])]
    <3>1. \A i \in 0..n : g[i] = IF i = 0 THEN {cat} ELSE Each(g[i - 1], file[i])
      BY <2>2 DEF Run
    <3>2. \A i \in 0..n : h[i] = g[i]
      BY <2>1
    <3>3. \A i \in 0..n : i # 0 => i - 1 \in 0..n
      BY <2>1
    <3>4. \A i \in 0..n : h[i] = IF i = 0 THEN {cat} ELSE Each(h[i - 1], file[i])
      <4> SUFFICES ASSUME NEW i \in 0..n PROVE h[i] = IF i = 0 THEN {cat} ELSE Each(h[i - 1], file[i])
        OBVIOUS
      <4>1. CASE i = 0
        BY <3>1, <3>2, <4>1
      <4>2. CASE i # 0
        <5>1. h[i] = g[i] /\ g[i] = Each(g[i - 1], file[i])
          BY <3>1, <3>2, <4>2
        <5>2. h[i - 1] = g[i - 1]
          BY <3>2, <3>3, <4>2
        <5> QED
          BY <4>2, <5>1, <5>2
      <4> QED
        BY <4>1, <4>2
    <3>5. h[n + 1] = Each(h[n], file[n + 1]) /\ n + 1 # 0 /\ (n + 1) - 1 = n
      BY <2>1
    <3>6. \A i \in 0..(n + 1) : i \in 0..n \/ i = n + 1
      BY <2>1
    <3>7. \A i \in 0..(n + 1) : h[i] = IF i = 0 THEN {cat} ELSE Each(h[i - 1], file[i])
      BY <3>4, <3>5, <3>6
    <3>8. DOMAIN h = 0..(n + 1)
      OBVIOUS
    <3>9. h = [i \in 0..(n + 1) |-> h[i]]
      OBVIOUS
    <3> HIDE DEF h
    <3> QED
      BY <3>7, <3>9
  <2>4. Run(h, cat, file, n + 1)
    BY <2>3 DEF Run
  <2>5. n + 1 \in Nat
    BY <2>1
  <2> HIDE DEF h
  <2> QED
    BY <2>4, <2>5
<1>3. \A n \in Nat : n \in S
  <2> HIDE DEF S
  <2> QED
    BY <1>1, <1>2, Induction DEF S
<1> QED
  BY <1>3

LEMMA BatchRuns ==
    ASSUME NEW cat, NEW file, Len(file) \in Nat
    PROVE  \E g : RunOf(g, cat, file, Len(file)) /\ Batch(cat, file) = g[Len(file)]
<1> DEFINE g == CHOOSE g : Run(g, cat, file, Len(file))
<1>1. Run(g, cat, file, Len(file))
  BY Runs
<1>2. Batch(cat, file) = g[Len(file)]
  BY DEF Batch, Each, Run
<1> HIDE DEF g
<1>3. RunOf(g, cat, file, Len(file))
  <2>1. g = [i \in 0..Len(file) |-> IF i = 0 THEN {cat} ELSE Each(g[i - 1], file[i])]
    BY <1>1 DEF Run
  <2>2. DOMAIN g = 0..Len(file)
    BY <2>1
  <2>3. \A i \in 0..Len(file) : g[i] = IF i = 0 THEN {cat} ELSE Each(g[i - 1], file[i])
    BY <2>1
  <2> QED
    BY <2>2, <2>3 DEF RunOf
<1> QED
  BY <1>2, <1>3

\* What holds of two catalogs that one file made, of c and of a that c follows.
Beside(c, a, x, y) ==
    /\ Follows(x, y) /\ Grown(x, c) /\ (c.rows = a.rows => x.rows = y.rows)
    /\ DOMAIN x.enums \subseteq DOMAIN c.enums \cup DOMAIN y.enums

LEMMA Further ==
    ASSUME NEW c, NEW a, NEW v, NEW w, Beside(c, a, v, w), NEW s, s.op \in Statements,
           Applies(v, s), Applies(w, s)
    PROVE  Beside(c, a, After(v, s), After(w, s))
<1> DEFINE x == After(v, s)
           y == After(w, s)
<1>1. /\ Follows(x, y) /\ Grown(x, v) /\ (v.rows = w.rows => x.rows = y.rows)
      /\ DOMAIN x.enums \subseteq DOMAIN v.enums \cup DOMAIN y.enums
  BY Stepwise DEF Beside
<1>2. Follows(w, w)
  BY DEF Beside, Follows, Alike, Grown
<1>3. Grown(y, w)
  BY <1>2, Stepwise
<1> HIDE DEF x, y
<1>4. Grown(x, c)
  BY <1>1 DEF Beside, Grown
<1>5. DOMAIN x.enums \subseteq DOMAIN c.enums \cup DOMAIN y.enums
  BY <1>1, <1>3 DEF Beside, Grown
<1> QED
  BY <1>1, <1>4, <1>5 DEF Beside, x, y

LEMMA SideBySide ==
    ASSUME NEW c, NEW a, Follows(c, a), NEW file, IsWay(file), NEW g, NEW h,
           RunOf(g, c, file, Len(file)), RunOf(h, a, file, Len(file))
    PROVE  \A n \in 0..Len(file) : \A x \in g[n] : \A y \in h[n] : Beside(c, a, x, y)
<1>1. Len(file) \in Nat /\ \A i \in 1..Len(file) : file[i].op \in Statements
  BY DEF IsWay
<1> DEFINE S == {n \in Nat : n <= Len(file) => \A x \in g[n] : \A y \in h[n] : Beside(c, a, x, y)}
<1>2. 0 \in S
  <2>1. Beside(c, a, c, a)
    BY DEF Beside, Grown
  <2> QED
    BY <2>1 DEF RunOf
<1>3. ASSUME NEW n \in S PROVE n + 1 \in S
  <2>1. n \in Nat /\ (n <= Len(file) => \A x \in g[n] : \A y \in h[n] : Beside(c, a, x, y))
    OBVIOUS
  <2>2. SUFFICES ASSUME n + 1 <= Len(file), NEW x \in g[n + 1], NEW y \in h[n + 1]
                 PROVE  Beside(c, a, x, y)
    BY <2>1
  <2> HIDE DEF S
  <2>3. n <= Len(file) /\ n + 1 \in 1..Len(file) /\ (n + 1) - 1 = n
    BY <1>1, <2>1, <2>2
  <2> DEFINE s == file[n + 1]
  <2>4. g[n + 1] = Each(g[n], s) /\ h[n + 1] = Each(h[n], s) /\ s.op \in Statements
    BY <1>1, <2>3 DEF RunOf
  <2> HIDE DEF s
  <2>5. PICK v \in g[n] : Applies(v, s) /\ x = After(v, s)
    BY <2>2, <2>4 DEF Each
  <2>6. PICK w \in h[n] : Applies(w, s) /\ y = After(w, s)
    BY <2>2, <2>4 DEF Each
  <2>7. Beside(c, a, v, w)
    BY <2>1, <2>3
  <2> QED
    BY <2>4, <2>5, <2>6, <2>7, Further
<1>4. \A n \in Nat : n \in S
  <2> HIDE DEF S
  <2> QED
    BY <1>2, <1>3, Induction DEF S
<1> QED
  BY <1>1, <1>4

\* What one file makes of the two; and of one catalog, which keeps its types.
LEMMA Along ==
    ASSUME NEW c, NEW a, Follows(c, a), NEW file, IsWay(file)
    PROVE  \A x \in Batch(c, file) : \A y \in Batch(a, file) : Beside(c, a, x, y)
<1>1. Len(file) \in Nat /\ Len(file) \in 0..Len(file)
  BY DEF IsWay
<1>2. PICK g : RunOf(g, c, file, Len(file)) /\ Batch(c, file) = g[Len(file)]
  BY <1>1, BatchRuns
<1>3. PICK h : RunOf(h, a, file, Len(file)) /\ Batch(a, file) = h[Len(file)]
  BY <1>1, BatchRuns
<1> QED
  BY <1>1, <1>2, <1>3, SideBySide

LEMMA Keeps ==
    ASSUME NEW c, IsCatalog(c), NEW file, IsWay(file)
    PROVE  \A x \in Batch(c, file) : IsCatalog(x) /\ Grown(x, c)
<1>1. Follows(c, c)
  BY DEF Follows, Alike, Grown
<1> QED
  BY <1>1, Along DEF Beside, Follows

\* A database that follows a schema takes the files the schema takes, unless
\* they create a type that it has already.
LEMMA Taken ==
    ASSUME NEW c, NEW a, Follows(c, a), NEW file, IsWay(file), Batch(a, file) # {},
           \A i \in 1..Len(file) : file[i].op = "CreateEnum" => file[i].enum \notin DOMAIN c.enums
    PROVE  Batch(c, file) # {}
<1>1. Len(file) \in Nat /\ \A i \in 1..Len(file) : file[i].op \in Statements
  BY DEF IsWay
<1>2. PICK g : RunOf(g, c, file, Len(file)) /\ Batch(c, file) = g[Len(file)]
  BY <1>1, BatchRuns
<1>3. PICK h : RunOf(h, a, file, Len(file)) /\ Batch(a, file) = h[Len(file)]
  BY <1>1, BatchRuns
<1> DEFINE S == {n \in Nat : n <= Len(file) /\ h[n] # {} => g[n] # {}}
<1>4. 0 \in S
  BY <1>2 DEF RunOf
<1>5. ASSUME NEW n \in S PROVE n + 1 \in S
  <2>1. n \in Nat /\ (n <= Len(file) /\ h[n] # {} => g[n] # {})
    OBVIOUS
  <2>2. SUFFICES ASSUME n + 1 <= Len(file), h[n + 1] # {} PROVE g[n + 1] # {}
    BY <2>1
  <2> HIDE DEF S
  <2>3. n <= Len(file) /\ n \in 0..Len(file) /\ n + 1 \in 1..Len(file) /\ (n + 1) - 1 = n
    BY <1>1, <2>1, <2>2
  <2> DEFINE s == file[n + 1]
  <2>4. /\ g[n + 1] = Each(g[n], s) /\ h[n + 1] = Each(h[n], s) /\ s.op \in Statements
        /\ s.op = "CreateEnum" => s.enum \notin DOMAIN c.enums
    BY <1>1, <1>2, <1>3, <2>3 DEF RunOf
  <2> HIDE DEF s
  <2>5. PICK w \in h[n] : Applies(w, s)
    BY <2>2, <2>4 DEF Each
  <2>6. PICK v \in g[n] : TRUE
    BY <2>1, <2>3, <2>5
  <2>7. Beside(c, a, v, w)
    BY <1>2, <1>3, <2>3, <2>5, <2>6, SideBySide
  <2>8. s.op = "CreateEnum" => s.enum \notin DOMAIN v.enums
    <3>1. s.op = "CreateEnum" => s.enum \notin DOMAIN w.enums
      BY <2>5 DEF Applies
    <3> QED
      BY <2>4, <2>7, <3>1 DEF Beside
  <2>9. Applies(v, s)
    BY <2>4, <2>5, <2>7, <2>8, Accepting DEF Beside, Follows
  <2> QED
    BY <2>4, <2>9 DEF Each
<1>6. Len(file) \in S
  <2> HIDE DEF S
  <2> QED
    BY <1>1, <1>4, <1>5, Induction DEF S
<1> QED
  BY <1>1, <1>2, <1>3, <1>6

\* A file that adds values to types leaves all else as it was.
LEMMA Adding ==
    ASSUME NEW c, IsCatalog(c), NEW file, IsWay(file),
           \A i \in 1..Len(file) : file[i].op = "AddEnumValue"
    PROVE  \A x \in Batch(c, file) :
              /\ IsCatalog(x) /\ Alike(x, c) /\ DOMAIN x.enums = DOMAIN c.enums
              /\ \A i \in 1..Len(file) : file[i].enum \in DOMAIN c.enums
              /\ \A e \in DOMAIN c.enums : \A u \in x.enums[e] :
                    u \in c.enums[e] \/ \E i \in 1..Len(file) : file[i].enum = e /\ file[i].value = u
<1>1. Len(file) \in Nat
  BY DEF IsWay
<1>2. PICK g : RunOf(g, c, file, Len(file)) /\ Batch(c, file) = g[Len(file)]
  BY <1>1, BatchRuns
<1> DEFINE P(n, x) ==
                   /\ IsCatalog(x) /\ Alike(x, c) /\ DOMAIN x.enums = DOMAIN c.enums
                   /\ \A i \in 1..n : file[i].enum \in DOMAIN c.enums
                   /\ \A e \in DOMAIN c.enums : \A u \in x.enums[e] :
                         u \in c.enums[e] \/ \E i \in 1..Len(file) : file[i].enum = e /\ file[i].value = u
           S == {n \in Nat : n <= Len(file) => \A x \in g[n] : P(n, x)}
<1>3. 0 \in S
  <2>1. P(0, c)
    BY DEF Alike
  <2> HIDE DEF P
  <2> QED
    BY <1>2, <2>1 DEF RunOf
<1>4. ASSUME NEW n \in S PROVE n + 1 \in S
  <2> HIDE DEF P
  <2>1. n \in Nat /\ (n <= Len(file) => \A x \in g[n] : P(n, x))
    OBVIOUS
  <2>2. SUFFICES ASSUME n + 1 <= Len(file), NEW x \in g[n + 1] PROVE P(n + 1, x)
    BY <2>1
  <2> HIDE DEF S
  <2>3. n <= Len(file) /\ n + 1 \in 1..Len(file) /\ (n + 1) - 1 = n
    BY <1>1, <2>1, <2>2
  <2> DEFINE s == file[n + 1]
  <2>4. g[n + 1] = Each(g[n], s) /\ s.op = "AddEnumValue"
    BY <1>2, <2>3 DEF RunOf
  <2>5. PICK v \in g[n] : Applies(v, s) /\ x = After(v, s)
    <3> HIDE DEF s
    <3> QED
      BY <2>2, <2>4 DEF Each
  <2>6. P(n, v)
    BY <2>1, <2>3
  <2>7. /\ IsCatalog(x) /\ Alike(x, v) /\ DOMAIN x.enums = DOMAIN v.enums
        /\ \A e \in DOMAIN v.enums : x.enums[e] = IF e = s.enum THEN v.enums[e] \cup {s.value} ELSE v.enums[e]
    <3> HIDE DEF s
    <3>1. IsCatalog(v)
      BY <2>6 DEF P
    <3>2. Typed(v, s, x)
      BY <2>4, <2>5, <3>1, EnumStep DEF Typing
    <3> QED
      BY <2>4, <3>2 DEF Typed
  <2>8. Alike(x, c) /\ DOMAIN x.enums = DOMAIN c.enums
    BY <2>6, <2>7 DEF P, Alike
  <2>9. ASSUME NEW e \in DOMAIN c.enums, NEW u \in x.enums[e]
        PROVE  u \in c.enums[e] \/ \E i \in 1..Len(file) : file[i].enum = e /\ file[i].value = u
    <3>1. e \in DOMAIN v.enums
      BY <2>6 DEF P
    <3>2. CASE u \in v.enums[e]
      BY <2>6, <3>2 DEF P
    <3>3. CASE u \notin v.enums[e]
      <4>1. e = s.enum /\ u = s.value
        <5> HIDE DEF s
        <5> QED
          BY <2>7, <2>9, <3>1, <3>3
      <4> QED
        BY <2>3, <4>1
    <3> QED
      BY <3>2, <3>3
  <2>10. ASSUME NEW i \in 1..(n + 1) PROVE file[i].enum \in DOMAIN c.enums
    <3>1. CASE i = n + 1
      <4>1. s.enum \in DOMAIN v.enums
        BY <2>4, <2>5 DEF Applies
      <4> QED
        BY <2>6, <3>1, <4>1 DEF P
    <3>2. CASE i # n + 1
      BY <2>1, <2>6, <3>2 DEF P
    <3> QED
      BY <3>1, <3>2
  <2> HIDE DEF s
  <2> QED
    BY <2>7, <2>8, <2>9, <2>10 DEF P
<1>5. Len(file) \in S
  <2> HIDE DEF S, P
  <2> QED
    BY <1>1, <1>3, <1>4, Induction DEF S
<1> QED
  BY <1>1, <1>2, <1>5

-----------------------------------------------------------------------------
(* What the records tell of the catalog, and what is on the wire.          *)

\* What the database is to be, as long as the records tell its shape.
Told ==
    /\ IsCatalog(db)
    /\ \A k \in 0..N : ~apart /\ recorded = 1..k => Follows(db, ShapeOf(project, k))

\* What is on the wire is of a file of its kind, and the values that the file
\* added already are there.
Stored(p, c, f, i) ==
    /\ p.files[f].up[i].enum \in DOMAIN c.enums
    /\ p.files[f].up[i].value \in c.enums[p.files[f].up[i].enum]
Fits(p, c, w) ==
    /\ w.op \in {"value", "record"} => p.files[w.at].loose
    /\ w.op = "undo" => p.files[w.at].undoable
    /\ w.op = "value" => /\ w.stmt \in 1..Len(p.files[w.at].up)
                         /\ \A i \in 1..(w.stmt - 1) : Stored(p, c, w.at, i)
    /\ w.op = "record" => \A i \in 1..Len(p.files[w.at].up) : Stored(p, c, w.at, i)
Fitting ==
    /\ \A d \in Deploys : pc[d] \in OnWire => Fits(project, db, Wire(d))
    /\ orphan # NoWire => Fits(project, db, orphan)

FitInv == MigInv /\ FilesFit /\ Told /\ Fitting

LEMMA NoStatement ==
    ASSUME NEW c
    PROVE  Batch(c, <<>>) = {c}
<1>1. Len(<<>>) = 0
  OBVIOUS
<1>2. PICK g : RunOf(g, c, <<>>, 0) /\ Batch(c, <<>>) = g[0]
  BY <1>1, BatchRuns
<1> QED
  BY <1>2 DEF RunOf

LEMMA OneStatement ==
    ASSUME NEW c, NEW s
    PROVE  Batch(c, <<s>>) = Each({c}, s)
<1>1. Len(<<s>>) = 1 /\ <<s>>[1] = s
  OBVIOUS
<1>2. PICK g : RunOf(g, c, <<s>>, 1) /\ Batch(c, <<s>>) = g[1]
  BY <1>1, BatchRuns
<1>3. g[0] = {c} /\ g[1] = Each(g[1 - 1], <<s>>[1])
  BY <1>2 DEF RunOf
<1>4. 1 - 1 = 0
  OBVIOUS
<1> QED
  BY <1>1, <1>2, <1>3, <1>4

LEMMA EmptyCatalog == IsCatalog(Empty)
BY DEF Empty, IsCatalog, Fields

LEMMA Full ==
    ASSUME NEW c, IsCatalog(c)
    PROVE  /\ IsCatalog(FullOf(c)) /\ Alike(FullOf(c), c) /\ FullOf(c).enums = c.enums
           /\ FullOf(c).rows = Columns(c)
BY DEF FullOf, IsCatalog, Fields, Alike

LEMMA MatchesAs ==
    ASSUME NEW c, NEW shape, IsCatalog(c), IsCatalog(shape)
    PROVE  Matches(c, shape) <=> Follows(c, shape)
<1> DEFINE Bare(x) == [x EXCEPT !.enums = <<>>, !.rows = {}]
<1>1. ASSUME NEW x, IsCatalog(x)
      PROVE  /\ DOMAIN Bare(x) = Fields /\ Bare(x) = [f \in Fields |-> Bare(x)[f]]
             /\ Bare(x).tables = x.tables /\ Bare(x).cons = x.cons /\ Bare(x).ixs = x.ixs
             /\ Bare(x).fns = x.fns /\ Bare(x).trgs = x.trgs /\ Bare(x).views = x.views
             /\ Bare(x).enums = <<>> /\ Bare(x).rows = {}
  BY <1>1 DEF IsCatalog, Fields
<1>2. Matches(c, shape) <=> Bare(c) = Bare(shape) /\ Grown(c, shape)
  BY DEF Matches, Grown
<1> HIDE DEF Bare
<1>3. Bare(c) = Bare(shape) => Alike(c, shape)
  BY <1>1 DEF Alike
<1>4. ASSUME Alike(c, shape), NEW f \in Fields PROVE Bare(c)[f] = Bare(shape)[f]
  <2>1. f \in {"tables", "cons", "ixs", "fns", "trgs", "views", "enums", "rows"}
    BY DEF Fields
  <2>2. CASE f \in {"tables", "cons", "ixs", "fns"}
    BY <1>1, <1>4, <2>2 DEF Alike
  <2>3. CASE f \in {"trgs", "views", "enums", "rows"}
    BY <1>1, <1>4, <2>3 DEF Alike
  <2> QED
    BY <2>1, <2>2, <2>3
<1>5. Alike(c, shape) => Bare(c) = Bare(shape)
  BY <1>1, <1>4
<1> QED
  BY <1>2, <1>3, <1>5 DEF Follows

LEMMA ShapeIs ==
    ASSUME TypeOK, NEW k \in 0..N
    PROVE  Shape(1..k) = ShapeOf(project, k)
<1>1. N \in Nat
  BY Project
<1>2. CASE k = 0
  BY <1>2 DEF Shape, ShapeOf
<1>3. CASE k # 0
  <2>1. 1..k \subseteq 0..k /\ 1..k # {} /\ k \in Nat /\ k \in 1..k
    BY <1>1, <1>3
  <2>2. Max(1..k) \in 1..k /\ \A y \in 1..k : Max(1..k) >= y
    BY <2>1, MaxOf
  <2>3. Max(1..k) = k
    <3> DEFINE m == Max(1..k)
    <3>1. m \in 1..k /\ m >= k
      BY <2>1, <2>2
    <3> HIDE DEF m
    <3>2. m = k
      BY <2>1, <3>1
    <3> QED
      BY <3>2 DEF m
  <2> QED
    BY <1>3, <2>1, <2>3 DEF Shape, ShapeOf, files
<1> QED
  BY <1>2, <1>3

\* What FilesFit says of one file.
LEMMA Fit ==
    ASSUME TypeOK, FilesFit, NEW f \in 1..N
    PROVE  /\ FileFits(project, f) /\ f - 1 \in 0..N /\ f \in 0..N
           /\ ShapeOf(project, f) = project.files[f].shape
           /\ IsCatalog(ShapeOf(project, f - 1)) /\ IsCatalog(ShapeOf(project, f))
<1>1. N \in Nat
  BY Project
<1>2. \A g \in 1..N : FileFits(project, g) /\ IsCatalog(ShapeOf(project, g))
  BY DEF FilesFit, FileFits
<1>3. f # 0 /\ f - 1 \in 0..N /\ f \in 0..N /\ (f - 1 # 0 => f - 1 \in 1..N)
  BY <1>1
<1>4. IsCatalog(ShapeOf(project, 0))
  BY EmptyCatalog DEF ShapeOf
<1> QED
  BY <1>2, <1>3, <1>4 DEF ShapeOf

\* A way that turns one schema into another does so with a database that
\* follows the one; the columns that are kept keep their values.
LEMMA Turned ==
    ASSUME NEW from, NEW to, NEW way, NEW kept, IsCatalog(from), IsCatalog(to), IsWay(way),
           Turns(from, way, to, kept), NEW c, Follows(c, from)
    PROVE  /\ \A x \in Batch(c, way) : Follows(x, to) /\ Grown(x, c)
           /\ \A x \in Batch(FullOf(c), way) : kept \subseteq x.rows
<1> DEFINE a == FullOf(from)
<1>1. IsCatalog(c) /\ Alike(c, from) /\ Grown(c, from)
  BY DEF Follows
<1>2. IsCatalog(a) /\ Alike(a, from) /\ a.enums = from.enums /\ a.rows = Columns(from)
  BY Full
<1>3. PICK y \in Batch(a, way) : Matches(y, to) /\ kept \subseteq y.rows
  BY DEF Turns
<1> HIDE DEF a
<1>4. Follows(c, a)
  BY <1>1, <1>2 DEF Follows, Alike, Grown
<1>5. IsCatalog(y)
  BY <1>2, <1>3, Keeps
<1>6. Follows(y, to)
  BY <1>3, <1>5, MatchesAs
<1>7. ASSUME NEW x \in Batch(c, way) PROVE Follows(x, to) /\ Grown(x, c)
  <2>1. Beside(c, a, x, y)
    BY <1>3, <1>4, <1>7, Along
  <2>2. Follows(x, y) /\ Grown(x, c)
    BY <2>1 DEF Beside
  <2>3. Grown(x, to)
    BY <1>6, <2>2 DEF Follows, Grown
  <2>4. Alike(x, to)
    BY <1>6, <2>2 DEF Follows, Alike
  <2> QED
    BY <1>6, <2>2, <2>3, <2>4 DEF Follows
<1>8. ASSUME NEW x \in Batch(FullOf(c), way) PROVE kept \subseteq x.rows
  <2> DEFINE b == FullOf(c)
  <2>1. IsCatalog(b) /\ Alike(b, c) /\ b.enums = c.enums /\ b.rows = Columns(c)
    BY <1>1, Full
  <2>2. Columns(c) = Columns(from)
    BY <1>1 DEF Alike, Columns
  <2> HIDE DEF b
  <2>3. Follows(b, a) /\ b.rows = a.rows
    BY <1>2, <1>4, <2>1, <2>2 DEF Follows, Alike, Grown
  <2>4. Beside(b, a, x, y)
    BY <1>3, <1>8, <2>3, Along DEF b
  <2> QED
    BY <1>3, <2>3, <2>4 DEF Beside
<1> QED
  BY <1>7, <1>8

\* What a file of values leaves: the types it adds to were there before, and the
\* schema declared with it has their values and those of the file.
AddsTo(before, file, after) ==
    /\ ~file.undoable /\ Len(file.up) \in Nat /\ Len(file.up) > 0
    /\ \A i \in 1..Len(file.up) :
          file.up[i].op = "AddEnumValue" /\ file.up[i].enum \in DOMAIN before.enums
    /\ Alike(before, after)
    /\ \A e \in DOMAIN after.enums : e \in DOMAIN before.enums /\
          \A u \in after.enums[e] : u \in before.enums[e] \/
             \E i \in 1..Len(file.up) : file.up[i].enum = e /\ file.up[i].value = u
LEMMA Looseness ==
    ASSUME TypeOK, FilesFit, NEW f \in 1..N, project.files[f].loose
    PROVE  AddsTo(ShapeOf(project, f - 1), project.files[f], ShapeOf(project, f))
<1> DEFINE file == project.files[f]
           before == ShapeOf(project, f - 1)
           after == ShapeOf(project, f)
           kept == {c[2] : c \in file.carried}
           a == FullOf(before)
<1>1. /\ IsCatalog(before) /\ IsCatalog(after) /\ IsWay(file.up)
      /\ Turns(before, file.up, after, kept)
      /\ ~file.undoable /\ Len(file.up) > 0
      /\ \A i \in 1..Len(file.up) : file.up[i].op = "AddEnumValue"
  <2>1. FileFits(project, f) /\ IsCatalog(before)
    BY Fit
  <2> QED
    BY <2>1 DEF FileFits
<1>2. PICK y \in Batch(a, file.up) : Matches(y, after)
  BY <1>1 DEF Turns
<1>3. IsCatalog(a) /\ Alike(a, before) /\ a.enums = before.enums
  BY <1>1, Full
<1> HIDE DEF file, before, after, a, kept
<1>4. /\ IsCatalog(y) /\ Alike(y, a) /\ DOMAIN y.enums = DOMAIN a.enums
      /\ \A i \in 1..Len(file.up) : file.up[i].enum \in DOMAIN a.enums
      /\ \A e \in DOMAIN a.enums : \A u \in y.enums[e] :
            u \in a.enums[e] \/ \E i \in 1..Len(file.up) : file.up[i].enum = e /\ file.up[i].value = u
  BY <1>1, <1>2, <1>3, Adding
<1>5. Alike(y, after) /\ Grown(y, after)
  BY <1>1, <1>2, <1>4, MatchesAs DEF Follows
<1>6. Alike(before, after)
  BY <1>3, <1>4, <1>5 DEF Alike
<1>7. ASSUME NEW e \in DOMAIN after.enums
      PROVE  e \in DOMAIN before.enums /\
                 \A u \in after.enums[e] : u \in before.enums[e] \/
                    \E i \in 1..Len(file.up) : file.up[i].enum = e /\ file.up[i].value = u
  <2>1. e \in DOMAIN y.enums /\ after.enums[e] \subseteq y.enums[e]
    BY <1>5, <1>7 DEF Grown
  <2> QED
    BY <1>3, <1>4, <2>1
<1>8. Len(file.up) \in Nat
  BY <1>1 DEF IsWay
<1>9. \A i \in 1..Len(file.up) : file.up[i].op = "AddEnumValue" /\ file.up[i].enum \in DOMAIN before.enums
  BY <1>1, <1>3, <1>4
<1> QED
  BY <1>1, <1>6, <1>7, <1>8, <1>9 DEF AddsTo, file, before, after

\* What is on the wire reaches the database, by its kind: only a record (mark),
\* a batch (file, undo), one value, and the record after the last value.
LEMMA Marking ==
    ASSUME FitInv, NEW w, w.op = "mark", w.at \in 1..N, Executes(w), InLine(w)
    PROVE  IsCatalog(db') /\ Grown(db', db) /\ (~apart' => Follows(db', ShapeOf(project, w.at)))
<1>1. TypeOK /\ FilesFit /\ IsCatalog(db)
  BY DEF FitInv, MigInv, Told
<1>2. db' \in Batch(db, <<>>)
  BY DEF Executes, Way
<1>3. db' = db
  BY <1>2, NoStatement
<1>4. Shape(recorded') = ShapeOf(project, w.at)
  <2>1. recorded' = 1..w.at
    BY <1>1, Recording DEF FitInv, MigInv, OnWire, Records
  <2>2. w.at \in 0..N
    BY <1>1, Fit
  <2> QED
    BY <1>1, <2>1, <2>2, ShapeIs
<1>5. IsCatalog(ShapeOf(project, w.at))
  BY <1>1, Fit
<1>6. apart' = ~Matches(db, Shape(recorded'))
  BY Zenon DEF Executes
<1>7. ~apart' => Matches(db, ShapeOf(project, w.at))
  BY <1>4, <1>6
<1> QED
  BY <1>1, <1>3, <1>5, <1>7, MatchesAs DEF Grown

LEMMA Filing ==
    ASSUME FitInv, NEW w, w.op \in {"file", "undo"}, w.at \in 1..N,
           Executes(w), InLine(w), Fits(project, db, w)
    PROVE  /\ IsCatalog(db') /\ Grown(db', db)
           /\ ~apart' => Follows(db', ShapeOf(project, IF w.op = "file" THEN w.at ELSE w.at - 1))
<1>1. TypeOK /\ FilesFit /\ IsCatalog(db) /\ FileFits(project, w.at) /\ w.at - 1 \in 0..N /\ w.at \in 0..N
      /\ IsCatalog(ShapeOf(project, w.at - 1)) /\ IsCatalog(ShapeOf(project, w.at))
  BY Fit DEF FitInv, MigInv, Told
<1>2. apart' = apart /\ db' \in Batch(db, Way(w))
  BY DEF Executes
<1> DEFINE k == IF w.op = "file" THEN w.at - 1 ELSE w.at
           j == IF w.op = "file" THEN w.at ELSE w.at - 1
<1>3. IsWay(Way(w)) /\ \E kept : Turns(ShapeOf(project, k), Way(w), ShapeOf(project, j), kept)
  <2>1. CASE w.op = "file"
    BY <1>1, <2>1 DEF FileFits, Way, files
  <2>2. CASE w.op = "undo"
    BY <1>1, <2>2 DEF FileFits, Way, files, Fits
  <2> QED
    BY <2>1, <2>2
<1>4. ~apart => Follows(db, ShapeOf(project, k))
  <2>1. recorded = 1..k /\ k \in 0..N
    BY <1>1 DEF InLine
  <2> HIDE DEF k
  <2> QED
    BY <2>1 DEF FitInv, Told
<1>5. IsCatalog(db') /\ Grown(db', db)
  BY <1>1, <1>2, <1>3, Keeps
<1>6. IsCatalog(ShapeOf(project, k)) /\ IsCatalog(ShapeOf(project, j))
  BY <1>1
<1>7. ~apart' => Follows(db', ShapeOf(project, j))
  <2> HIDE DEF k, j
  <2> QED
    BY <1>2, <1>3, <1>4, <1>6, Turned
<1> QED
  BY <1>5, <1>7

LEMMA Valuing ==
    ASSUME FitInv, NEW w, w.op = "value", w.at \in 1..N,
           Executes(w), InLine(w), Fits(project, db, w)
    PROVE  /\ IsCatalog(db') /\ Grown(db', db) /\ Stored(project, db', w.at, w.stmt)
           /\ ~apart' => Follows(db', ShapeOf(project, w.at - 1))
<1>1. TypeOK /\ FilesFit /\ IsCatalog(db) /\ w.at - 1 \in 0..N
  BY Fit DEF FitInv, MigInv, Told
<1> DEFINE s == project.files[w.at].up[w.stmt]
<1>2. apart' = apart /\ db' \in Each({db}, s)
  BY OneStatement DEF Executes, Way, files
<1>3. AddsTo(ShapeOf(project, w.at - 1), project.files[w.at], ShapeOf(project, w.at))
  BY <1>1, Looseness DEF Fits
<1>4. s.op = "AddEnumValue"
  BY <1>3 DEF AddsTo, Fits
<1>5. ~apart => Follows(db, ShapeOf(project, w.at - 1))
  BY <1>1 DEF FitInv, Told, InLine
<1>6. /\ s.enum \in DOMAIN db'.enums /\ s.value \in db'.enums[s.enum]
      /\ IsCatalog(db') /\ Alike(db', db) /\ Grown(db', db)
  <2> HIDE DEF s
  <2>1. Applies(db, s) /\ db' = After(db, s)
    BY <1>2 DEF Each
  <2>2. Typed(db, s, db')
    BY <1>1, <1>4, <2>1, EnumStep DEF Typing
  <2>3. s.enum \in DOMAIN db.enums
    BY <1>4, <2>1 DEF Applies
  <2> QED
    BY <1>4, <2>2, <2>3 DEF Typed, Grown
<1>7. Stored(project, db', w.at, w.stmt)
  BY <1>6 DEF Stored
<1> HIDE DEF s
<1>8. ASSUME ~apart' PROVE Follows(db', ShapeOf(project, w.at - 1))
  <2>1. Follows(db, ShapeOf(project, w.at - 1))
    BY <1>2, <1>5, <1>8
  <2> QED
    BY <1>6, <2>1 DEF Follows, Alike, Grown
<1> QED
  BY <1>6, <1>7, <1>8

LEMMA Closing ==
    ASSUME FitInv, NEW w, w.op = "record", w.at \in 1..N,
           Executes(w), InLine(w), Fits(project, db, w)
    PROVE  IsCatalog(db') /\ Grown(db', db) /\ (~apart' => Follows(db', ShapeOf(project, w.at)))
<1> DEFINE file == project.files[w.at]
           before == ShapeOf(project, w.at - 1)
           after == ShapeOf(project, w.at)
<1>1. TypeOK /\ FilesFit /\ IsCatalog(db) /\ w.at - 1 \in 0..N /\ IsCatalog(after)
  BY Fit DEF FitInv, MigInv, Told
<1>2. apart' = apart /\ db' \in Batch(db, <<>>)
  BY DEF Executes, Way
<1>3. db' = db
  BY <1>2, NoStatement
<1>4. AddsTo(before, file, after)
  BY <1>1, Looseness DEF Fits
<1>5. ~apart => Follows(db, before)
  BY <1>1 DEF FitInv, Told, InLine
<1>6. \A i \in 1..Len(file.up) : file.up[i].enum \in DOMAIN db.enums /\ file.up[i].value \in db.enums[file.up[i].enum]
  BY DEF Fits, Stored
<1> HIDE DEF file, before, after
<1>7. ASSUME ~apart PROVE Follows(db, after)
  <2>1. Alike(db, before) /\ Grown(db, before)
    BY <1>5, <1>7 DEF Follows
  <2>2. Alike(db, after)
    BY <1>4, <2>1 DEF AddsTo, Alike
  <2>3. Grown(db, after)
    <3> SUFFICES ASSUME NEW e \in DOMAIN after.enums
                 PROVE  e \in DOMAIN db.enums /\ \A u \in after.enums[e] : u \in db.enums[e]
      BY DEF Grown
    <3>1. e \in DOMAIN before.enums
      BY <1>4 DEF AddsTo
    <3>2. e \in DOMAIN db.enums /\ before.enums[e] \subseteq db.enums[e]
      BY <2>1, <3>1 DEF Grown
    <3>3. ASSUME NEW u \in after.enums[e] PROVE u \in db.enums[e]
      <4>1. CASE u \in before.enums[e]
        BY <3>2, <4>1
      <4>2. CASE u \notin before.enums[e]
        <5>1. PICK i \in 1..Len(file.up) : file.up[i].enum = e /\ file.up[i].value = u
          BY <1>4, <4>2 DEF AddsTo
        <5> QED
          BY <1>6, <5>1
      <4> QED
        BY <4>1, <4>2
    <3> QED
      BY <3>2, <3>3
  <2> QED
    BY <1>1, <2>2, <2>3 DEF Follows
<1> QED
  BY <1>1, <1>2, <1>3, <1>7 DEF Grown, after

LEMMA Executed ==
    ASSUME FitInv, NEW w, w.op \in OnWire, w.at \in 1..N, Executes(w), InLine(w), Fits(project, db, w),
           UNCHANGED project
    PROVE  Told' /\ Grown(db', db) /\ (w.op = "value" => Stored(project, db', w.at, w.stmt))
<1>1. TypeOK /\ N \in Nat /\ N' = N
  BY Project DEF FitInv, MigInv, N, files
<1>2. recorded' = (IF w.op \in Records THEN 1..w.at ELSE IF w.op = "undo" THEN 1..(w.at - 1) ELSE recorded)
  BY <1>1, Recording DEF FitInv, MigInv
<1>3. \A i, j \in 0..N : 1..i = 1..j => i = j
  <2> SUFFICES ASSUME NEW i \in 0..N, NEW j \in 0..N, 1..i = 1..j, i < j PROVE FALSE
    BY <1>1
  <2>1. j \in 1..j /\ j \notin 1..i
    BY <1>1
  <2> QED
    BY <2>1
<1> DEFINE k == IF w.op \in Records THEN w.at ELSE w.at - 1
<1>4. k \in 0..N /\ recorded' = 1..k
  BY <1>1, <1>2 DEF InLine, OnWire, Records
<1>5. /\ IsCatalog(db') /\ Grown(db', db) /\ (w.op = "value" => Stored(project, db', w.at, w.stmt))
      /\ ~apart' => Follows(db', ShapeOf(project, k))
  <2>1. CASE w.op = "mark"
    BY <2>1, Marking DEF Records
  <2>2. CASE w.op \in {"file", "undo"}
    BY <2>2, Filing DEF Records
  <2>3. CASE w.op = "value"
    BY <2>3, Valuing DEF Records
  <2>4. CASE w.op = "record"
    BY <2>4, Closing DEF Records
  <2> QED
    BY <2>1, <2>2, <2>3, <2>4 DEF OnWire
<1> HIDE DEF k
<1>6. ASSUME NEW j \in 0..N, ~apart', recorded' = 1..j PROVE Follows(db', ShapeOf(project, j))
  BY <1>3, <1>4, <1>5, <1>6
<1> QED
  BY <1>1, <1>5, <1>6 DEF Told

-----------------------------------------------------------------------------
(* Every step keeps that.                                                  *)

\* A step that leaves the project and the database as they are.
LEMMA Quiet ==
    ASSUME FitInv, MigInv', UNCHANGED <<project, database>>, NEW d \in Deploys,
           \A e \in Deploys : e # d /\ pc'[e] \in OnWire => pc[e] \in OnWire /\ Wire(e)' = Wire(e),
           pc'[d] \in OnWire => Fits(project, db, Wire(d)'),
           orphan' # NoWire => Fits(project, db, orphan')
    PROVE  FitInv'
<1>1. FilesFit' /\ Told'
  BY DEF FitInv, FilesFit, Told, database, N, files
<1>2. Fitting'
  BY DEF FitInv, Fitting, database
<1> QED
  BY <1>1, <1>2 DEF FitInv

LEMMA FitStarts == Init /\ FilesFit => FitInv
<1> SUFFICES ASSUME Init, FilesFit PROVE FitInv
  OBVIOUS
<1>1. MigInv /\ TypeOK /\ N \in Nat /\ N >= 1
  BY MigStarts, Project DEF MigInv
<1>2. IsCatalog(db)
  <2>1. ShapeOf(project, N) = files[N].shape /\ IsCatalog(ShapeOf(project, N))
    BY <1>1, Fit DEF files
  <2> QED
    BY <2>1, EmptyCatalog DEF Init
<1>3. ASSUME NEW k \in 0..N, ~apart, recorded = 1..k PROVE Follows(db, ShapeOf(project, k))
  <2>1. db = Empty
    BY <1>3 DEF Init
  <2>2. k = 0
    <3>1. 1 \notin 1..k
      BY <1>3 DEF Init
    <3> QED
      BY <1>1, <3>1
  <2>3. ShapeOf(project, k) = Empty
    BY <2>2 DEF ShapeOf
  <2> QED
    BY <2>1, <2>3, EmptyCatalog DEF Follows, Alike, Grown
<1>4. Fitting
  BY DEF Init, Fitting, OnWire
<1> QED
  BY <1>1, <1>2, <1>3, <1>4 DEF FitInv, Told

LEMMA TakeFileFits ==
    ASSUME FitInv, MigInv', NEW d \in Deploys, TakeFile(d)
    PROVE  FitInv'
<1>1. TypeOK /\ FilesFit /\ N \in Nat /\ cmd[d].checkout \in 1..N
  BY Project, Ordered DEF FitInv, MigInv
<1> DEFINE f == Min(Pending(d))
<1>2. f \in 1..N
  <2>1. Pending(d) \subseteq 1..N /\ Pending(d) \subseteq Nat /\ Pending(d) # {}
    BY <1>1 DEF Pending, TakeFile
  <2>2. f \in Pending(d)
    BY <2>1, MinOf
  <2> HIDE DEF f
  <2> QED
    BY <2>1, <2>2
<1>3. /\ at'[d] = f /\ stmt'[d] = 1
      /\ pc'[d] \in {"mark", "value", "file"} /\ (pc'[d] = "value" => project.files[f].loose)
      /\ \A e \in Deploys : e # d => pc'[e] = pc[e] /\ Wire(e)' = Wire(e)
      /\ UNCHANGED <<project, database, session>>
  BY <1>1 DEF TypeOK, TakeFile, Wire, files
<1> HIDE DEF f
<1>4. Fits(project, db, Wire(d)')
  <2>1. Wire(d)'.op = pc'[d] /\ Wire(d)'.at = f /\ Wire(d)'.stmt = 1
    BY <1>3 DEF Wire
  <2>2. CASE pc'[d] = "value"
    <3>1. AddsTo(ShapeOf(project, f - 1), project.files[f], ShapeOf(project, f))
      BY <1>1, <1>2, <1>3, <2>2, Looseness
    <3>2. 1 \in 1..Len(project.files[f].up) /\ 1..(1 - 1) = {}
      BY <3>1 DEF AddsTo
    <3> QED
      BY <1>3, <2>1, <2>2, <3>2 DEF Fits
  <2>3. CASE pc'[d] # "value"
    BY <1>3, <2>1, <2>3 DEF Fits
  <2> QED
    BY <2>2, <2>3
<1>5. orphan' # NoWire => Fits(project, db, orphan')
  BY <1>3 DEF FitInv, Fitting, session
<1> QED
  BY <1>3, <1>4, <1>5, Quiet

LEMMA TakeUndoFits ==
    ASSUME FitInv, MigInv', NEW d \in Deploys, TakeUndo(d)
    PROVE  FitInv'
<1>1. TypeOK
  BY DEF FitInv, MigInv
<1>2. /\ at'[d] = Newest(d) /\ pc'[d] \in {"undo", "failed"}
      /\ pc'[d] = "undo" => project.files[Newest(d)].undoable
      /\ \A e \in Deploys : e # d => pc'[e] = pc[e] /\ Wire(e)' = Wire(e)
      /\ UNCHANGED <<project, database, session>>
  BY <1>1 DEF TypeOK, TakeUndo, Wire, files
<1>3. pc'[d] \in OnWire => Fits(project, db, Wire(d)')
  BY <1>2 DEF Fits, Wire, OnWire
<1>4. orphan' # NoWire => Fits(project, db, orphan')
  BY <1>2 DEF FitInv, Fitting, session
<1> QED
  BY <1>2, <1>3, <1>4, Quiet

\* The steps that send nothing.
LEMMA SilentFits ==
    ASSUME FitInv, MigInv', NEW d \in Deploys,
           \/ \E c \in project.commands : Start(d, c)
           \/ TakeLock(d) \/ Gate(d) \/ Read(d) \/ NothingLeft(d)
           \/ Refused(d) \/ Fails(d) \/ Release(d)
    PROVE  FitInv'
<1>1. TypeOK
  BY DEF FitInv, MigInv
<1>2. /\ pc'[d] \notin OnWire /\ UNCHANGED <<project, database, orphan>>
      /\ \A e \in Deploys : e # d => pc'[e] = pc[e] /\ Wire(e)' = Wire(e)
  <2>1. CASE \E c \in project.commands : Start(d, c)
    BY <1>1, <2>1 DEF TypeOK, Start, session, Wire, OnWire
  <2>2. CASE TakeLock(d)
    BY <1>1, <2>2 DEF TypeOK, TakeLock, deploy, Wire, OnWire
  <2>3. CASE Gate(d)
    <3>1. pc'[d] \in {"read", "failed"} /\ \A e \in Deploys : e # d => pc'[e] = pc[e]
      BY <1>1, <2>3 DEF TypeOK, Gate
    <3>2. UNCHANGED <<project, database, session, deploy>>
      BY <2>3 DEF Gate
    <3> QED
      BY <3>1, <3>2 DEF session, deploy, Wire, OnWire
  <2>4. CASE Read(d)
    BY <1>1, <2>4 DEF TypeOK, Read, session, Wire, OnWire
  <2>5. CASE NothingLeft(d)
    <3>1. pc'[d] = "ended" /\ \A e \in Deploys : e # d => pc'[e] = pc[e]
      BY <1>1, <2>5 DEF TypeOK, NothingLeft
    <3>2. UNCHANGED <<project, database, session, deploy>>
      BY <2>5 DEF NothingLeft
    <3> QED
      BY <3>1, <3>2 DEF session, deploy, Wire, OnWire
  <2>6. CASE Refused(d) \/ Fails(d)
    <3>1. pc'[d] = "failed" /\ \A e \in Deploys : e # d => pc'[e] = pc[e]
      BY <1>1, <2>6 DEF TypeOK, Refused, Fails
    <3>2. UNCHANGED <<project, database, session, deploy>>
      BY <2>6 DEF Refused, Fails
    <3> QED
      BY <3>1, <3>2 DEF session, deploy, Wire, OnWire
  <2>7. CASE Release(d)
    <3>1. Forget(d) /\ UNCHANGED <<project, database, orphan>>
      BY <2>7 DEF Release
    <3> QED
      BY <1>1, <3>1, Forgotten DEF Wire, OnWire
  <2> QED
    BY <2>1, <2>2, <2>3, <2>4, <2>5, <2>6, <2>7
<1>3. orphan' # NoWire => Fits(project, db, orphan')
  BY <1>2 DEF FitInv, Fitting
<1> QED
  BY <1>2, <1>3, Quiet

LEMMA CrashFits ==
    ASSUME FitInv, MigInv', NEW d \in Deploys, Crash(d)
    PROVE  FitInv'
<1>1. TypeOK /\ Forget(d) /\ UNCHANGED <<project, database>>
  BY DEF FitInv, MigInv, Crash
<1>2. /\ pc'[d] \notin OnWire
      /\ \A e \in Deploys : e # d => pc'[e] = pc[e] /\ Wire(e)' = Wire(e)
  BY <1>1, Forgotten DEF Wire, OnWire
<1>3. orphan' # NoWire => Fits(project, db, orphan')
  BY DEF FitInv, Fitting, Crash
<1> QED
  BY <1>1, <1>2, <1>3, Quiet

\* Values are never taken away.
LEMMA StillStored ==
    ASSUME NEW p, NEW c, NEW x, Grown(x, c), NEW f, NEW i, Stored(p, c, f, i)
    PROVE  Stored(p, x, f, i)
BY DEF Grown, Stored

LEMMA DoneFits ==
    ASSUME FitInv, MigInv', NEW d \in Deploys, Done(d)
    PROVE  FitInv'
<1> DEFINE w == Wire(d)
           f == at[d]
           n == Len(project.files[f].up)
<1>1. /\ TypeOK /\ FilesFit /\ pc[d] \in OnWire /\ f \in 1..N /\ lock = d /\ orphan = NoWire
      /\ InLine(w) /\ Fits(project, db, w) /\ Executes(w) /\ stmt[d] \in Nat
  BY SessionsAssumption DEF FitInv, MigInv, Fitting, Lines, TypeOK, Done, OnWire
<1>2. w.op = pc[d] /\ w.at = f /\ w.stmt = stmt[d]
  BY DEF Wire
<1>3. UNCHANGED <<project, session, at>> /\ UNCHANGED orphan
  BY DEF Done, session
<1> HIDE DEF w
<1>4. Told' /\ Grown(db', db) /\ (w.op = "value" => Stored(project, db', w.at, w.stmt))
  BY <1>1, <1>2, <1>3, Executed
<1>5. /\ \A e \in Deploys : e # d => pc'[e] = pc[e]
      /\ pc'[d] = IF MoreValues(d) THEN "value" ELSE IF pc[d] = "value" THEN "record" ELSE "next"
      /\ stmt'[d] = IF MoreValues(d) THEN stmt[d] + 1 ELSE stmt[d]
  BY <1>1 DEF TypeOK, Done
<1>6. \A e \in Deploys : e # d => pc'[e] \notin OnWire
  BY <1>1, <1>5, Others DEF OnWire
<1>7. ASSUME pc'[d] \in OnWire PROVE Fits(project, db', Wire(d)')
  <2>1. pc[d] = "value" /\ Wire(d)'.op = pc'[d] /\ Wire(d)'.at = f /\ Wire(d)'.stmt = stmt'[d]
    BY <1>3, <1>5, <1>7 DEF Wire, MoreValues, OnWire
  <2>2. /\ project.files[f].loose /\ stmt[d] \in 1..n
        /\ \A i \in 1..(stmt[d] - 1) : Stored(project, db, f, i)
    BY <1>1, <1>2, <2>1 DEF Fits
  <2>3. n \in Nat
    <3>1. AddsTo(ShapeOf(project, f - 1), project.files[f], ShapeOf(project, f))
      BY <1>1, <2>2, Looseness
    <3> QED
      BY <3>1 DEF AddsTo
  <2>4. MoreValues(d) <=> stmt[d] < n
    BY <2>1 DEF MoreValues, files
  <2> HIDE DEF n, f
  <2>5. \A i \in 1..stmt[d] : Stored(project, db', f, i)
    <3> SUFFICES ASSUME NEW i \in 1..stmt[d] PROVE Stored(project, db', f, i)
      OBVIOUS
    <3>1. CASE i = stmt[d]
      BY <1>2, <1>4, <2>1, <3>1
    <3>2. CASE i # stmt[d]
      <4>1. i \in 1..(stmt[d] - 1)
        BY <1>1, <3>2
      <4> QED
        BY <1>4, <2>2, <4>1, StillStored
    <3> QED
      BY <3>1, <3>2
  <2>6. CASE MoreValues(d)
    <3>1. pc'[d] = "value" /\ stmt'[d] = stmt[d] + 1
      BY <1>5, <2>6
    <3>2. stmt[d] + 1 \in 1..n /\ (stmt[d] + 1) - 1 = stmt[d]
      BY <1>1, <2>3, <2>4, <2>6
    <3> QED
      BY <2>1, <2>2, <2>5, <3>1, <3>2 DEF Fits, n
  <2>7. CASE ~MoreValues(d)
    <3>1. pc'[d] = "record"
      BY <1>5, <2>1, <2>7
    <3>2. stmt[d] = n
      BY <1>1, <2>2, <2>3, <2>4, <2>7
    <3> QED
      BY <2>1, <2>2, <2>5, <3>1, <3>2 DEF Fits, n
  <2> QED
    BY <2>6, <2>7
<1>8. Fitting'
  BY <1>1, <1>3, <1>6, <1>7 DEF Fitting
<1>9. FilesFit'
  BY <1>1, <1>3 DEF FilesFit, N, files
<1> QED
  BY <1>4, <1>8, <1>9 DEF FitInv

LEMMA OrphanFits ==
    ASSUME FitInv, MigInv', OrphanEnds
    PROVE  FitInv'
<1>1. TypeOK /\ FilesFit /\ orphan # NoWire /\ lock = Orphan /\ Told
  BY DEF FitInv, MigInv, TypeOK, OrphanEnds
<1>2. orphan' = NoWire /\ UNCHANGED <<project, pc>> /\ (Executes(orphan) \/ UNCHANGED database)
  BY DEF OrphanEnds
<1>3. Told'
  <2>1. CASE Executes(orphan)
    <3>1. orphan.op \in OnWire /\ orphan.at \in 1..N /\ InLine(orphan) /\ Fits(project, db, orphan)
      BY <1>1 DEF FitInv, MigInv, OrphanOK, Lines, Fitting
    <3> QED
      BY <1>2, <2>1, <3>1, Executed
  <2>2. CASE UNCHANGED database
    BY <1>1, <1>2, <2>2 DEF Told, database, N, files
  <2> QED
    BY <1>2, <2>1, <2>2
<1>4. \A e \in Deploys : pc'[e] \in {"idle", "lock"}
  BY <1>1, <1>2, NobodyPast, SessionsAssumption
<1>5. Fitting'
  BY <1>2, <1>4 DEF Fitting, OnWire
<1>6. FilesFit'
  BY <1>1, <1>2 DEF FilesFit, N, files
<1> QED
  BY <1>3, <1>5, <1>6 DEF FitInv

LEMMA FitSteps == FitInv /\ [Next]_vars => FitInv'
<1> SUFFICES ASSUME FitInv, [Next]_vars PROVE FitInv'
  OBVIOUS
<1>1. MigInv'
  BY MigSteps DEF FitInv
<1>2. CASE UNCHANGED vars
  BY <1>1, <1>2 DEF vars, database, session, deploy, FitInv, FilesFit, Told, Fitting, Wire, N, files
<1>3. ASSUME NEW d \in Deploys, TakeFile(d) PROVE FitInv'
  BY <1>1, <1>3, TakeFileFits
<1>4. ASSUME NEW d \in Deploys, TakeUndo(d) PROVE FitInv'
  BY <1>1, <1>4, TakeUndoFits
<1>5. ASSUME NEW d \in Deploys,
             \/ \E c \in project.commands : Start(d, c)
             \/ TakeLock(d) \/ Gate(d) \/ Read(d) \/ NothingLeft(d)
             \/ Refused(d) \/ Fails(d) \/ Release(d)
      PROVE  FitInv'
  BY <1>1, <1>5, SilentFits
<1>6. ASSUME NEW d \in Deploys, Crash(d) PROVE FitInv'
  BY <1>1, <1>6, CrashFits
<1>7. ASSUME NEW d \in Deploys, Done(d) PROVE FitInv'
  BY <1>1, <1>7, DoneFits
<1>8. CASE OrphanEnds
  BY <1>1, <1>8, OrphanFits
<1> QED
  BY <1>2, <1>3, <1>4, <1>5, <1>6, <1>7, <1>8 DEF Next, Proceeds

LEMMA FitAlways == Spec /\ FilesFit => []FitInv
<1> QED
  BY FitStarts, FitSteps, PTL DEF Spec

\* Where a deploy is with what it has on the wire, and what Postgres takes.
LEMMA Onward ==
    ASSUME FitInv, ~apart, NEW d \in Deploys, pc[d] \in OnWire
    PROVE  /\ TypeOK /\ FilesFit /\ at[d] \in 1..N /\ FileFits(project, at[d])
           /\ Follows(db, ShapeOf(project, IF pc[d] = "undo" THEN at[d] ELSE at[d] - 1))
           /\ IsCatalog(ShapeOf(project, at[d] - 1)) /\ IsCatalog(ShapeOf(project, at[d]))
           /\ Wire(d).op = pc[d] /\ Wire(d).at = at[d] /\ Wire(d).stmt = stmt[d]
           /\ Fits(project, db, Wire(d)) /\ (pc[d] # "undo" => at[d] \notin recorded)
<1>1. /\ TypeOK /\ FilesFit /\ at[d] \in 1..N /\ InLine(Wire(d)) /\ Fits(project, db, Wire(d))
      /\ N \in Nat
  BY Project DEF FitInv, MigInv, TypeOK, Lines, Fitting
<1>2. Wire(d).op = pc[d] /\ Wire(d).at = at[d] /\ Wire(d).stmt = stmt[d]
  BY DEF Wire
<1> DEFINE k == IF pc[d] = "undo" THEN at[d] ELSE at[d] - 1
<1>3. k \in 0..N /\ recorded = 1..k /\ (pc[d] # "undo" => at[d] \notin recorded)
  BY <1>1, <1>2 DEF InLine
<1> HIDE DEF k
<1>4. Follows(db, ShapeOf(project, k))
  BY <1>3 DEF FitInv, Told
<1> QED
  BY <1>1, <1>2, <1>3, <1>4, Fit DEF k

LEMMA Ready ==
    ASSUME NEW from, NEW to, NEW way, NEW kept, IsCatalog(from), IsWay(way),
           Turns(from, way, to, kept), NEW c, Follows(c, from),
           \A i \in 1..Len(way) : way[i].op = "CreateEnum" => way[i].enum \notin DOMAIN c.enums
    PROVE  Batch(c, way) # {}
<1>1. Batch(FullOf(from), way) # {}
  BY DEF Turns
<1>2. Follows(c, FullOf(from))
  BY Full DEF Follows, Alike, Grown
<1> QED
  BY <1>1, <1>2, Taken

-----------------------------------------------------------------------------
(* Theorems.                                                               *)

\* The types, and the lock: only the deploy that has it is past it, and a
\* session that outlives its deploy keeps it (apply.rs, lock).
THEOREM TypeCorrect == Spec => []TypeOK
<1>1. MigInv => TypeOK
  BY DEF MigInv
<1> QED
  BY MigAlways, <1>1, PTL

\* An `up` that ends well has left no file pending that it was asked for: what
\* it read of the records once, after it took the lock, is still so at its end
\* (apply.rs, up), whatever the statements of the files do.
THEOREM Delivers == Spec => []UpDelivers
<1>1. MigInv => UpDelivers
  BY DEF MigInv, Going, Delivered, UpDelivers
<1> QED
  BY MigAlways, <1>1, PTL

\* The records are the files up to one, whatever is rolled back, baselined,
\* fails or crashes; and what is on the wire is the next of them or undoes the
\* last, so that no file is ever refused because its record is there.
RecordsInOrder ==
    /\ \E k \in 0..N : recorded = 1..k
    /\ \A d \in Deploys : pc[d] \in Records => recorded = 1..(at[d] - 1)
    /\ \A d \in Deploys : pc[d] = "undo" => recorded = 1..at[d]
THEOREM Ordering == Spec => []RecordsInOrder
<1>1. MigInv => RecordsInOrder
  <2> SUFFICES ASSUME MigInv PROVE RecordsInOrder
    OBVIOUS
  <2>1. \A d \in Deploys : Wire(d).op = pc[d] /\ Wire(d).at = at[d]
    BY DEF Wire
  <2> QED
    BY <2>1 DEF MigInv, InOrder, Lines, InLine, RecordsInOrder, Records, OnWire
<1> QED
  BY MigAlways, <1>1, PTL

\* If each file does on its own what it is for, turn the schema declared before
\* it into the one declared with it (FilesFit: what `jwc migrate new` has to get
\* right), then on a database that deploys share the records tell the schema:
\* whatever commands run at once, fail, are rolled back, crash between two
\* statements or are run again (apply.rs, up, down and baseline).
THEOREM TellsSchema == Spec /\ FilesFit => []RecordsTellSchema
<1>1. FitInv => RecordsTellSchema
  <2> SUFFICES ASSUME FitInv, ~apart PROVE (\E k \in 0..N : recorded = 1..k) /\ Matches(db, Shape(recorded))
    BY DEF RecordsTellSchema
  <2>1. PICK k \in 0..N : recorded = 1..k
    BY DEF FitInv, MigInv, InOrder
  <2>2. Follows(db, ShapeOf(project, k))
    BY <2>1 DEF FitInv, Told
  <2>3. Matches(db, ShapeOf(project, k))
    BY <2>2, MatchesAs DEF Follows
  <2>4. Shape(recorded) = ShapeOf(project, k)
    BY <2>1, ShapeIs DEF FitInv, MigInv
  <2> QED
    BY <2>1, <2>3, <2>4
<1> QED
  BY FitAlways, <1>1, PTL

\* ... then nothing a command sends is refused for what is in the catalog, but
\* for a type that is still there after a rollback (apply.rs, apply_one): also
\* the values of a file of which some were added before a crash.
THEOREM Applicable == Spec /\ FilesFit => []FilesApply
<1>1. FitInv => FilesApply
  <2> SUFFICES ASSUME FitInv, ~apart, NEW d \in Deploys, pc[d] \in OnWire,
                      ~(pc[d] = "file" /\ CreatesAgain(at[d]))
               PROVE  Accepts(Wire(d))
    BY DEF FilesApply
  <2> DEFINE w == Wire(d)
             before == ShapeOf(project, at[d] - 1)
             after == ShapeOf(project, at[d])
             file == project.files[at[d]]
  <2>1. /\ TypeOK /\ FilesFit /\ at[d] \in 1..N
        /\ FileFits(project, at[d]) /\ IsCatalog(before) /\ IsCatalog(after)
        /\ Follows(db, IF pc[d] = "undo" THEN after ELSE before)
        /\ w.op = pc[d] /\ w.at = at[d] /\ w.stmt = stmt[d]
        /\ Fits(project, db, w) /\ (pc[d] # "undo" => at[d] \notin recorded)
    BY Onward
  <2>2. w.op \in Records => w.at \notin recorded
    BY <2>1 DEF Records
  <2> SUFFICES Batch(db, Way(w)) # {}
    BY <2>2 DEF Accepts
  <2>3. CASE pc[d] \in {"record", "mark"}
    <3>1. Way(w) = <<>>
      BY <2>1, <2>3 DEF Way
    <3> QED
      BY <3>1, NoStatement
  <2>4. CASE pc[d] = "file"
    <3>1. IsWay(file.up) /\ \E kept : Turns(before, file.up, after, kept)
      BY <2>1 DEF FileFits
    <3>2. Way(w) = file.up
      BY <2>1, <2>4 DEF Way, files
    <3>3. \A i \in 1..Len(file.up) : file.up[i].op = "CreateEnum" => file.up[i].enum \notin DOMAIN db.enums
      BY <2>4 DEF CreatesAgain, files
    <3> HIDE DEF w, file, before, after
    <3> QED
      BY <2>1, <2>4, <3>1, <3>2, <3>3, Ready
  <2>5. CASE pc[d] = "undo"
    <3>1. /\ IsWay(file.down) /\ \E kept : Turns(after, file.down, before, kept)
          /\ \A i \in 1..Len(file.down) : file.down[i].op # "CreateEnum"
      BY <2>1, <2>5 DEF FileFits, Fits
    <3>2. Way(w) = file.down
      BY <2>1, <2>5 DEF Way, files
    <3> HIDE DEF w, file, before, after
    <3> QED
      BY <2>1, <2>5, <3>1, <3>2, Ready
  <2>6. CASE pc[d] = "value"
    <3> DEFINE s == file.up[stmt[d]]
    <3>1. AddsTo(before, file, after) /\ stmt[d] \in 1..Len(file.up)
      BY <2>1, <2>6, Looseness DEF Fits
    <3>2. s.op = "AddEnumValue" /\ s.enum \in DOMAIN before.enums
      BY <3>1 DEF AddsTo
    <3>3. Way(w) = <<s>>
      BY <2>1, <2>6 DEF Way, files
    <3> HIDE DEF w, s, file, before, after
    <3>4. s.enum \in DOMAIN db.enums
      BY <2>1, <2>6, <3>2 DEF Follows, Grown
    <3>5. Applies(db, s)
      BY <3>2, <3>4 DEF Applies
    <3> QED
      BY <3>3, <3>5, OneStatement DEF Each
  <2> QED
    BY <2>3, <2>4, <2>5, <2>6 DEF OnWire
<1> QED
  BY FitAlways, <1>1, PTL

\* ... and the values of the columns that the declarations keep are there after
\* every file and every way back, under the new name of a column that is renamed,
\* on a database with more types and values than the schema has.
THEOREM CarriesRows == Spec /\ FilesFit => []RowsCarried
<1>1. FitInv => RowsCarried
  <2> SUFFICES ASSUME FitInv, ~apart, NEW d \in Deploys, pc[d] \in {"file", "undo"}
               PROVE  LET kept == {IF pc[d] = "file" THEN p[2] ELSE p[1] : p \in files[at[d]].carried} IN
                      \A after \in Batch(FullOf(db), Way(Wire(d))) : kept \subseteq after.rows
    BY DEF RowsCarried
  <2>1. pc[d] \in OnWire
    BY DEF OnWire
  <2> DEFINE before == ShapeOf(project, at[d] - 1)
             after == ShapeOf(project, at[d])
             file == project.files[at[d]]
  <2>2. /\ FileFits(project, at[d]) /\ IsCatalog(before) /\ IsCatalog(after)
        /\ Follows(db, IF pc[d] = "undo" THEN after ELSE before)
        /\ Wire(d).op = pc[d] /\ Wire(d).at = at[d] /\ Fits(project, db, Wire(d))
    BY <2>1, Onward
  <2>3. CASE pc[d] = "file"
    <3> DEFINE kept == {p[2] : p \in file.carried}
    <3>1. IsWay(file.up) /\ Turns(before, file.up, after, kept)
      BY <2>2 DEF FileFits
    <3>2. Way(Wire(d)) = file.up
      BY <2>2, <2>3 DEF Way, files
    <3>3. kept = {IF pc[d] = "file" THEN p[2] ELSE p[1] : p \in files[at[d]].carried}
      BY <2>3 DEF files
    <3> HIDE DEF kept, file, before, after
    <3>4. \A x \in Batch(FullOf(db), file.up) : kept \subseteq x.rows
      BY <2>2, <2>3, <3>1, Turned
    <3> QED
      BY <3>2, <3>3, <3>4
  <2>4. CASE pc[d] = "undo"
    <3> DEFINE kept == {p[1] : p \in file.carried}
    <3>1. IsWay(file.down) /\ Turns(after, file.down, before, kept)
      BY <2>2, <2>4 DEF FileFits, Fits
    <3>2. Way(Wire(d)) = file.down
      BY <2>2, <2>4 DEF Way, files
    <3>3. kept = {IF pc[d] = "file" THEN p[2] ELSE p[1] : p \in files[at[d]].carried}
      BY <2>4 DEF files
    <3> HIDE DEF kept, file, before, after
    <3>4. \A x \in Batch(FullOf(db), file.down) : kept \subseteq x.rows
      BY <2>2, <2>4, <3>1, Turned
    <3> QED
      BY <3>2, <3>3, <3>4
  <2> QED
    BY <2>3, <2>4
<1> QED
  BY FitAlways, <1>1, PTL
=============================================================================
