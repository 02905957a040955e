---------------------------- MODULE TxPoolProofs ----------------------------
(***************************************************************************)
(* Theorems about TxPool, for pools, requests and bounds of any size.      *)
(***************************************************************************)
EXTENDS TxPool, TLAPS

(***************************************************************************)
(* Types.                                                                  *)
(***************************************************************************)

LEMMA ConnTyped ==
    ASSUME TypeOK, NEW r \in Requests
    PROVE  /\ Inside(r) => Pinned(r) \in Conns
           /\ Sends(r) => Conn(r) \in Conns
           /\ pc[r] = "begin" => taken[r] \in Conns
BY ConnsAssumption DEF TypeOK, Coherent, Inside, Pinned, Sends, Conn, Places

LEMMA TypeInit == Init => TypeOK
BY ConnsAssumption, BoundsAssumption
DEF Init, TypeOK, Coherent, Inside, Places, Writes

LEMMA TypePool ==
    ASSUME TypeOK, NEW r \in Requests,
           (\E c \in Conns : TakeForStatement(r, c) \/ TakeForBlock(r, c)) \/ GetFails(r)
    PROVE  TypeOK'
<1>1. CASE GetFails(r)
  BY <1>1, ConnsAssumption
  DEF GetFails, WantsStatement, WantsBlock, WantsScope, TypeOK, Coherent, Inside, Places,
      session, outcome, config
<1>2. ASSUME NEW c \in Conns, NEW next \in {"one", "begin"}, GetConnection(r, c, next),
             pc[r] \in {"new", "run"}, next = "one" => ~Inside(r), block[r] = NoConn
      PROVE  TypeOK'
  BY <1>2, ConnsAssumption
  DEF GetConnection, Recycled, TypeOK, Coherent, Inside, Places, outcome, config
<1>3. CASE \E c \in Conns : TakeForStatement(r, c)
  BY <1>2, <1>3 DEF TakeForStatement, WantsStatement, Inside
<1>4. CASE \E c \in Conns : TakeForBlock(r, c)
  BY <1>2, <1>4 DEF TakeForBlock, WantsBlock, WantsScope, Inside, TypeOK, Coherent
<1> QED
  BY <1>1, <1>3, <1>4

LEMMA TypeBegin ==
    ASSUME TypeOK, NEW r \in Requests, Begin(r) \/ BeginFails(r)
    PROVE  TypeOK'
<1>1. CASE Begin(r)
  BY <1>1, ConnsAssumption, ConnTyped
  DEF Begin, TypeOK, Coherent, Inside, Places, outcome, config
<1>2. CASE BeginFails(r)
  BY <1>2, ConnsAssumption
  DEF BeginFails, TypeOK, Coherent, Inside, Places, session, outcome, config
<1> QED
  BY <1>1, <1>2

LEMMA TypeStatement ==
    ASSUME TypeOK, NEW r \in Requests,
           Statement(r) \/ StatementFails(r) \/ StatementRefused(r) \/ StatementReplyLost(r)
    PROVE  TypeOK'
<1>1. CASE Statement(r)
  <2> DEFINE w == <<r, n[r] + 1>>
  <2>1. w \in Writes /\ n[r] + 1 \in 0..MaxStmts
    BY <1>1, BoundsAssumption DEF Statement, Writes, TypeOK
  <2>2. Conn(r) \in Conns /\ (pc[r] = "one" \/ (pc[r] = "run" /\ Inside(r)))
    BY <1>1, ConnTyped DEF Statement, Sends
  <2>3. /\ durable' \subseteq Writes /\ acked' \subseteq Writes
        /\ wrote' \in [Conns -> SUBSET Writes]
    BY <1>1, <2>1, <2>2 DEF Statement, TypeOK
  <2>4. n' \in [Requests -> 0..MaxStmts]
    BY <1>1, <2>1 DEF Statement, TypeOK
  <2> QED
    BY <1>1, <2>2, <2>3, <2>4, ConnsAssumption
    DEF Statement, Released, TypeOK, Coherent, Inside, Places, config
<1>2. CASE StatementFails(r)
  BY <1>2, ConnsAssumption, ConnTyped
  DEF StatementFails, Sends, Released, TypeOK, Coherent, Inside, Places, outcome, config
<1>3. CASE StatementRefused(r)
  BY <1>3, ConnsAssumption
  DEF StatementRefused, Sends, Released, TypeOK, Coherent, Inside, Places, session,
      outcome, config
<1>4. CASE StatementReplyLost(r)
  <2>1. <<r, n[r] + 1>> \in Writes /\ n[r] + 1 \in 0..MaxStmts /\ lost + 1 \in 0..MaxLost
    BY <1>4, BoundsAssumption DEF StatementReplyLost, Writes, TypeOK
  <2> QED
    BY <1>4, <2>1, ConnsAssumption
    DEF StatementReplyLost, Released, TypeOK, Coherent, Inside, Places, config
<1> QED
  BY <1>1, <1>2, <1>3, <1>4

LEMMA TypeFlow ==
    ASSUME TypeOK, NEW r \in Requests, Throw(r) \/ Catch(r) \/ Answer(r) \/ Drop(r)
    PROVE  TypeOK'
<1>1. CASE Throw(r)
  BY <1>1 DEF Throw, TypeOK, Coherent, Inside, Places, session, outcome, config
<1>2. CASE Catch(r)
  BY <1>2 DEF Catch, TypeOK, Coherent, Inside, Places, session, outcome, config
<1>3. CASE Answer(r)
  BY <1>3 DEF Answer, TypeOK, Coherent, Inside, Places, session, outcome, config
<1>4. CASE Drop(r)
  BY <1>4, ConnsAssumption
  DEF Drop, TypeOK, Coherent, Inside, Places, session, outcome, config
<1> QED
  BY <1>1, <1>2, <1>3, <1>4

LEMMA TypeSavepoint ==
    ASSUME TypeOK, NEW r \in Requests,
           Savepoint(r) \/ AssertNotRaised(r) \/ AssertRaised(r)
    PROVE  TypeOK'
<1>1. CASE Savepoint(r)
  BY <1>1, ConnTyped
  DEF Savepoint, TypeOK, Coherent, Inside, Places, outcome, config
<1>2. CASE AssertNotRaised(r)
  BY <1>2 DEF AssertNotRaised, TypeOK, Coherent, Inside, Places, outcome, config
<1>3. CASE AssertRaised(r)
  <2>1. Pinned(r) \in Conns
    BY <1>3 DEF AssertRaised, SavepointHere, TypeOK
  <2>2. tx' \in [Conns -> {"none", "open", "aborted", "lost"}]
        /\ wrote' \in [Conns -> SUBSET Writes]
    BY <1>3, <2>1 DEF AssertRaised, TypeOK
  <2>3. /\ pc' \in [Requests -> Places]
        /\ pc[r] \in Raised /\ pc'[r] \in {"fault", "run"}
        /\ \A q \in Requests \ {r} : pc'[q] = pc[q]
    BY <1>3 DEF AssertRaised, TypeOK, Places
  <2> QED
    BY <1>3, <2>2, <2>3 DEF AssertRaised, Raised, TypeOK, Coherent, Inside, Places,
                            outcome, config
<1> QED
  BY <1>1, <1>2, <1>3

LEMMA TypeEnd ==
    ASSUME TypeOK, NEW r \in Requests, Commit(r) \/ Rollback(r) \/ CommitReplyLost(r)
    PROVE  TypeOK'
<1>1. Pinned(r) \in Conns /\ Own(r, Pinned(r)) \subseteq Writes
      /\ wrote[Pinned(r)] \subseteq Writes
  BY ConnTyped DEF Commit, Rollback, CommitReplyLost, Ends, Own, TypeOK
<1>2. /\ scope' \in [Requests -> Conns \cup {NoConn}]
      /\ block' \in [Requests -> Conns \cup {NoConn}]
  BY DEF Commit, Rollback, CommitReplyLost, Unpinned, TypeOK
<1>3. CASE Commit(r)
  BY <1>1, <1>2, <1>3
  DEF Commit, Ends, Commits, Raised, Ended, Unpinned, TypeOK, Coherent, Inside, Places, config
<1>4. CASE Rollback(r)
  BY <1>1, <1>2, <1>4
  DEF Rollback, Ends, Commits, Raised, Ended, Unpinned, TypeOK, Coherent, Inside, Places, config
<1>5. CASE CommitReplyLost(r)
  <2>1. lost + 1 \in 0..MaxLost
    BY <1>5, BoundsAssumption DEF CommitReplyLost, TypeOK
  <2> QED
    BY <1>1, <1>2, <1>5, <2>1
    DEF CommitReplyLost, Ends, Commits, Unpinned, TypeOK, Coherent, Inside, Places, config
<1> QED
  BY <1>3, <1>4, <1>5

LEMMA TypeLose ==
    ASSUME TypeOK, NEW c \in Conns, Lose(c)
    PROVE  TypeOK'
<1>1. lost + 1 \in 0..MaxLost
  BY BoundsAssumption DEF Lose, TypeOK
<1> QED
  BY <1>1 DEF Lose, TypeOK, Coherent, Inside, Places, request, outcome, config

LEMMA TypeNext == TypeOK /\ [Next]_vars => TypeOK'
<1> SUFFICES ASSUME TypeOK, [Next]_vars PROVE TypeOK'
  OBVIOUS
<1>1. CASE UNCHANGED vars
  BY <1>1 DEF vars, config, request, session, outcome, TypeOK, Coherent, Inside
<1>2. ASSUME NEW r \in Requests, RequestStep(r) PROVE TypeOK'
  BY <1>2, TypePool, TypeBegin, TypeStatement, TypeFlow, TypeSavepoint, TypeEnd
  DEF RequestStep
<1>3. ASSUME NEW c \in Conns, Lose(c) PROVE TypeOK'
  BY <1>3, TypeLose
<1> QED
  BY <1>1, <1>2, <1>3 DEF Next

\* Every variable keeps its type, and every place of a handler holds the
\* connections it should, for any pool and any number of requests.
\* (exec.rs, in_scoped_transaction; db.rs, run)
THEOREM TypeCorrect == Spec => []TypeOK
<1>1. Init => TypeOK
  BY TypeInit
<1>2. TypeOK /\ [Next]_vars => TypeOK'
  BY TypeNext
<1> QED
  BY <1>1, <1>2, PTL DEF Spec

(***************************************************************************)
(* Connections.  Who holds one, and what Postgres is in on it.             *)
(***************************************************************************)

\* A connection is in one hand at most, and in one way.
Exclusive ==
    /\ \A r, q \in Requests : r # q => Holds(r) \cap Holds(q) = {}
    /\ \A r \in Requests :
           /\ taken[r] # NoConn => taken[r] # scope[r] /\ taken[r] # block[r]
           /\ scope[r] # NoConn => scope[r] # block[r]

Free(c) == \A r \in Requests : scope[r] # c /\ block[r] # c

\* A connection no block is pinned to is in no transaction.
Resting == \A c \in Conns :
               Free(c) => tx[c] \in {"none", "lost"} /\ wrote[c] = {} /\ c \notin saved

\* One a block is pinned to is in that block's, with nobody else's writes.
Working == \A r \in Requests : \A c \in {scope[r], block[r]} \ {NoConn} :
               /\ tx[c] # "none"
               /\ \A w \in wrote[c] \cup mark[c] : w[1] = r

Marks == \A c \in Conns : c \notin saved => mark[c] = {}

PoolInv == TypeOK /\ Exclusive /\ Resting /\ Working /\ Marks

(* Handlers, when no error is caught inside of a block: what goes on inside  *)
(* one, or inside the scope around it, goes on in a live transaction.        *)

LiveAt(r) ==
    /\ pc[r] # "leaving"
    /\ pc[r] \in {"run", "one", "begin"} =>
           \A c \in {scope[r], block[r]} \ {NoConn} : tx[c] # "aborted"
    /\ scope[r] # NoConn /\ block[r] # NoConn => tx[scope[r]] # "aborted"

Live == \A r \in Requests : LiveAt(r)

LEMMA PoolInit == Init => PoolInv /\ Live
BY TypeInit, ConnsAssumption
DEF Init, PoolInv, Exclusive, Holds, Free, Resting, Working, Marks, Live, LiveAt

\* Giving connections back, and passing them from one hand to the other, keeps
\* them in one hand.
LEMMA HandOver ==
    ASSUME Exclusive, NEW r \in Requests,
           \A q \in Requests \ {r} :
               taken'[q] = taken[q] /\ scope'[q] = scope[q] /\ block'[q] = block[q],
           {taken'[r], scope'[r], block'[r]} \subseteq {taken[r], scope[r], block[r], NoConn},
           taken'[r] # NoConn => taken'[r] # scope'[r] /\ taken'[r] # block'[r],
           scope'[r] # NoConn => scope'[r] # block'[r]
    PROVE  Exclusive'
<1>1. \A q \in Requests \ {r} : Holds(q)' = Holds(q)
  BY DEF Holds
<1>2. Holds(r)' \subseteq Holds(r)
  BY DEF Holds
<1>3. \A p, q \in Requests : p # q => Holds(p)' \cap Holds(q)' = {}
  BY <1>1, <1>2 DEF Exclusive
<1>4. \A q \in Requests :
          /\ taken'[q] # NoConn => taken'[q] # scope'[q] /\ taken'[q] # block'[q]
          /\ scope'[q] # NoConn => scope'[q] # block'[q]
  BY DEF Exclusive
<1> QED
  BY <1>3, <1>4 DEF Exclusive

\* A statement sent to the connection of a block stays within that block.
LEMMA OnPin ==
    ASSUME PoolInv, NEW r \in Requests, NEW c \in {scope[r], block[r]} \ {NoConn},
           scope' = scope, block' = block,
           \A d \in Conns \ {c} : /\ tx'[d] = tx[d] /\ wrote'[d] = wrote[d]
                                  /\ mark'[d] = mark[d]
                                  /\ d \in saved' <=> d \in saved,
           tx'[c] # "none",
           \A w \in wrote'[c] \cup mark'[c] : w[1] = r,
           c \notin saved' => mark'[c] = {}
    PROVE  Resting' /\ Working' /\ Marks'
<1>1. c \in Conns /\ ~Free(c)
  BY DEF PoolInv, TypeOK, Free
<1>2. \A q \in Requests \ {r} : c # scope[q] /\ c # block[q]
  BY DEF PoolInv, Exclusive, Holds
<1>3. \A d \in Conns : Free(d)' <=> Free(d)
  BY DEF Free
<1>4. Resting'
  BY <1>1, <1>3 DEF PoolInv, Resting
<1>5. Working'
  <2> SUFFICES ASSUME NEW q \in Requests, NEW d \in {scope[q], block[q]} \ {NoConn}
               PROVE  tx'[d] # "none" /\ \A w \in wrote'[d] \cup mark'[d] : w[1] = q
    BY DEF Working
  <2>1. d \in Conns
    BY DEF PoolInv, TypeOK
  <2>2. CASE d = c
    BY <1>2, <2>2
  <2>3. CASE d # c
    BY <2>1, <2>3 DEF PoolInv, Working
  <2> QED
    BY <2>2, <2>3
<1>6. Marks'
  BY <1>1 DEF PoolInv, Marks
<1> QED
  BY <1>4, <1>5, <1>6

LEMMA PoolGet ==
    ASSUME PoolInv, NEW r \in Requests, NEW c \in Conns, NEW next, GetConnection(r, c, next)
    PROVE  Exclusive' /\ Resting' /\ Working' /\ Marks'
<1>1. c # NoConn /\ \A q \in Requests : c \notin Holds(q)
  BY ConnsAssumption DEF GetConnection, Idle
<1>2. Exclusive'
  BY <1>1 DEF GetConnection, PoolInv, TypeOK, Exclusive, Holds
<1>3. Free(c)
  BY <1>1 DEF Free, Holds
<1>4. Resting' /\ Working' /\ Marks'
  BY <1>1, <1>3, ConnsAssumption
  DEF GetConnection, Recycled, PoolInv, TypeOK, Resting, Free, Working, Marks, Holds
<1> QED
  BY <1>2, <1>4

LEMMA PoolBegin ==
    ASSUME PoolInv, NEW r \in Requests, Begin(r) \/ BeginFails(r)
    PROVE  Exclusive' /\ Resting' /\ Working' /\ Marks'
<1> DEFINE c == taken[r]
<1>1. /\ c \in Conns /\ c # NoConn
      /\ c # scope[r] /\ c # block[r]
      /\ \A q \in Requests \ {r} : c # taken[q] /\ c # scope[q] /\ c # block[q]
  BY ConnTyped, ConnsAssumption DEF Begin, BeginFails, PoolInv, Exclusive, Holds
<1>2. Free(c) /\ tx[c] \in {"none", "lost"} /\ wrote[c] = {} /\ mark[c] = {} /\ c \notin saved
  BY <1>1 DEF Free, PoolInv, Resting, Marks
<1>3. CASE Begin(r)
  <2>1. /\ scope'[r] # NoConn /\ scope[r] # NoConn => scope'[r] = scope[r]
        /\ block'[r] # NoConn /\ block[r] # NoConn => block'[r] = block[r]
        /\ {scope'[r], block'[r]} \subseteq {scope[r], block[r], c}
        /\ c \in {scope'[r], block'[r]}
        /\ taken'[r] = NoConn
        /\ \A q \in Requests \ {r} :
               scope'[q] = scope[q] /\ block'[q] = block[q] /\ taken'[q] = taken[q]
        /\ scope'[r] # NoConn => scope'[r] # block'[r]
        /\ {scope[r], block[r]} \subseteq {scope'[r], block'[r], NoConn}
    BY <1>1, <1>3 DEF Begin, PoolInv, TypeOK, Coherent, Exclusive
  <2>2. Exclusive'
    BY <2>1, HandOver DEF PoolInv
  <2>3. Resting'
    <3> SUFFICES ASSUME NEW d \in Conns, Free(d)'
                 PROVE  tx'[d] \in {"none", "lost"} /\ wrote'[d] = {} /\ d \notin saved'
      BY DEF Resting
    <3>1. d # c
      BY <2>1 DEF Free
    <3>2. Free(d)
      BY <2>1, <3>1, ConnsAssumption DEF Free
    <3> QED
      BY <1>3, <3>1, <3>2 DEF Begin, PoolInv, TypeOK, Resting
  <2>4. Working'
    BY <1>1, <1>2, <1>3, <2>1 DEF Begin, PoolInv, TypeOK, Working, Free
  <2>5. Marks'
    BY <1>3 DEF Begin, PoolInv, Marks
  <2> QED
    BY <2>2, <2>3, <2>4, <2>5
<1>4. CASE BeginFails(r)
  <2>1. Exclusive'
    BY <1>4, HandOver DEF BeginFails, PoolInv, TypeOK, Exclusive
  <2> QED
    BY <1>4, <2>1 DEF BeginFails, session, PoolInv, Resting, Free, Working, Marks
<1> QED
  BY <1>3, <1>4

LEMMA PoolStatement ==
    ASSUME PoolInv, NEW r \in Requests,
           Statement(r) \/ StatementFails(r) \/ StatementRefused(r) \/ StatementReplyLost(r)
    PROVE  Exclusive' /\ Resting' /\ Working' /\ Marks'
<1>1. Exclusive'
  BY HandOver DEF Statement, StatementFails, StatementRefused, StatementReplyLost, Released,
                  PoolInv, TypeOK, Exclusive
<1>2. ASSUME Sends(r)
      PROVE  /\ Conn(r) \in Conns
             /\ Inside(r) => Conn(r) \in {scope[r], block[r]} \ {NoConn}
             /\ ~Inside(r) => tx[Conn(r)] \in {"none", "lost"} /\ Free(Conn(r))
  <2>1. Conn(r) \in Conns
    BY <1>2, ConnTyped DEF PoolInv
  <2>2. CASE Inside(r)
    BY <2>1, <2>2, ConnsAssumption DEF Conn, Pinned, Inside
  <2>3. CASE ~Inside(r)
    <3>1. Conn(r) = taken[r] /\ taken[r] # NoConn
      BY <2>1, <2>3, ConnsAssumption DEF Conn
    <3>2. Free(Conn(r))
      BY <3>1 DEF PoolInv, Exclusive, Holds, Free
    <3> QED
      BY <2>1, <2>3, <3>2 DEF PoolInv, Resting
  <2> QED
    BY <2>1, <2>2, <2>3
<1>3. CASE Statement(r)
  <2>1. Sends(r) /\ Conn(r) \in Conns
    BY <1>2, <1>3 DEF Statement
  <2>2. CASE Inside(r)
    BY <1>1, <1>2, <1>3, <2>1, <2>2, OnPin
    DEF Statement, PoolInv, TypeOK, Working, Marks
  <2>3. CASE ~Inside(r)
    BY <1>1, <1>2, <1>3, <2>1, <2>3
    DEF Statement, PoolInv, Resting, Free, Working, Marks
  <2> QED
    BY <2>2, <2>3
<1>4. CASE StatementFails(r)
  <2>1. Sends(r) /\ Conn(r) \in Conns
    BY <1>2, <1>4 DEF StatementFails
  <2>2. CASE Inside(r)
    <3>1. tx'[Conn(r)] # "none"
      BY <1>2, <1>4, <2>1, <2>2 DEF StatementFails, PoolInv, TypeOK, Working
    <3> QED
      BY <1>1, <1>2, <1>4, <2>1, <2>2, <3>1, OnPin
      DEF StatementFails, PoolInv, TypeOK, Working, Marks
  <2>3. CASE ~Inside(r)
    <3>1. tx' = tx
      BY <1>2, <1>4, <2>1, <2>3 DEF StatementFails, PoolInv, TypeOK
    <3> QED
      BY <1>1, <1>4, <3>1 DEF StatementFails, PoolInv, Resting, Free, Working, Marks
  <2> QED
    BY <2>2, <2>3
<1>5. CASE StatementRefused(r)
  BY <1>1, <1>5
  DEF StatementRefused, session, PoolInv, TypeOK, Resting, Free, Working, Marks
<1>6. CASE StatementReplyLost(r)
  <2>1. Sends(r) /\ Conn(r) = taken[r]
    BY <1>6 DEF StatementReplyLost, Sends, Conn, PoolInv, TypeOK, Coherent
  <2> QED
    BY <1>1, <1>2, <1>6, <2>1
    DEF StatementReplyLost, PoolInv, TypeOK, Resting, Free, Working, Marks
<1> QED
  BY <1>3, <1>4, <1>5, <1>6

LEMMA PoolFlow ==
    ASSUME PoolInv, "inside" \notin Drops, NEW r \in Requests,
           Throw(r) \/ Catch(r) \/ Answer(r) \/ GetFails(r) \/ Drop(r)
    PROVE  Exclusive' /\ Resting' /\ Working' /\ Marks'
<1>1. CASE Throw(r) \/ Catch(r) \/ Answer(r) \/ GetFails(r)
  <2>1. taken' = taken /\ scope' = scope /\ block' = block /\ UNCHANGED session
    BY <1>1 DEF Throw, Catch, Answer, GetFails
  <2>2. Exclusive'
    BY <2>1 DEF PoolInv, Exclusive, Holds
  <2>3. Resting' /\ Marks'
    BY <2>1 DEF session, PoolInv, Resting, Free, Marks
  <2>4. Working'
    BY <2>1 DEF session, PoolInv, Working
  <2> QED
    BY <2>2, <2>3, <2>4
<1>2. CASE Drop(r)
  <2>1. ~Inside(r) /\ block[r] = NoConn
    BY <1>2 DEF Drop, Inside
  <2>2. block' = block
    BY <1>2, <2>1 DEF Drop, PoolInv, TypeOK
  <2>3. Exclusive'
    BY <1>2, <2>2, HandOver DEF Drop, PoolInv, TypeOK, Exclusive
  <2> QED
    BY <1>2, <2>2, <2>3 DEF Drop, session, PoolInv, Resting, Free, Working, Marks
<1> QED
  BY <1>1, <1>2

LEMMA PoolSavepoint ==
    ASSUME PoolInv, NEW r \in Requests,
           Savepoint(r) \/ AssertNotRaised(r) \/ AssertRaised(r)
    PROVE  Exclusive' /\ Resting' /\ Working' /\ Marks'
<1> DEFINE c == Pinned(r)
<1>1. Exclusive'
  BY DEF Savepoint, AssertNotRaised, AssertRaised, PoolInv, Exclusive, Holds
<1>2. c \in Conns /\ c \in {scope[r], block[r]} \ {NoConn}
  BY ConnTyped, ConnsAssumption
  DEF Savepoint, AssertNotRaised, AssertRaised, SavepointHere, PoolInv, TypeOK, Pinned,
      Inside
<1>3. tx[c] # "none" /\ \A w \in wrote[c] \cup mark[c] : w[1] = r
  BY <1>2 DEF PoolInv, Working
<1>4. /\ scope' = scope /\ block' = block
      /\ \A d \in Conns \ {c} : /\ tx'[d] = tx[d] /\ wrote'[d] = wrote[d]
                                /\ mark'[d] = mark[d]
                                /\ d \in saved' <=> d \in saved
  BY DEF Savepoint, AssertNotRaised, AssertRaised, PoolInv, TypeOK
<1>5. tx'[c] # "none"
  BY <1>2, <1>3 DEF Savepoint, AssertNotRaised, AssertRaised, PoolInv, TypeOK
<1>6. /\ \A w \in wrote'[c] \cup mark'[c] : w[1] = r
      /\ c \notin saved' => mark'[c] = {}
  BY <1>2, <1>3 DEF Savepoint, AssertNotRaised, AssertRaised, PoolInv, TypeOK, Marks
<1> QED
  BY <1>1, <1>2, <1>4, <1>5, <1>6, OnPin

LEMMA PoolEnd ==
    ASSUME PoolInv, NEW r \in Requests, Commit(r) \/ Rollback(r) \/ CommitReplyLost(r)
    PROVE  Exclusive' /\ Resting' /\ Working' /\ Marks'
<1> DEFINE c == Pinned(r)
<1>1. /\ c \in Conns /\ c \notin saved /\ ~Free(c)
      /\ \A q \in Requests \ {r} : c # scope[q] /\ c # block[q]
  BY ConnTyped, ConnsAssumption
  DEF Commit, Rollback, CommitReplyLost, Ends, SavepointHere, PoolInv, TypeOK, Pinned,
      Inside, Free, Exclusive, Holds
<1>2. /\ c \notin {scope'[r], block'[r]}
      /\ {scope'[r], block'[r]} \subseteq {scope[r], block[r], NoConn}
      /\ {scope[r], block[r]} \subseteq {scope'[r], block'[r], c, NoConn}
      /\ scope'[r] # NoConn => scope'[r] = scope[r]
      /\ block'[r] # NoConn => block'[r] = block[r]
      /\ \A q \in Requests \ {r} : scope'[q] = scope[q] /\ block'[q] = block[q]
      /\ taken' = taken
  BY <1>1, ConnsAssumption
  DEF Commit, Rollback, CommitReplyLost, Ends, Inside, Unpinned, Pinned, PoolInv, TypeOK,
      Exclusive, Holds
<1>3. /\ tx'[c] \in {"none", "lost"} /\ wrote'[c] = {} /\ saved' = saved /\ mark' = mark
      /\ \A d \in Conns \ {c} : tx'[d] = tx[d] /\ wrote'[d] = wrote[d]
  BY <1>1 DEF Commit, Rollback, CommitReplyLost, Ended, PoolInv, TypeOK
<1>4. Exclusive'
  BY <1>2, HandOver DEF PoolInv, Exclusive
<1>5. Resting'
  BY <1>1, <1>2, <1>3, ConnsAssumption DEF PoolInv, Resting, Free
<1>6. Working' /\ Marks'
  BY <1>1, <1>2, <1>3, ConnsAssumption DEF PoolInv, TypeOK, Working, Marks
<1> QED
  BY <1>4, <1>5, <1>6

LEMMA PoolLose ==
    ASSUME PoolInv, NEW c \in Conns, Lose(c)
    PROVE  Exclusive' /\ Resting' /\ Working' /\ Marks'
<1>1. Exclusive'
  BY DEF Lose, request, PoolInv, Exclusive, Holds
<1>2. /\ tx'[c] = "lost" /\ wrote'[c] = {} /\ mark'[c] = {}
      /\ \A d \in Conns \ {c} : tx'[d] = tx[d] /\ wrote'[d] = wrote[d] /\ mark'[d] = mark[d]
      /\ scope' = scope /\ block' = block /\ saved' = saved
  BY DEF Lose, request, PoolInv, TypeOK
<1>3. Resting'
  BY <1>2 DEF PoolInv, Resting, Free
<1>4. Working'
  <2> SUFFICES ASSUME NEW q \in Requests, NEW d \in {scope[q], block[q]} \ {NoConn}
               PROVE  tx'[d] # "none" /\ \A w \in wrote'[d] \cup mark'[d] : w[1] = q
    BY <1>2 DEF Working
  <2>1. d \in Conns
    BY DEF PoolInv, TypeOK
  <2> QED
    BY <1>2, <2>1 DEF PoolInv, Working
<1>5. Marks'
  BY <1>2 DEF PoolInv, Marks
<1> QED
  BY <1>1, <1>3, <1>4, <1>5

LEMMA PoolNext == "inside" \notin Drops /\ PoolInv /\ [Next]_vars => PoolInv'
<1> SUFFICES ASSUME "inside" \notin Drops, PoolInv, [Next]_vars
             PROVE  Exclusive' /\ Resting' /\ Working' /\ Marks'
  BY TypeNext DEF PoolInv
<1>1. CASE UNCHANGED vars
  BY <1>1 DEF vars, request, session, PoolInv, Exclusive, Holds, Resting, Free, Working, Marks
<1>2. ASSUME NEW r \in Requests, RequestStep(r)
      PROVE  Exclusive' /\ Resting' /\ Working' /\ Marks'
  BY <1>2, PoolGet, PoolBegin, PoolStatement, PoolFlow, PoolSavepoint, PoolEnd
  DEF RequestStep, TakeForStatement, TakeForBlock
<1>3. ASSUME NEW c \in Conns, Lose(c)
      PROVE  Exclusive' /\ Resting' /\ Working' /\ Marks'
  BY <1>3, PoolLose
<1> QED
  BY <1>1, <1>2, <1>3 DEF Next

\* As long as no future is dropped inside of a block, every connection goes
\* back to the pool outside of any transaction, whatever else fails.
\* (exec.rs, in_scoped_transaction; serve.rs, request_timeout)
THEOREM ReturnedClean == "inside" \notin Drops => (Spec => []PoolClean)
<1> SUFFICES ASSUME "inside" \notin Drops PROVE Spec => []PoolClean
  OBVIOUS
<1>1. Init => PoolInv
  BY PoolInit
<1>2. PoolInv /\ [Next]_vars => PoolInv'
  BY PoolNext
<1>3. PoolInv => PoolClean
  BY ConnsAssumption DEF PoolInv, TypeOK, Resting, Free, PoolClean, Idle, Holds
<1> QED
  BY <1>1, <1>2, <1>3, PTL DEF Spec

(***************************************************************************)
(* What handlers are told.                                                 *)
(***************************************************************************)

Inward == "inside" \notin Drops /\ Catches \subseteq {"outside"}

\* A step of r on a connection of its own leaves the blocks of others alone.
LEMMA LiveFrame ==
    ASSUME PoolInv, Live, NEW r \in Requests, NEW c \in Conns,
           \A q \in Requests \ {r} : /\ pc'[q] = pc[q] /\ scope'[q] = scope[q]
                                     /\ block'[q] = block[q]
                                     /\ c # scope[q] /\ c # block[q],
           \A d \in Conns \ {c} : tx'[d] = tx[d],
           LiveAt(r)'
    PROVE  Live'
<1> SUFFICES ASSUME NEW q \in Requests \ {r} PROVE LiveAt(q)'
  BY DEF Live
<1>1. LiveAt(q)
  BY DEF Live
<1>2. \A d \in {scope[q], block[q]} \ {NoConn} : tx'[d] = tx[d]
  BY DEF PoolInv, TypeOK
<1> QED
  BY <1>1, <1>2 DEF LiveAt

LEMMA LiveGet ==
    ASSUME PoolInv, Live, NEW r \in Requests, NEW c \in Conns, NEW next \in {"one", "begin"},
           GetConnection(r, c, next), pc[r] = "run" \/ ~Inside(r)
    PROVE  Live'
<1>1. \A q \in Requests : c # scope[q] /\ c # block[q]
  BY ConnsAssumption DEF GetConnection, Idle, Holds
<1>2. LiveAt(r)'
  BY <1>1 DEF GetConnection, Live, LiveAt, Inside, PoolInv, TypeOK
<1> QED
  BY <1>1, <1>2, LiveFrame DEF GetConnection, PoolInv, TypeOK

LEMMA LiveBegin ==
    ASSUME PoolInv, Live, NEW r \in Requests, Begin(r) \/ BeginFails(r)
    PROVE  Live'
<1> DEFINE c == taken[r]
<1>1. /\ c \in Conns /\ c # NoConn /\ c # scope[r] /\ c # block[r]
      /\ \A q \in Requests \ {r} : c # scope[q] /\ c # block[q]
  BY ConnTyped, ConnsAssumption DEF Begin, BeginFails, PoolInv, Exclusive, Holds
<1>2. LiveAt(r)'
  BY <1>1 DEF Begin, BeginFails, session, Live, LiveAt, PoolInv, TypeOK, Coherent
<1> QED
  BY <1>1, <1>2, LiveFrame DEF Begin, BeginFails, session, PoolInv, TypeOK

LEMMA LiveStatement ==
    ASSUME PoolInv, Live, NEW r \in Requests,
           Statement(r) \/ StatementFails(r) \/ StatementRefused(r) \/ StatementReplyLost(r)
    PROVE  Live'
<1> DEFINE c == Conn(r)
<1>1. Sends(r) /\ (StatementReplyLost(r) => c = taken[r])
  BY DEF Statement, StatementFails, StatementRefused, StatementReplyLost, Sends, Conn,
         PoolInv, TypeOK, Coherent
<1>2. c \in Conns /\ c # NoConn
  BY <1>1, ConnTyped, ConnsAssumption DEF PoolInv
<1>3. /\ c \in Holds(r)
      /\ Inside(r) => c = Pinned(r)
      /\ ~Inside(r) => scope[r] = NoConn /\ block[r] = NoConn
  BY <1>2 DEF Conn, Pinned, Inside, Holds
<1>4. \A q \in Requests \ {r} : c # scope[q] /\ c # block[q]
  BY <1>2, <1>3 DEF PoolInv, Exclusive, Holds
<1>5. /\ \A d \in Conns \ {c} : tx'[d] = tx[d]
      /\ \A q \in Requests \ {r} : pc'[q] = pc[q]
      /\ scope' = scope /\ block' = block
  BY <1>1 DEF Statement, StatementFails, StatementRefused, StatementReplyLost, session,
              PoolInv, TypeOK
<1>6. LiveAt(r)'
  <2>1. CASE Statement(r)
    BY <2>1, <1>1 DEF Statement, Sends, Live, LiveAt, PoolInv, TypeOK
  <2>2. CASE StatementFails(r) \/ StatementRefused(r) \/ StatementReplyLost(r)
    <3>1. pc'[r] \in {"thrown", "fault"}
      BY <2>2 DEF StatementFails, StatementRefused, StatementReplyLost, PoolInv, TypeOK
    <3>2. scope[r] # NoConn /\ block[r] # NoConn => tx'[scope[r]] = tx[scope[r]]
      BY <1>3, <1>5 DEF Pinned, Inside, PoolInv, TypeOK, Exclusive
    <3> QED
      BY <1>5, <3>1, <3>2 DEF Live, LiveAt
  <2> QED
    BY <2>1, <2>2
<1> QED
  BY <1>2, <1>4, <1>5, <1>6, LiveFrame

LEMMA LiveFlow ==
    ASSUME Inward, PoolInv, Live, NEW r \in Requests,
           Throw(r) \/ Catch(r) \/ Answer(r) \/ GetFails(r) \/ Drop(r)
    PROVE  Live'
<1>1. CASE Throw(r) \/ Answer(r) \/ GetFails(r)
  BY <1>1 DEF Throw, Answer, GetFails, session, Live, LiveAt, PoolInv, TypeOK
<1>2. CASE Catch(r)
  <2>1. ~Inside(r) /\ pc'[r] = "run"
    BY <1>2 DEF Catch, Inward, PoolInv, TypeOK
  <2> QED
    BY <1>2, <2>1 DEF Catch, Inside, session, Live, LiveAt, PoolInv, TypeOK
<1>3. CASE Drop(r)
  <2>1. ~Inside(r)
    BY <1>3 DEF Drop, Inward
  <2> QED
    BY <1>3, <2>1 DEF Drop, Inside, session, Live, LiveAt, PoolInv, TypeOK
<1> QED
  BY <1>1, <1>2, <1>3

LEMMA LiveSavepoint ==
    ASSUME PoolInv, Live, NEW r \in Requests,
           Savepoint(r) \/ AssertNotRaised(r) \/ AssertRaised(r)
    PROVE  Live'
<1> DEFINE c == Pinned(r)
<1>1. /\ c \in Conns /\ c \in {scope[r], block[r]} \ {NoConn}
      /\ \A q \in Requests \ {r} : c # scope[q] /\ c # block[q]
  <2>1. c \in Conns
    BY ConnTyped
    DEF Savepoint, AssertNotRaised, AssertRaised, SavepointHere, PoolInv, TypeOK
  <2>2. c \in {scope[r], block[r]} \ {NoConn}
    BY <2>1, ConnsAssumption DEF Pinned
  <2> QED
    BY <2>1, <2>2 DEF PoolInv, Exclusive, Holds
<1>2. CASE Savepoint(r) \/ AssertNotRaised(r)
  BY <1>2 DEF Savepoint, AssertNotRaised, Live, LiveAt, PoolInv, TypeOK
<1>3. CASE AssertRaised(r)
  <2>1. tx'[c] \in {"open", "lost"} /\ \A d \in Conns \ {c} : tx'[d] = tx[d]
    BY <1>1, <1>3 DEF AssertRaised, PoolInv, TypeOK
  <2>2. pc'[r] \in {"fault", "run"} /\ scope' = scope /\ block' = block
        /\ \A q \in Requests \ {r} : pc'[q] = pc[q]
    BY <1>3 DEF AssertRaised, PoolInv, TypeOK
  <2>3. \A d \in {scope[r], block[r]} \ {NoConn} : tx'[d] # "aborted"
    <3>1. CASE block[r] = NoConn
      BY <1>1, <2>1, <3>1 DEF Pinned
    <3>2. CASE block[r] # NoConn
      BY <1>1, <2>1, <3>2 DEF Pinned, Live, LiveAt, PoolInv, TypeOK
    <3> QED
      BY <3>1, <3>2
  <2>4. LiveAt(r)'
    BY <2>2, <2>3 DEF LiveAt
  <2> QED
    BY <1>1, <2>1, <2>2, <2>4, LiveFrame
<1> QED
  BY <1>2, <1>3

LEMMA LiveEnd ==
    ASSUME PoolInv, Live, NEW r \in Requests, Commit(r) \/ Rollback(r) \/ CommitReplyLost(r)
    PROVE  Live'
<1> DEFINE c == Pinned(r)
<1>1. /\ c \in Conns /\ c \in {scope[r], block[r]} \ {NoConn}
      /\ \A q \in Requests \ {r} : c # scope[q] /\ c # block[q]
  <2>1. Inside(r)
    BY DEF Commit, Rollback, CommitReplyLost, Ends
  <2>2. c \in Conns /\ c \in {scope[r], block[r]} \ {NoConn}
    BY <2>1, ConnTyped, ConnsAssumption DEF PoolInv, Pinned
  <2> QED
    BY <2>2 DEF PoolInv, Exclusive, Holds
<1>2. /\ \A d \in Conns \ {c} : tx'[d] = tx[d]
      /\ \A q \in Requests \ {r} :
             pc'[q] = pc[q] /\ scope'[q] = scope[q] /\ block'[q] = block[q]
      /\ block'[r] = NoConn
      /\ block[r] = NoConn => scope'[r] = NoConn
      /\ scope'[r] # NoConn => scope'[r] = scope[r] /\ block[r] # NoConn
  BY <1>1 DEF Commit, Rollback, CommitReplyLost, Ended, Unpinned, PoolInv, TypeOK
<1>3. pc'[r] # "leaving"
  BY DEF Commit, Rollback, CommitReplyLost, Live, LiveAt, PoolInv, TypeOK
<1>4. scope'[r] # NoConn => tx'[scope[r]] # "aborted"
  BY <1>1, <1>2 DEF Pinned, Live, LiveAt, PoolInv, TypeOK, Exclusive
<1>5. LiveAt(r)'
  BY <1>2, <1>3, <1>4 DEF LiveAt
<1> QED
  BY <1>1, <1>2, <1>5, LiveFrame

LEMMA LiveNext == Inward /\ PoolInv /\ Live /\ [Next]_vars => Live'
<1> SUFFICES ASSUME Inward, PoolInv, Live, [Next]_vars PROVE Live'
  OBVIOUS
<1>1. CASE UNCHANGED vars
  BY <1>1 DEF vars, request, session, Live, LiveAt
<1>2. ASSUME NEW r \in Requests, RequestStep(r) PROVE Live'
  <2>1. ASSUME NEW c \in Conns, TakeForStatement(r, c) \/ TakeForBlock(r, c) PROVE Live'
    <3>1. pc[r] = "run" \/ ~Inside(r)
      BY <2>1 DEF TakeForStatement, TakeForBlock, WantsStatement, WantsBlock, WantsScope,
                  PoolInv, TypeOK, Coherent
    <3> QED
      BY <2>1, <3>1, LiveGet DEF TakeForStatement, TakeForBlock
  <2> QED
    BY <1>2, <2>1, LiveBegin, LiveStatement, LiveFlow, LiveSavepoint, LiveEnd
    DEF RequestStep
<1>3. ASSUME NEW c \in Conns, Lose(c) PROVE Live'
  BY <1>3 DEF Lose, request, Live, LiveAt, PoolInv, TypeOK
<1> QED
  BY <1>1, <1>2, <1>3 DEF Next

LEMMA AckedNext ==
    Inward /\ PoolInv /\ Live /\ AckedIsDurable /\ [Next]_vars => AckedIsDurable'
<1> SUFFICES ASSUME PoolInv, Live, AckedIsDurable, [Next]_vars PROVE AckedIsDurable'
  OBVIOUS
<1>1. ASSUME durable \subseteq durable', acked' = acked PROVE AckedIsDurable'
  BY <1>1 DEF AckedIsDurable
<1>2. CASE UNCHANGED vars
  BY <1>1, <1>2 DEF vars, outcome
<1>3. ASSUME NEW r \in Requests, Statement(r) PROVE AckedIsDurable'
  <2>1. CASE Inside(r)
    BY <1>1, <1>3, <2>1 DEF Statement
  <2>2. CASE ~Inside(r)
    <3>1. taken[r] \in Conns /\ tx[taken[r]] # "open" /\ Conn(r) = taken[r]
      BY <1>3, <2>2, ConnTyped, ConnsAssumption
      DEF Statement, Sends, Conn, PoolInv, Exclusive, Holds, Resting, Free
    <3> QED
      BY <1>3, <2>2, <3>1 DEF Statement, AckedIsDurable
  <2> QED
    BY <2>1, <2>2
<1>4. ASSUME NEW r \in Requests, Commit(r) PROVE AckedIsDurable'
  <2>1. Pinned(r) \in Conns /\ tx[Pinned(r)] \in {"open", "lost"}
    BY <1>4, ConnTyped
    DEF Commit, Commits, Ends, Pinned, PoolInv, TypeOK, Working, Live, LiveAt
  <2> QED
    BY <1>4, <2>1 DEF Commit, Own, AckedIsDurable
<1>5. ASSUME NEW r \in Requests, Rollback(r) PROVE AckedIsDurable'
  BY <1>5, <1>1 DEF Rollback, Commits, Live, LiveAt
<1>6. ASSUME NEW r \in Requests, RequestStep(r) PROVE AckedIsDurable'
  <2>1. CASE (\E c \in Conns : TakeForStatement(r, c) \/ TakeForBlock(r, c)) \/ GetFails(r)
    BY <2>1, <1>1 DEF TakeForStatement, TakeForBlock, GetConnection, GetFails, outcome
  <2>2. CASE Begin(r) \/ BeginFails(r) \/ StatementFails(r) \/ StatementRefused(r)
    BY <2>2, <1>1 DEF Begin, BeginFails, StatementFails, StatementRefused, outcome
  <2>3. CASE Throw(r) \/ Catch(r) \/ Answer(r) \/ Drop(r)
    BY <2>3, <1>1 DEF Throw, Catch, Answer, Drop, outcome
  <2>4. CASE Savepoint(r) \/ AssertNotRaised(r) \/ AssertRaised(r)
    BY <2>4, <1>1 DEF Savepoint, AssertNotRaised, AssertRaised, outcome
  <2>5. CASE StatementReplyLost(r) \/ CommitReplyLost(r)
    BY <2>5, <1>1 DEF StatementReplyLost, CommitReplyLost
  <2> QED
    BY <1>3, <1>4, <1>5, <1>6, <2>1, <2>2, <2>3, <2>4, <2>5 DEF RequestStep
<1>7. ASSUME NEW c \in Conns, Lose(c) PROVE AckedIsDurable'
  BY <1>1, <1>7 DEF Lose, outcome
<1> QED
  BY <1>2, <1>6, <1>7 DEF Next

\* A program that catches no error inside of a block, whose futures are not
\* dropped inside of one, never goes on from something that is not committed.
\* (exec.rs, in_scoped_transaction, in_savepoint; db.rs, run)
THEOREM Honest == Inward => (Spec => []AckedIsDurable)
<1> SUFFICES ASSUME Inward PROVE Spec => []AckedIsDurable
  OBVIOUS
<1> DEFINE I == PoolInv /\ Live /\ AckedIsDurable
<1>1. Init => I
  BY PoolInit DEF Init, AckedIsDurable
<1>2. I /\ [Next]_vars => I'
  BY PoolNext, LiveNext, AckedNext DEF Inward
<1>3. I => AckedIsDurable
  OBVIOUS
<1> QED
  BY <1>1, <1>2, <1>3, PTL DEF Spec

\* Nor does it send a statement to a transaction Postgres has aborted.
\* (exec.rs, in_savepoint)
THEOREM NeverAborted == Inward => (Spec => []Usable)
<1> SUFFICES ASSUME Inward PROVE Spec => []Usable
  OBVIOUS
<1> DEFINE I == PoolInv /\ Live
<1>1. Init => I
  BY PoolInit
<1>2. I /\ [Next]_vars => I'
  BY PoolNext, LiveNext DEF Inward
<1>3. I => Usable
  BY DEF Live, LiveAt, Usable, Inside, Pinned
<1> QED
  BY <1>1, <1>2, <1>3, PTL DEF Spec

(***************************************************************************)
(* The contract.                                                           *)
(***************************************************************************)

Same(r, l) == /\ PinOf(r, l)' = PinOf(r, l)
              /\ PinOf(r, l) # NoConn =>
                     /\ wrote'[PinOf(r, l)] = wrote[PinOf(r, l)]
                     /\ mark'[PinOf(r, l)] = mark[PinOf(r, l)]

LEMMA SameBlock ==
    ASSUME NEW r \in Requests, NEW l \in Levels, Same(r, l)
    PROVE  /\ OfPin(r, l, wrote)' = OfPin(r, l, wrote)
           /\ OfPin(r, l, mark)' = OfPin(r, l, mark)
BY DEF Same, OfPin

LEMMA Stutters ==
    ASSUME \A r \in Requests : \A l \in Levels : Same(r, l), durable' = durable
    PROVE  UNCHANGED Contract!vars
<1>1. BlockWork' = BlockWork /\ BlockKept' = BlockKept
  BY SameBlock DEF BlockWork, BlockKept
<1>2. OpenBlocks' = OpenBlocks
  BY DEF OpenBlocks, Same
<1> QED
  BY <1>1, <1>2 DEF Contract!vars

\* A step on one block changes that block of the contract.
LEMMA OneBlock ==
    ASSUME NEW r \in Requests, NEW l \in Levels,
           \A q \in Requests : \A m \in Levels : q # r \/ m # l => Same(q, m)
    PROVE  /\ BlockWork' = [BlockWork EXCEPT ![r][l] = OfPin(r, l, wrote)']
           /\ BlockKept' = [BlockKept EXCEPT ![r][l] = OfPin(r, l, mark)']
           /\ OpenBlocks' = [OpenBlocks EXCEPT ![r] = IF PinOf(r, l)' = NoConn
                                                      THEN @ \ {l} ELSE @ \cup {l}]
<1>1. \A q \in Requests : \A m \in Levels :
          q # r \/ m # l => /\ OfPin(q, m, wrote)' = OfPin(q, m, wrote)
                            /\ OfPin(q, m, mark)' = OfPin(q, m, mark)
                            /\ PinOf(q, m)' = PinOf(q, m)
  BY SameBlock DEF Same
<1>2. BlockWork' = [BlockWork EXCEPT ![r][l] = OfPin(r, l, wrote)']
  BY <1>1 DEF BlockWork
<1>3. BlockKept' = [BlockKept EXCEPT ![r][l] = OfPin(r, l, mark)']
  BY <1>1 DEF BlockKept
<1>4. OpenBlocks' = [OpenBlocks EXCEPT ![r] = IF PinOf(r, l)' = NoConn
                                              THEN @ \ {l} ELSE @ \cup {l}]
  <2> SUFFICES ASSUME NEW q \in Requests
               PROVE  OpenBlocks'[q] = [OpenBlocks EXCEPT ![r] =
                          IF PinOf(r, l)' = NoConn THEN @ \ {l} ELSE @ \cup {l}][q]
    BY DEF OpenBlocks
  <2>1. CASE q # r
    BY <1>1, <2>1 DEF OpenBlocks
  <2>2. CASE q = r
    BY <1>1, <2>2 DEF OpenBlocks
  <2> QED
    BY <2>1, <2>2
<1> QED
  BY <1>2, <1>3, <1>4

LEMMA BlockUntouched ==
    ASSUME NEW r \in Requests, NEW l \in Levels,
           \A q \in Requests : \A m \in Levels : q # r \/ m # l => Same(q, m)
    PROVE  /\ OfPin(r, l, wrote)' = BlockWork[r][l] => BlockWork' = BlockWork
           /\ OfPin(r, l, mark)' = BlockKept[r][l] => BlockKept' = BlockKept
<1>1. \A q \in Requests : \A m \in Levels :
          q # r \/ m # l => /\ OfPin(q, m, wrote)' = OfPin(q, m, wrote)
                            /\ OfPin(q, m, mark)' = OfPin(q, m, mark)
  BY SameBlock
<1>2. BlockWork[r][l] = OfPin(r, l, wrote) /\ BlockKept[r][l] = OfPin(r, l, mark)
  BY DEF BlockWork, BlockKept
<1>3. ASSUME OfPin(r, l, wrote)' = BlockWork[r][l] PROVE BlockWork' = BlockWork
  <2>1. \A q \in Requests : \A m \in Levels : OfPin(q, m, wrote)' = OfPin(q, m, wrote)
    BY <1>1, <1>2, <1>3
  <2> QED
    BY <2>1 DEF BlockWork
<1>4. ASSUME OfPin(r, l, mark)' = BlockKept[r][l] PROVE BlockKept' = BlockKept
  <2>1. \A q \in Requests : \A m \in Levels : OfPin(q, m, mark)' = OfPin(q, m, mark)
    BY <1>1, <1>2, <1>4
  <2> QED
    BY <2>1 DEF BlockKept
<1> QED
  BY <1>3, <1>4

\* What happens on the connection of one block is not seen by another.
LEMMA Elsewhere ==
    ASSUME PoolInv, NEW r \in Requests, NEW l \in Levels, PinOf(r, l) # NoConn,
           scope' = scope, block' = block,
           \A d \in Conns \ {PinOf(r, l)} : wrote'[d] = wrote[d] /\ mark'[d] = mark[d]
    PROVE  \A q \in Requests : \A m \in Levels : q # r \/ m # l => Same(q, m)
<1> SUFFICES ASSUME NEW q \in Requests, NEW m \in Levels, q # r \/ m # l PROVE Same(q, m)
  OBVIOUS
<1>1. PinOf(q, m)' = PinOf(q, m) /\ PinOf(q, m) \in Conns \cup {NoConn}
  BY DEF PinOf, PoolInv, TypeOK
<1>2. PinOf(q, m) # NoConn => PinOf(q, m) # PinOf(r, l)
  BY DEF PinOf, Levels, PoolInv, Exclusive, Holds
<1> QED
  BY <1>1, <1>2 DEF Same

Inner(r) == IF block[r] # NoConn THEN "block" ELSE "scope"

LEMMA InnerPin ==
    ASSUME PoolInv, NEW r \in Requests, Inside(r)
    PROVE  /\ Inner(r) \in Levels /\ PinOf(r, Inner(r)) = Pinned(r)
           /\ Pinned(r) \in Conns /\ Pinned(r) # NoConn
           /\ Inner(r) \in OpenBlocks[r]
           /\ BlockWork[r][Inner(r)] = wrote[Pinned(r)]
           /\ BlockKept[r][Inner(r)] = mark[Pinned(r)]
<1>1. /\ Inner(r) \in Levels /\ PinOf(r, Inner(r)) = Pinned(r)
      /\ Pinned(r) \in Conns /\ Pinned(r) # NoConn
  BY ConnsAssumption DEF Inner, Levels, PinOf, Pinned, Inside, PoolInv, TypeOK
<1> QED
  BY <1>1 DEF OpenBlocks, BlockWork, BlockKept, OfPin

LEMMA StepStatement ==
    ASSUME PoolInv, NEW r \in Requests, Statement(r)
    PROVE  Contract!Next
<1> DEFINE w == <<r, n[r] + 1>>
           c == Conn(r)
<1>1. w \in Contract!Written(r)
  BY BoundsAssumption DEF Statement, Contract!Written, PoolInv, TypeOK
<1>2. CASE Inside(r)
  <2>1. c = Pinned(r) /\ tx[c] # "none"
    BY <1>2, InnerPin DEF Conn, Pinned, Inside, PoolInv, TypeOK, Working
  <2>2. /\ wrote' = [wrote EXCEPT ![c] = @ \cup {w}] /\ durable' = durable
        /\ scope' = scope /\ block' = block /\ mark' = mark
    BY <2>1 DEF Statement
  <2>3. PICK l \in Levels : l = Inner(r)
    BY <1>2, InnerPin
  <2>4. /\ PinOf(r, l) = c /\ c \in Conns /\ c # NoConn /\ l \in OpenBlocks[r]
        /\ BlockWork[r][l] = wrote[c] /\ BlockKept[r][l] = mark[c]
    BY <1>2, <2>1, <2>3, InnerPin
  <2>5. PinOf(r, l)' = c
    BY <2>2, <2>4 DEF PinOf
  <2>6. \A q \in Requests : \A m \in Levels : q # r \/ m # l => Same(q, m)
    BY <2>2, <2>4, Elsewhere DEF PoolInv, TypeOK
  <2>7. OfPin(r, l, wrote)' = BlockWork[r][l] \cup {w} /\ OfPin(r, l, mark)' = BlockKept[r][l]
    BY <2>2, <2>4, <2>5 DEF OfPin, PoolInv, TypeOK
  <2> HIDE DEF c, w
  <2>8. BlockWork' = [BlockWork EXCEPT ![r][l] = @ \cup {w}]
    BY <2>6, <2>7, OneBlock
  <2>9. BlockKept' = BlockKept
    BY <2>6, <2>7, BlockUntouched
  <2>10. OpenBlocks' = OpenBlocks
    BY <2>2 DEF OpenBlocks, PinOf
  <2>11. Contract!Stage(r, l)
    BY <1>1, <2>2, <2>4, <2>8, <2>9, <2>10 DEF Contract!Stage
  <2> QED
    BY <2>11 DEF Contract!Next
<1>3. CASE ~Inside(r)
  <2>1. c \in Conns /\ tx[c] # "open"
    BY <1>3, ConnTyped, ConnsAssumption
    DEF Statement, Sends, Conn, PoolInv, Exclusive, Holds, Resting, Free
  <2>2. /\ durable' = durable \cup {w} /\ wrote' = wrote
        /\ scope' = scope /\ block' = block /\ mark' = mark
    BY <1>3, <2>1 DEF Statement
  <2>3. OpenBlocks' = OpenBlocks /\ BlockWork' = BlockWork /\ BlockKept' = BlockKept
    BY <2>2 DEF OpenBlocks, BlockWork, BlockKept, OfPin, PinOf
  <2>4. OpenBlocks[r] = {}
    BY <1>3 DEF OpenBlocks, PinOf, Inside
  <2>5. Contract!Store(r)
    BY <1>1, <2>2, <2>3, <2>4 DEF Contract!Store
  <2> QED
    BY <2>5 DEF Contract!Next
<1> QED
  BY <1>2, <1>3

LEMMA StepReplyLost ==
    ASSUME PoolInv, NEW r \in Requests, StatementReplyLost(r)
    PROVE  Contract!Next
<1>1. <<r, n[r] + 1>> \in Contract!Written(r)
  BY BoundsAssumption DEF StatementReplyLost, Contract!Written, PoolInv, TypeOK
<1>2. OpenBlocks' = OpenBlocks /\ BlockWork' = BlockWork /\ BlockKept' = BlockKept
  BY DEF StatementReplyLost, OpenBlocks, BlockWork, BlockKept, OfPin, PinOf
<1>3. OpenBlocks[r] = {}
  BY DEF StatementReplyLost, OpenBlocks, PinOf, Inside, PoolInv, TypeOK, Coherent
<1>4. Contract!Store(r)
  BY <1>1, <1>2, <1>3 DEF StatementReplyLost, Contract!Store
<1> QED
  BY <1>4 DEF Contract!Next

LEMMA StepBegin ==
    ASSUME PoolInv, NEW r \in Requests, Begin(r)
    PROVE  Contract!Next
<1> DEFINE c == taken[r]
<1>1. c \in Conns /\ c # NoConn /\ Free(c)
  BY ConnTyped, ConnsAssumption DEF Begin, PoolInv, Exclusive, Holds, Free
<1>2. wrote[c] = {} /\ mark[c] = {}
  BY <1>1 DEF PoolInv, Resting, Marks
<1>3. PICK l \in Levels : l = IF mode = "test" /\ scope[r] = NoConn THEN "scope" ELSE "block"
  BY DEF Levels
<1>4. wrote' = wrote /\ mark' = mark /\ durable' = durable
  BY DEF Begin, outcome
<1>5. /\ scope' = IF l = "scope" THEN [scope EXCEPT ![r] = c] ELSE scope
      /\ block' = IF l = "scope" THEN block ELSE [block EXCEPT ![r] = c]
  BY <1>3 DEF Begin
<1>6. PinOf(r, l) = NoConn
  BY <1>3 DEF Begin, PinOf, PoolInv, TypeOK, Coherent
<1>7. PinOf(r, l)' = c
  BY <1>5 DEF PinOf, PoolInv, TypeOK
<1>8. \A q \in Requests : \A m \in Levels : q # r \/ m # l => PinOf(q, m)' = PinOf(q, m)
  BY <1>3, <1>5 DEF PinOf, Levels, PoolInv, TypeOK
<1>9. \A q \in Requests : \A m \in Levels : q # r \/ m # l => Same(q, m)
  BY <1>4, <1>8 DEF Same
<1>10. /\ OfPin(r, l, wrote)' = {} /\ OfPin(r, l, mark)' = {}
       /\ BlockWork[r][l] = {} /\ BlockKept[r][l] = {} /\ l \notin OpenBlocks[r]
  BY <1>1, <1>2, <1>4, <1>6, <1>7 DEF OfPin, BlockWork, BlockKept, OpenBlocks
<1> HIDE DEF c
<1>11. BlockWork' = BlockWork
  BY <1>9, <1>10, BlockUntouched
<1>12. BlockKept' = BlockKept
  BY <1>9, <1>10, BlockUntouched
<1>13. OpenBlocks' = [OpenBlocks EXCEPT ![r] = @ \cup {l}]
  BY <1>1, <1>7, <1>9, OneBlock
<1>14. Contract!Enter(r, l)
  BY <1>4, <1>10, <1>11, <1>12, <1>13 DEF Contract!Enter
<1> QED
  BY <1>14 DEF Contract!Next

LEMMA StepSavepoint ==
    ASSUME PoolInv, NEW r \in Requests,
           Savepoint(r) \/ AssertNotRaised(r) \/ AssertRaised(r)
    PROVE  Contract!Next \/ UNCHANGED Contract!vars
<1> DEFINE c == Pinned(r)
<1>1. Inside(r)
  BY ConnsAssumption DEF Savepoint, AssertNotRaised, AssertRaised, SavepointHere, PoolInv,
                         TypeOK, Pinned, Inside
<1>2. /\ scope' = scope /\ block' = block /\ durable' = durable
      /\ \A d \in Conns \ {c} : wrote'[d] = wrote[d] /\ mark'[d] = mark[d]
  BY DEF Savepoint, AssertNotRaised, AssertRaised, PoolInv, TypeOK, outcome
<1>a. PICK l \in Levels : l = Inner(r)
  BY <1>1, InnerPin
<1>b. /\ PinOf(r, l) = c /\ c \in Conns /\ c # NoConn
      /\ l \in OpenBlocks[r] /\ BlockWork[r][l] = wrote[c] /\ BlockKept[r][l] = mark[c]
  BY <1>1, <1>a, InnerPin
<1>3. PinOf(r, l) = c /\ c \in Conns /\ c # NoConn /\ PinOf(r, l)' = c
  BY <1>2, <1>b DEF PinOf
<1>4. /\ OfPin(r, l, wrote)' = wrote'[c] /\ OfPin(r, l, mark)' = mark'[c]
      /\ l \in OpenBlocks[r] /\ BlockWork[r][l] = wrote[c] /\ BlockKept[r][l] = mark[c]
  BY <1>3, <1>b DEF OfPin
<1>5. \A q \in Requests : \A m \in Levels : q # r \/ m # l => Same(q, m)
  BY <1>2, <1>3, Elsewhere
<1>6. /\ BlockWork' = [BlockWork EXCEPT ![r][l] = wrote'[c]]
      /\ BlockKept' = [BlockKept EXCEPT ![r][l] = mark'[c]]
      /\ OpenBlocks' = [OpenBlocks EXCEPT ![r] = @ \cup {l}]
  BY <1>3, <1>4, <1>5, OneBlock
<1>7. OpenBlocks' = OpenBlocks
  BY <1>2 DEF OpenBlocks, PinOf
<1>8. wrote'[c] = wrote[c] => BlockWork' = BlockWork
  BY <1>4, <1>5, BlockUntouched
<1>9. mark'[c] = mark[c] => BlockKept' = BlockKept
  BY <1>4, <1>5, BlockUntouched
<1>10. CASE wrote'[c] = wrote[c] /\ mark'[c] = mark[c]
  BY <1>2, <1>7, <1>8, <1>9, <1>10 DEF Contract!vars
<1>11. CASE wrote'[c] = wrote[c] /\ mark'[c] = wrote[c]
  <2>1. Contract!Mark(r, l)
    BY <1>2, <1>4, <1>6, <1>7, <1>8, <1>11 DEF Contract!Mark
  <2> QED
    BY <1>3, <2>1 DEF Contract!Next
<1>12. CASE wrote'[c] = wrote[c] /\ mark'[c] = {}
  <2>1. Contract!Unmark(r, l)
    BY <1>2, <1>6, <1>7, <1>8, <1>12 DEF Contract!Unmark
  <2> QED
    BY <1>3, <2>1 DEF Contract!Next
<1>13. CASE wrote'[c] = mark[c] /\ mark'[c] = {}
  <2>1. Contract!UndoToMark(r, l)
    BY <1>2, <1>4, <1>6, <1>7, <1>13 DEF Contract!UndoToMark
  <2> QED
    BY <1>3, <2>1 DEF Contract!Next
<1> QED
  BY <1>3, <1>10, <1>11, <1>12, <1>13
  DEF Savepoint, AssertNotRaised, AssertRaised, PoolInv, TypeOK

LEMMA StepEnd ==
    ASSUME PoolInv, NEW r \in Requests, Commit(r) \/ Rollback(r) \/ CommitReplyLost(r)
    PROVE  Contract!Next
<1> DEFINE c == Pinned(r)
<1>1. Inside(r) /\ c \notin saved
  BY DEF Commit, Rollback, CommitReplyLost, Ends, SavepointHere
<1>a. PICK l \in Levels : l = Inner(r)
  BY <1>1, InnerPin
<1>2. /\ PinOf(r, l) = c /\ c \in Conns /\ c # NoConn
      /\ l \in OpenBlocks[r] /\ BlockWork[r][l] = wrote[c]
  BY <1>1, <1>a, InnerPin
<1>3. /\ PinOf(r, l)' = NoConn
      /\ \A q \in Requests : \A m \in Levels : q # r \/ m # l => PinOf(q, m)' = PinOf(q, m)
  BY <1>1, <1>a DEF Commit, Rollback, CommitReplyLost, Unpinned, Inner, PinOf, Levels,
                    PoolInv, TypeOK
<1>4. \A d \in Conns \ {c} : wrote'[d] = wrote[d] /\ mark'[d] = mark[d]
  BY DEF Commit, Rollback, CommitReplyLost, Ended, PoolInv, TypeOK
<1>5. \A q \in Requests : \A m \in Levels : q # r \/ m # l => Same(q, m)
  <2> SUFFICES ASSUME NEW q \in Requests, NEW m \in Levels, q # r \/ m # l PROVE Same(q, m)
    OBVIOUS
  <2>1. PinOf(q, m) \in Conns \cup {NoConn}
    BY DEF PinOf, PoolInv, TypeOK
  <2>2. PinOf(q, m) # NoConn => PinOf(q, m) # c
    BY <1>2 DEF PinOf, Levels, PoolInv, Exclusive, Holds
  <2> QED
    BY <1>3, <1>4, <2>1, <2>2 DEF Same
<1>6. OfPin(r, l, wrote)' = {} /\ OfPin(r, l, mark)' = {}
  BY <1>3 DEF OfPin
<1>7. durable' = durable \/ (durable' = durable \cup wrote[c] /\ block[r] # NoConn)
  BY DEF Commit, Commits, Rollback, CommitReplyLost
<1> HIDE DEF c
<1>8. Contract!Leave(r, l)
  BY <1>2, <1>3, <1>5, <1>6, OneBlock DEF Contract!Leave
<1>9. CASE durable' = durable
  <2>1. Contract!Rollback(r, l)
    BY <1>8, <1>9 DEF Contract!Rollback
  <2> QED
    BY <1>2, <2>1 DEF Contract!Next
<1>10. CASE durable' = durable \cup wrote[c] /\ block[r] # NoConn
  <2>1. l = "block"
    BY <1>10, <1>a DEF Inner
  <2>2. Contract!Commit(r, l)
    BY <1>2, <1>8, <1>10, <2>1 DEF Contract!Commit
  <2> QED
    BY <1>2, <2>2 DEF Contract!Next
<1> QED
  BY <1>7, <1>9, <1>10

LEMMA StepLose ==
    ASSUME PoolInv, NEW c \in Conns, Lose(c)
    PROVE  Contract!Next \/ UNCHANGED Contract!vars
<1>1. /\ scope' = scope /\ block' = block /\ durable' = durable
      /\ wrote' = [wrote EXCEPT ![c] = {}] /\ mark' = [mark EXCEPT ![c] = {}]
  BY DEF Lose, request, outcome
<1>2. c # NoConn
  BY ConnsAssumption
<1>3. CASE \A r \in Requests : \A l \in Levels : PinOf(r, l) # c
  <2>1. \A r \in Requests : \A l \in Levels : Same(r, l)
    BY <1>1, <1>3 DEF Same, PinOf, PoolInv, TypeOK
  <2> QED
    BY <1>1, <2>1, Stutters
<1>4. ASSUME NEW r \in Requests, NEW l \in Levels, PinOf(r, l) = c PROVE Contract!Next
  <2>1. PinOf(r, l)' = c
    BY <1>1, <1>4 DEF PinOf
  <2>2. OfPin(r, l, wrote)' = {} /\ OfPin(r, l, mark)' = {} /\ l \in OpenBlocks[r]
    BY <1>1, <1>2, <1>4, <2>1 DEF OfPin, OpenBlocks, PoolInv, TypeOK
  <2>3. \A q \in Requests : \A m \in Levels : q # r \/ m # l => Same(q, m)
    BY <1>1, <1>2, <1>4, Elsewhere DEF PoolInv, TypeOK
  <2>4. /\ BlockWork' = [BlockWork EXCEPT ![r][l] = {}]
        /\ BlockKept' = [BlockKept EXCEPT ![r][l] = {}]
        /\ OpenBlocks' = [OpenBlocks EXCEPT ![r] = @ \cup {l}]
    BY <1>2, <2>1, <2>2, <2>3, OneBlock
  <2>5. OpenBlocks' = OpenBlocks
    BY <2>2, <2>4 DEF OpenBlocks
  <2>6. Contract!Lose(r, l)
    BY <1>1, <2>4, <2>5 DEF Contract!Lose
  <2> QED
    BY <2>6 DEF Contract!Next
<1> QED
  BY <1>3, <1>4

LEMMA StepQuiet ==
    ASSUME PoolInv, "inside" \notin Drops, NEW r \in Requests,
           \/ \E c \in Conns : TakeForStatement(r, c) \/ TakeForBlock(r, c)
           \/ GetFails(r) \/ BeginFails(r) \/ StatementFails(r) \/ StatementRefused(r)
           \/ Throw(r) \/ Catch(r) \/ Answer(r) \/ Drop(r)
    PROVE  UNCHANGED Contract!vars
<1>1. Drop(r) => block' = block
  BY DEF Drop, Inside, PoolInv, TypeOK
<1>2. scope' = scope /\ block' = block /\ wrote' = wrote /\ mark' = mark /\ durable' = durable
  BY <1>1 DEF TakeForStatement, TakeForBlock, GetConnection, GetFails, BeginFails,
              StatementFails, StatementRefused, Throw, Catch, Answer, Drop, session, outcome
<1>3. \A q \in Requests : \A l \in Levels : Same(q, l)
  BY <1>2 DEF Same, PinOf
<1> QED
  BY <1>2, <1>3, Stutters

\* As long as no future is dropped inside of a block, what becomes durable is
\* a statement outside of any block or a whole block, never a part of one,
\* never another request's, and never what a test wrote outside of a block of
\* its own: TxPool implements AtomicBlocks.
\* (exec.rs, in_scoped_transaction and in_savepoint; db.rs, run)
THEOREM Atomic == "inside" \notin Drops => (Spec => BlocksAreAtomic)
<1> SUFFICES ASSUME "inside" \notin Drops PROVE Spec => BlocksAreAtomic
  OBVIOUS
<1>1. Init => PoolInv /\ Contract!Init
  BY PoolInit DEF Init, Contract!Init, Contract!Nothing, OpenBlocks, BlockWork, BlockKept,
                  OfPin, PinOf
<1>2. PoolInv /\ [Next]_vars => PoolInv'
  BY PoolNext
<1>3. PoolInv /\ [Next]_vars => [Contract!Next]_(Contract!vars)
  <2> SUFFICES ASSUME PoolInv, [Next]_vars
               PROVE  Contract!Next \/ UNCHANGED Contract!vars
    OBVIOUS
  <2>1. CASE UNCHANGED vars
    <3>1. \A r \in Requests : \A l \in Levels : Same(r, l)
      BY <2>1 DEF vars, request, session, Same, PinOf
    <3> QED
      BY <2>1, <3>1, Stutters DEF vars, outcome
  <2>2. ASSUME NEW r \in Requests, RequestStep(r)
        PROVE  Contract!Next \/ UNCHANGED Contract!vars
    BY <2>2, StepStatement, StepReplyLost, StepBegin, StepSavepoint, StepEnd, StepQuiet
    DEF RequestStep
  <2>3. ASSUME NEW c \in Conns, Lose(c)
        PROVE  Contract!Next \/ UNCHANGED Contract!vars
    BY <2>3, StepLose
  <2> QED
    BY <2>1, <2>2, <2>3 DEF Next
<1> QED
  BY <1>1, <1>2, <1>3, PTL DEF Spec, BlocksAreAtomic, Contract!Spec
=============================================================================
