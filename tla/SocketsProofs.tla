---------------------------- MODULE SocketsProofs ----------------------------
(***************************************************************************)
(* Theorems about websockets, for every set of requests (a finite one or    *)
(* not), every limit and every program's handlers.                          *)
(***************************************************************************)
EXTENDS Sockets, FiniteSetTheorems, TLAPS

-----------------------------------------------------------------------------
(* Connections.                                                            *)

Frames == {"text", "pong", "close"}

Conn == [at : Stages, seen : Nat, peer : {"here", "gone", "reset"},
         out : Seq({"text", "close"}), frames : Seq(Frames), awaiting : BOOLEAN,
         sends : Nat, full : BOOLEAN, alive : BOOLEAN]

SockTypeOK == sockets \in Nat /\ conn \in [Requests -> Conn]

LEMMA QuietConn == Quiet \in Conn /\ ~Quiet.awaiting
BY DEF Quiet, Conn, Stages

\* Who holds a slot.
Holders(c) == {r \in Requests : c[r].at \in Holding}

\* Noted changes nothing but `full`, and sets it for those who find no slot.
LEMMA NotedConn ==
    ASSUME NEW c \in [Requests -> Conn]
    PROVE  /\ Noted(c) \in [Requests -> Conn]
           /\ Holders(Noted(c)) = Holders(c)
           /\ \A r \in Requests :
                 /\ Noted(c)[r].at = c[r].at /\ Noted(c)[r].seen = c[r].seen
                 /\ Noted(c)[r].peer = c[r].peer /\ Noted(c)[r].frames = c[r].frames
                 /\ Noted(c)[r].awaiting = c[r].awaiting /\ Noted(c)[r].alive = c[r].alive
                 /\ c[r].full => Noted(c)[r].full
                 /\ c[r].at \in Trying /\ Reaches(InUse(c)) => Noted(c)[r].full
<1>1. ASSUME NEW r \in Requests
      PROVE  LET d == [c[r] EXCEPT !.full = TRUE]
             IN  /\ d \in Conn /\ d.full
                 /\ d.at = c[r].at /\ d.seen = c[r].seen /\ d.peer = c[r].peer
                 /\ d.frames = c[r].frames /\ d.awaiting = c[r].awaiting /\ d.alive = c[r].alive
  BY DEF Conn
<1>2. \A r \in Requests :
         Noted(c)[r] = IF c[r].at \in Trying /\ Reaches(InUse(c))
                       THEN [c[r] EXCEPT !.full = TRUE] ELSE c[r]
  BY DEF Noted
<1>3. \A r \in Requests :
         /\ Noted(c)[r] \in Conn
         /\ Noted(c)[r].at = c[r].at /\ Noted(c)[r].seen = c[r].seen
         /\ Noted(c)[r].peer = c[r].peer /\ Noted(c)[r].frames = c[r].frames
         /\ Noted(c)[r].awaiting = c[r].awaiting /\ Noted(c)[r].alive = c[r].alive
         /\ c[r].full => Noted(c)[r].full
         /\ c[r].at \in Trying /\ Reaches(InUse(c)) => Noted(c)[r].full
  BY <1>1, <1>2
<1>4. Noted(c) = [r \in Requests |-> Noted(c)[r]]
  BY DEF Noted
<1> QED
  BY <1>3, <1>4 DEF Holders

\* One connection becomes c: the others keep all but `full`.
LEMMA BecomesConn ==
    ASSUME SockTypeOK, NEW r \in Requests, NEW c \in Conn, Becomes(r, c)
    PROVE  /\ conn' \in [Requests -> Conn]
           /\ Holders(conn') = IF c.at \in Holding THEN Holders(conn) \cup {r}
                               ELSE Holders(conn) \ {r}
           /\ \A q \in Requests \ {r} :
                 /\ conn'[q].at = conn[q].at /\ conn'[q].seen = conn[q].seen
                 /\ conn'[q].peer = conn[q].peer /\ conn'[q].frames = conn[q].frames
                 /\ conn'[q].awaiting = conn[q].awaiting /\ conn'[q].alive = conn[q].alive
                 /\ conn[q].full => conn'[q].full
           /\ conn'[r].at = c.at /\ conn'[r].seen = c.seen /\ conn'[r].peer = c.peer
           /\ conn'[r].frames = c.frames /\ conn'[r].awaiting = c.awaiting
           /\ conn'[r].alive = c.alive
           /\ c.full => conn'[r].full
           /\ c.at \in Trying /\ Reaches(Cardinality(Holders(conn'))) => conn'[r].full
<1> DEFINE e == [conn EXCEPT ![r] = c]
<1>1. e \in [Requests -> Conn] /\ e[r] = c /\ \A q \in Requests \ {r} : e[q] = conn[q]
  BY DEF SockTypeOK
<1>2. conn' = Noted(e)
  BY DEF Becomes
<1>3. Holders(e) = IF c.at \in Holding THEN Holders(conn) \cup {r} ELSE Holders(conn) \ {r}
  BY <1>1 DEF Holders
<1>4. InUse(e) = Cardinality(Holders(e))
  BY DEF InUse, Holders
<1> HIDE DEF e
<1>5. /\ conn' \in [Requests -> Conn] /\ Holders(conn') = Holders(e)
      /\ \A q \in Requests :
            /\ conn'[q].at = e[q].at /\ conn'[q].seen = e[q].seen
            /\ conn'[q].peer = e[q].peer /\ conn'[q].frames = e[q].frames
            /\ conn'[q].awaiting = e[q].awaiting /\ conn'[q].alive = e[q].alive
            /\ e[q].full => conn'[q].full
            /\ e[q].at \in Trying /\ Reaches(InUse(e)) => conn'[q].full
  BY <1>1, <1>2, NotedConn
<1>6. \A q \in Requests \ {r} :
         /\ conn'[q].at = conn[q].at /\ conn'[q].seen = conn[q].seen
         /\ conn'[q].peer = conn[q].peer /\ conn'[q].frames = conn[q].frames
         /\ conn'[q].awaiting = conn[q].awaiting /\ conn'[q].alive = conn[q].alive
         /\ conn[q].full => conn'[q].full
  BY <1>1, <1>5
<1>7. /\ conn'[r].at = c.at /\ conn'[r].seen = c.seen /\ conn'[r].peer = c.peer
      /\ conn'[r].frames = c.frames /\ conn'[r].awaiting = c.awaiting
      /\ conn'[r].alive = c.alive
      /\ c.full => conn'[r].full
  BY <1>1, <1>5
<1>8. c.at \in Trying /\ Reaches(Cardinality(Holders(conn'))) => conn'[r].full
  BY <1>1, <1>4, <1>5
<1> QED
  BY <1>3, <1>5, <1>6, <1>7, <1>8

-----------------------------------------------------------------------------
(* The inductive invariant: the counter is right and within the limit, who   *)
(* is about to be refused met a full house, and who has not answered a ping  *)
(* has sent nothing since, or it waits to be read.                           *)

CountExact == IsFiniteSet(Holders(conn)) /\ sockets = Cardinality(Holders(conn))
Limited == MaxSockets # 0 => sockets <= MaxSockets
Earned == \A r \in Requests : conn[r].at = "swapping" /\ Reaches(conn[r].seen) => conn[r].full
Heard == \A r \in Requests : conn[r].awaiting /\ conn[r].alive => conn[r].frames # <<>>

SockInv == SockTypeOK /\ CountExact /\ Limited /\ Earned /\ Heard

LEMMA InitSock == SocketsStart => SockInv
<1> SUFFICES ASSUME SocketsStart
             PROVE  SockInv
  OBVIOUS
<1>1. SockTypeOK
  BY QuietConn DEF SocketsStart, SocketsInit, SockTypeOK
<1>2. Holders(conn) = {}
  BY DEF SocketsStart, SocketsInit, Quiet, Holders, Holding, Connected
<1>3. sockets = 0
  BY DEF SocketsStart, SocketsInit
<1>5. IsFiniteSet({}) /\ Cardinality({}) = 0
  BY FS_EmptySet
<1>6. CountExact
  BY <1>2, <1>3, <1>5 DEF CountExact
<1>7. Limited
  BY <1>3, SocketsAssumption DEF Limited
<1>4. \A r \in Requests : conn[r].at = "none" /\ ~conn[r].awaiting
  BY DEF SocketsStart, SocketsInit, Quiet
<1> QED
  BY <1>1, <1>4, <1>6, <1>7 DEF SockInv, Earned, Heard

\* A step of one connection that neither takes nor gives a slot.
LEMMA StaysInv ==
    ASSUME SockInv, NEW r \in Requests, NEW c \in Conn, Becomes(r, c), sockets' = sockets,
           c.at \in Holding <=> conn[r].at \in Holding,
           c.at = "swapping" /\ Reaches(c.seen) => c.full \/ c.seen = sockets,
           c.awaiting /\ c.alive => c.frames # <<>>
    PROVE  SockInv'
<1>1. Holders(conn') = Holders(conn)
  BY BecomesConn DEF Holders, SockInv
<1>2. SockTypeOK'
  BY BecomesConn DEF SockInv, SockTypeOK
<1>3. CountExact' /\ Limited'
  BY <1>1 DEF SockInv, CountExact, Limited, Holders
<1>4. Earned'
  BY <1>3, BecomesConn DEF SockInv, Earned, CountExact, Trying
<1>5. Heard'
  BY BecomesConn DEF SockInv, Heard
<1> QED
  BY <1>2, <1>3, <1>4, <1>5 DEF SockInv

\* A connection that ends gives its slot back.
LEMMA EndsInv ==
    ASSUME SockInv, NEW r \in Requests, Ends(r), conn[r].at \in Holding
    PROVE  SockInv'
<1> DEFINE c == [Quiet EXCEPT !.at = "ended"]
<1>1. c \in Conn /\ c.at = "ended" /\ ~c.awaiting
  BY QuietConn DEF Conn, Stages
<1>2. Becomes(r, c) /\ sockets' = sockets - 1
  BY DEF Ends
<1> HIDE DEF c
<1>3. r \in Holders(conn) /\ Holders(conn') = Holders(conn) \ {r}
  BY <1>1, <1>2, BecomesConn DEF Holders, SockInv, Holding, Connected
<1>4. IsFiniteSet(Holders(conn')) /\ sockets' = Cardinality(Holders(conn'))
  BY <1>2, <1>3, FS_RemoveElement DEF SockInv, CountExact
<1>5. CountExact'
  BY <1>4 DEF CountExact, Holders
<1>6. sockets' \in Nat
  BY <1>4, FS_CardinalityType
<1>7. SockTypeOK' /\ Limited'
  BY <1>1, <1>2, <1>6, BecomesConn, SocketsAssumption DEF SockInv, SockTypeOK, Limited
<1>8. Earned' /\ Heard'
  BY <1>1, <1>2, BecomesConn DEF SockInv, Earned, Heard
<1> QED
  BY <1>5, <1>7, <1>8 DEF SockInv

-----------------------------------------------------------------------------
(* The steps.                                                              *)

LEMMA GoesConn ==
    ASSUME SockTypeOK, NEW r \in Requests, NEW at \in Stages
    PROVE  LET c == [conn[r] EXCEPT !.at = at]
           IN  /\ c \in Conn /\ c.at = at /\ c.seen = conn[r].seen /\ c.full = conn[r].full
               /\ c.peer = conn[r].peer /\ c.frames = conn[r].frames
               /\ c.awaiting = conn[r].awaiting /\ c.alive = conn[r].alive
BY DEF SockTypeOK, Conn

\* Moving on without taking or giving a slot, and not to the swap.
LEMMA GoesInv ==
    ASSUME SockInv, NEW r \in Requests, NEW at \in Stages \ {"swapping"}, Goes(r, at),
           sockets' = sockets, at \in Holding <=> conn[r].at \in Holding
    PROVE  SockInv'
<1> DEFINE c == [conn[r] EXCEPT !.at = at]
<1>1. /\ c \in Conn /\ c.at = at /\ c.frames = conn[r].frames
      /\ c.awaiting = conn[r].awaiting /\ c.alive = conn[r].alive
  BY GoesConn DEF SockInv
<1>2. Becomes(r, c)
  BY DEF Goes
<1> HIDE DEF c
<1>3. c.awaiting /\ c.alive => c.frames # <<>>
  BY <1>1 DEF SockInv, Heard
<1> QED
  BY <1>1, <1>2, <1>3, StaysInv

\* What is read of the counter is what it is.
LEMMA SeesInv ==
    ASSUME SockInv, NEW r \in Requests, conn[r].at \in Trying, sockets' = sockets,
           Becomes(r, [conn[r] EXCEPT !.at = "swapping", !.seen = sockets])
    PROVE  SockInv'
<1> DEFINE c1 == [conn[r] EXCEPT !.at = "swapping"]
           c  == [c1 EXCEPT !.seen = sockets]
<1>1. /\ c1 \in Conn /\ c1.at = "swapping" /\ c1.frames = conn[r].frames
      /\ c1.awaiting = conn[r].awaiting /\ c1.alive = conn[r].alive
  BY GoesConn DEF SockInv, Stages, Trying
<1> HIDE DEF c1
<1>2. /\ c \in Conn /\ c.at = "swapping" /\ c.seen = sockets /\ c.frames = c1.frames
      /\ c.awaiting = c1.awaiting /\ c.alive = c1.alive
  BY <1>1 DEF SockInv, SockTypeOK, Conn
<1>3. Becomes(r, c)
  BY DEF c1
<1> HIDE DEF c
<1>4. c.awaiting /\ c.alive => c.frames # <<>>
  BY <1>1, <1>2 DEF SockInv, Heard
<1>5. c.at \in Holding <=> conn[r].at \in Holding
  BY <1>2 DEF Trying, Holding, Connected
<1> QED
  BY <1>2, <1>3, <1>4, <1>5, StaysInv

\* compare_exchange succeeds: the counter is what was read and below the limit.
LEMMA SwapInv ==
    ASSUME SockInv, NEW r \in Requests, Swap(r)
    PROVE  SockInv'
<1>1. conn[r].at = "swapping" /\ ~Reaches(conn[r].seen) /\ conn[r] \in Conn
  BY DEF Swap, Steps, SockInv, SockTypeOK
<1>2. CASE sockets = conn[r].seen
  <2> DEFINE c == [conn[r] EXCEPT !.at = "preflight"]
  <2>1. /\ c \in Conn /\ c.at = "preflight" /\ c.frames = conn[r].frames
        /\ c.awaiting = conn[r].awaiting /\ c.alive = conn[r].alive
    BY GoesConn DEF SockInv, Stages, Holding
  <2>2. Becomes(r, c) /\ sockets' = sockets + 1
    BY <1>2 DEF Swap, Goes
  <2> HIDE DEF c
  <2>3. r \notin Holders(conn) /\ Holders(conn') = Holders(conn) \cup {r}
    BY <1>1, <2>1, <2>2, BecomesConn DEF Holders, SockInv, Holding, Connected
  <2>4. IsFiniteSet(Holders(conn')) /\ sockets' = Cardinality(Holders(conn'))
    BY <2>2, <2>3, FS_AddElement DEF SockInv, CountExact
  <2>5. CountExact'
    BY <2>4 DEF CountExact, Holders
  <2>6. SockTypeOK'
    BY <2>1, <2>2, BecomesConn DEF SockInv, SockTypeOK
  <2>7. Limited'
    BY <1>1, <1>2, <2>2, SocketsAssumption DEF SockInv, SockTypeOK, Limited, Reaches
  <2>8. Earned'
    BY <2>1, <2>2, BecomesConn DEF SockInv, Earned
  <2>9. Heard'
    BY <2>1, <2>2, BecomesConn DEF SockInv, Heard
  <2> QED
    BY <2>5, <2>6, <2>7, <2>8, <2>9 DEF SockInv
<1>3. CASE sockets # conn[r].seen
  <2> DEFINE c == [conn[r] EXCEPT !.seen = sockets]
  <2>1. /\ c \in Conn /\ c.at = conn[r].at /\ c.seen = sockets /\ c.frames = conn[r].frames
        /\ c.awaiting = conn[r].awaiting /\ c.alive = conn[r].alive
    BY <1>1 DEF SockInv, SockTypeOK, Conn
  <2>2. Becomes(r, c) /\ sockets' = sockets
    BY <1>3 DEF Swap
  <2> HIDE DEF c
  <2>3. c.awaiting /\ c.alive => c.frames # <<>>
    BY <2>1 DEF SockInv, Heard
  <2> QED
    BY <2>1, <2>2, <2>3, StaysInv
<1> QED
  BY <1>2, <1>3

LEMMA RefuseInv ==
    ASSUME SockInv, NEW r \in Requests, Refuse(r)
    PROVE  SockInv'
<1> DEFINE c == [Quiet EXCEPT !.at = "refused"]
<1>1. c \in Conn /\ c.at = "refused" /\ ~c.awaiting
  BY QuietConn DEF Conn, Stages
<1>2. Becomes(r, c) /\ sockets' = sockets /\ conn[r].at = "swapping"
  BY DEF Refuse, Steps
<1> HIDE DEF c
<1> QED
  BY <1>1, <1>2, StaysInv DEF Holding, Connected

LEMMA DispatchInv ==
    ASSUME SockInv, NEW r \in Requests, Dispatch(r) \/ PreflightDropped(r)
    PROVE  SockInv'
<1>1. CASE Upgrade(r)
  BY <1>1, GoesInv DEF Upgrade, Stages, Trying, Holding, Connected
<1>2. CASE ReadCounter(r)
  BY <1>2, SeesInv DEF ReadCounter, Steps, Trying
<1>3. CASE Swap(r)
  BY <1>3, SwapInv
<1>4. CASE Refuse(r)
  BY <1>4, RefuseInv
<1>5. CASE PreflightAnswers(r) \/ PreflightDropped(r)
  BY <1>5, EndsInv DEF PreflightAnswers, PreflightDropped, Steps, Holding
<1>6. CASE PreflightPasses(r)
  BY <1>6, GoesInv DEF PreflightPasses, Steps, Stages, Holding, Connected
<1> QED
  BY <1>1, <1>2, <1>3, <1>4, <1>5, <1>6 DEF Dispatch

LEMMA LeavingConn ==
    ASSUME SockTypeOK, NEW r \in Requests
    PROVE  /\ Leaving(r) \in Conn /\ ~Leaving(r).awaiting
           /\ Leaving(r).at \in {"closing", "farewell"}
<1> DEFINE at == IF "close" \in Handlers[r] THEN "closing" ELSE "farewell"
           c1 == [conn[r] EXCEPT !.at = at]
           c2 == [c1 EXCEPT !.out = <<>>]
           c3 == [c2 EXCEPT !.frames = <<>>]
           c4 == [c3 EXCEPT !.awaiting = FALSE]
           c5 == [c4 EXCEPT !.alive = FALSE]
<1>0. <<>> \in Seq({"text", "close"}) /\ <<>> \in Seq(Frames)
  OBVIOUS
<1>1. at \in {"closing", "farewell"} /\ at \in Stages
  BY DEF Stages, Holding, Connected
<1> HIDE DEF at
<1>2. c1 \in Conn /\ c1.at = at
  BY <1>1, GoesConn
<1> HIDE DEF c1
<1>3. c2 \in Conn /\ c2.at = at
  BY <1>0, <1>2 DEF Conn
<1> HIDE DEF c2
<1>4. c3 \in Conn /\ c3.at = at
  BY <1>0, <1>3 DEF Conn
<1> HIDE DEF c3
<1>5. c4 \in Conn /\ c4.at = at /\ ~c4.awaiting
  BY <1>4 DEF Conn
<1> HIDE DEF c4
<1>6. c5 \in Conn /\ c5.at = at /\ ~c5.awaiting
  BY <1>5 DEF Conn
<1>7. c5 = Leaving(r)
  BY DEF Leaving, at, c1, c2, c3, c4
<1> QED
  BY <1>1, <1>6, <1>7

LEMMA LeavesInv ==
    ASSUME SockInv, NEW r \in Requests, conn[r].at \in Connected, Becomes(r, Leaving(r)),
           sockets' = sockets
    PROVE  SockInv'
<1>1. /\ Leaving(r) \in Conn /\ ~Leaving(r).awaiting
      /\ Leaving(r).at \in {"closing", "farewell"}
  BY LeavingConn DEF SockInv
<1> QED
  BY <1>1, StaysInv DEF Holding, Connected

LEMMA HandledInv ==
    ASSUME SockInv, NEW r \in Requests, NEW out \in Outputs, NEW at \in {"opening", "handling"},
           Handled(r, at, out)
    PROVE  SockInv'
<1> DEFINE c1 == [conn[r] EXCEPT !.at = "flushing"]
           c  == [c1 EXCEPT !.out = out]
<1>1. /\ c1 \in Conn /\ c1.at = "flushing" /\ c1.frames = conn[r].frames
      /\ c1.awaiting = conn[r].awaiting /\ c1.alive = conn[r].alive
  BY GoesConn DEF SockInv, Stages, Holding, Connected
<1> HIDE DEF c1
<1>2. out \in Seq({"text", "close"})
  BY SocketsAssumption
<1>3. /\ c \in Conn /\ c.at = "flushing" /\ c.frames = c1.frames
      /\ c.awaiting = c1.awaiting /\ c.alive = c1.alive
  BY <1>1, <1>2 DEF Conn
<1>4. Becomes(r, c) /\ sockets' = sockets /\ conn[r].at \in Holding
  BY DEF Handled, Steps, c1, Holding, Connected
<1> HIDE DEF c
<1>5. c.awaiting /\ c.alive => c.frames # <<>>
  BY <1>1, <1>3 DEF SockInv, Heard
<1> QED
  BY <1>3, <1>4, <1>5, StaysInv DEF Holding, Connected

LEMMA FlushInv ==
    ASSUME SockInv, NEW r \in Requests, Flush(r)
    PROVE  SockInv'
<1>0. /\ conn[r].at = "flushing" /\ sockets' = sockets
      /\ conn[r] \in Conn /\ conn[r].at \in Connected
  BY DEF Flush, Steps, SockInv, SockTypeOK, Connected
<1>1. CASE Goes(r, "loop")
  BY <1>0, <1>1, GoesInv DEF Stages, Holding, Connected
<1>2. CASE conn[r].out # <<>> /\ Becomes(r, [conn[r] EXCEPT !.out = Tail(conn[r].out)])
  <2> DEFINE c == [conn[r] EXCEPT !.out = Tail(conn[r].out)]
  <2>1. Tail(conn[r].out) \in Seq({"text", "close"})
    BY <1>0, <1>2 DEF Conn
  <2>2. /\ c \in Conn /\ c.at = conn[r].at /\ c.frames = conn[r].frames
        /\ c.awaiting = conn[r].awaiting /\ c.alive = conn[r].alive
    BY <1>0, <2>1 DEF Conn
  <2>3. Becomes(r, c)
    BY <1>2
  <2> HIDE DEF c
  <2>4. c.awaiting /\ c.alive => c.frames # <<>>
    BY <2>2 DEF SockInv, Heard
  <2> QED
    BY <1>0, <2>2, <2>3, <2>4, StaysInv
<1>3. CASE Becomes(r, Leaving(r))
  BY <1>0, <1>3, LeavesInv
<1> QED
  BY <1>1, <1>2, <1>3 DEF Flush

\* What recv leaves of a connection that goes on.
LEMMA ReadConn ==
    ASSUME SockTypeOK, NEW r \in Requests, conn[r].frames # <<>>, conn[r].at = "loop",
           Recv(r)
    PROVE  \/ Head(conn[r].frames) = "close" /\ Becomes(r, Leaving(r))
           \/ \E c \in Conn : Becomes(r, c) /\ c.at \in {"loop", "handling"} /\ ~c.awaiting
<1> DEFINE c1 == [conn[r] EXCEPT !.frames = Tail(conn[r].frames)]
           c2 == [c1 EXCEPT !.awaiting = FALSE]
           c3 == [c2 EXCEPT !.at = "handling"]
<1>0. conn[r] \in Conn
  BY DEF SockTypeOK
<1>1. Tail(conn[r].frames) \in Seq(Frames)
  BY <1>0 DEF Conn
<1>2. c1 \in Conn /\ c1.at = "loop"
  BY <1>0, <1>1 DEF Conn
<1>3. \/ Head(conn[r].frames) = "close" /\ Becomes(r, Leaving(r))
      \/ Becomes(r, c2) \/ Becomes(r, c3)
  BY DEF Recv
<1> HIDE DEF c1
<1>4. c2 \in Conn /\ c2.at = "loop" /\ ~c2.awaiting
  BY <1>2 DEF Conn
<1> HIDE DEF c2
<1>5. c3 \in Conn /\ c3.at = "handling" /\ ~c3.awaiting
  BY <1>4 DEF Conn, Stages, Holding, Connected
<1> HIDE DEF c3
<1> QED
  BY <1>3, <1>4, <1>5

LEMMA RecvInv ==
    ASSUME SockInv, NEW r \in Requests, Recv(r)
    PROVE  SockInv'
<1>0. /\ conn[r].at = "loop" /\ conn[r].frames # <<>> /\ sockets' = sockets
      /\ conn[r].at \in Connected /\ SockTypeOK
  BY DEF Recv, Steps, SockInv, Connected
<1>1. CASE Becomes(r, Leaving(r))
  BY <1>0, <1>1, LeavesInv
<1>2. ASSUME NEW c \in Conn, Becomes(r, c), c.at \in {"loop", "handling"}, ~c.awaiting
      PROVE  SockInv'
  BY <1>0, <1>2, StaysInv DEF Holding, Connected
<1> QED
  BY <1>0, <1>1, <1>2, ReadConn

\* A ping that went out.
LEMMA PingConn ==
    ASSUME SockTypeOK, NEW r \in Requests, conn[r].at = "loop"
    PROVE  LET c == [conn[r] EXCEPT !.awaiting = TRUE, !.alive = FALSE]
           IN  c \in Conn /\ c.at = "loop" /\ ~c.alive
<1> DEFINE c1 == [conn[r] EXCEPT !.awaiting = TRUE]
           c  == [c1 EXCEPT !.alive = FALSE]
<1>1. c1 \in Conn /\ c1.at = "loop"
  BY DEF SockTypeOK, Conn
<1> HIDE DEF c1
<1>2. c \in Conn /\ c.at = "loop" /\ ~c.alive
  BY <1>1 DEF Conn
<1> QED
  BY <1>2 DEF c1

LEMMA TickInv ==
    ASSUME SockInv, NEW r \in Requests, Tick(r)
    PROVE  SockInv'
<1>0. /\ conn[r].at = "loop" /\ sockets' = sockets /\ conn[r].at \in Connected
      /\ SockTypeOK
  BY DEF Tick, Steps, SockInv, Connected
<1>1. CASE Becomes(r, Leaving(r))
  BY <1>0, <1>1, LeavesInv
<1>2. CASE Becomes(r, [conn[r] EXCEPT !.awaiting = TRUE, !.alive = FALSE])
  <2>1. PICK c \in Conn : Becomes(r, c) /\ c.at = "loop" /\ ~c.alive
    BY <1>0, <1>2, PingConn
  <2> QED
    BY <1>0, <2>1, StaysInv
<1> QED
  BY <1>1, <1>2 DEF Tick

LEMMA DriveInv ==
    ASSUME SockInv, NEW r \in Requests, Drive(r)
    PROVE  SockInv'
<1>1. CASE HandshakeFails(r) \/ Farewell(r)
  BY <1>1, EndsInv DEF HandshakeFails, Farewell, Steps, Holding, Connected
<1>2. CASE Handshake(r)
  <2>1. \E at \in {"opening", "loop"} : Goes(r, at)
    BY <1>2 DEF Handshake
  <2> QED
    BY <1>2, <2>1, GoesInv DEF Handshake, Steps, Stages, Holding, Connected
<1>3. ASSUME NEW out \in Outputs, Handled(r, "opening", out) \/ Handled(r, "handling", out)
      PROVE  SockInv'
  BY <1>3, HandledInv
<1>4. CASE RecvEnds(r)
  BY <1>4, LeavesInv DEF RecvEnds, Steps, Connected
<1>5. CASE Closed(r)
  BY <1>5, GoesInv DEF Closed, Steps, Stages, Holding, Connected
<1> QED
  BY <1>1, <1>2, <1>3, <1>4, <1>5, FlushInv, RecvInv, TickInv DEF Drive

\* What the peer does to a connection moves nothing else in it.
LEMMA PeerConn ==
    ASSUME SockTypeOK, NEW r \in Requests, Peer(r)
    PROVE  \E c \in Conn : /\ Becomes(r, c) /\ sockets' = sockets
                           /\ c.at = conn[r].at /\ conn[r].at \in Holding
                           /\ \/ c.frames # <<>>
                              \/ /\ c.frames = conn[r].frames /\ c.awaiting = conn[r].awaiting
                                 /\ c.alive = conn[r].alive
<1>0. conn[r] \in Conn
  BY DEF SockTypeOK
<1>1. ASSUME NEW frame \in Frames, PeerSends(r, frame)
      PROVE  \E c \in Conn : /\ Becomes(r, c) /\ sockets' = sockets
                             /\ c.at = conn[r].at /\ conn[r].at \in Holding
                             /\ c.frames # <<>>
  <2> DEFINE n  == conn[r].sends + 1
             fs == Append(conn[r].frames, frame)
             c1 == [conn[r] EXCEPT !.frames = fs]
             c2 == [c1 EXCEPT !.sends = n]
             c  == [c2 EXCEPT !.alive = TRUE]
  <2>0. conn[r].frames \in Seq(Frames) /\ n \in Nat
    BY <1>0 DEF Conn
  <2>1. fs \in Seq(Frames) /\ fs # <<>>
    BY <2>0
  <2>2. Becomes(r, c) /\ sockets' = sockets /\ conn[r].at \in Holding
    BY <1>1, <1>0 DEF PeerSends, Conn, Holding
  <2> HIDE DEF n, fs
  <2>3. c1 \in Conn /\ c1.at = conn[r].at /\ c1.frames # <<>>
    BY <1>0, <2>1 DEF Conn
  <2> HIDE DEF c1
  <2>4. c2 \in Conn /\ c2.at = conn[r].at /\ c2.frames # <<>>
    BY <2>0, <2>3 DEF Conn
  <2> HIDE DEF c2
  <2>5. c \in Conn /\ c.at = conn[r].at /\ c.frames # <<>>
    BY <2>4 DEF Conn
  <2> HIDE DEF c
  <2> QED
    BY <2>2, <2>5
<1>2. ASSUME NEW how \in {"gone", "reset"}, PeerLeaves(r, how)
      PROVE  \E c \in Conn : /\ Becomes(r, c) /\ sockets' = sockets
                             /\ c.at = conn[r].at /\ conn[r].at \in Holding
                             /\ c.frames = conn[r].frames /\ c.awaiting = conn[r].awaiting
                             /\ c.alive = conn[r].alive
  <2> DEFINE c == [conn[r] EXCEPT !.peer = how]
  <2>1. /\ c \in Conn /\ c.at = conn[r].at /\ c.frames = conn[r].frames
        /\ c.awaiting = conn[r].awaiting /\ c.alive = conn[r].alive
    BY <1>0 DEF Conn
  <2>2. Becomes(r, c) /\ sockets' = sockets /\ conn[r].at \in Holding
    BY <1>2 DEF PeerLeaves
  <2> HIDE DEF c
  <2> QED
    BY <2>1, <2>2
<1> QED
  BY <1>1, <1>2 DEF Peer, Frames

LEMMA PeerInv ==
    ASSUME SockInv, NEW r \in Requests, Peer(r)
    PROVE  SockInv'
<1>1. PICK c \in Conn : /\ Becomes(r, c) /\ sockets' = sockets
                        /\ c.at = conn[r].at /\ conn[r].at \in Holding
                        /\ \/ c.frames # <<>>
                           \/ /\ c.frames = conn[r].frames /\ c.awaiting = conn[r].awaiting
                              /\ c.alive = conn[r].alive
  BY PeerConn DEF SockInv
<1>2. c.at # "swapping"
  BY <1>1 DEF Holding, Connected
<1>3. c.awaiting /\ c.alive => c.frames # <<>>
  BY <1>1 DEF SockInv, Heard
<1> QED
  BY <1>1, <1>2, <1>3, StaysInv

LEMMA ExitInv ==
    ASSUME SockInv, SocketsExit
    PROVE  SockInv'
<1> DEFINE c == [Quiet EXCEPT !.at = "dropped"]
<1>1. c \in Conn /\ c.at = "dropped" /\ ~c.awaiting
  BY QuietConn DEF Conn, Stages
<1>2. conn' = [r \in Requests |-> c] /\ sockets' = 0
  BY DEF SocketsExit
<1> HIDE DEF c
<1>3. Holders(conn)' = {}
  BY <1>1, <1>2 DEF Holders, Holding, Connected
<1>4. IsFiniteSet({}) /\ Cardinality({}) = 0
  BY FS_EmptySet
<1>5. CountExact'
  BY <1>2, <1>3, <1>4 DEF CountExact
<1>6. Limited'
  BY <1>2, SocketsAssumption DEF Limited
<1>7. SockTypeOK' /\ Earned' /\ Heard'
  BY <1>1, <1>2 DEF SockTypeOK, Earned, Heard
<1> QED
  BY <1>5, <1>6, <1>7 DEF SockInv

LEMMA NextInv == SockInv /\ [SocketsStep]_<<server, sock>> => SockInv'
<1> SUFFICES ASSUME SockInv, [SocketsStep]_<<server, sock>>
             PROVE  SockInv'
  OBVIOUS
<1>1. CASE UNCHANGED sock
  <2>1. sockets' = sockets /\ conn' = conn
    BY <1>1 DEF sock
  <2> QED
    BY <2>1 DEF SockInv, SockTypeOK, CountExact, Limited, Earned, Heard, Holders
<1> QED
  BY <1>1, DispatchInv, DriveInv, PeerInv, ExitInv DEF SocketsStep, SocketsNext

LEMMA Holds == SocketsSpec => []SockInv
BY InitSock, NextInv, PTL DEF SocketsSpec

\* The counter of open sockets is the number of slots held and within
\* max_sockets, for every instance and however connections end.
THEOREM CounterExact == SocketsSpec => []SlotsExact
<1>1. SockInv => SlotsExact
  BY DEF SockInv, CountExact, Limited, SlotsExact, InUse, Holders
<1> QED
  BY <1>1, Holds, PTL

-----------------------------------------------------------------------------
(* What a step may not do.                                                 *)

\* A step is of one connection, or the exit of the process, and leaves the
\* other connections where they are.
LEMMA OneMoves ==
    ASSUME SockTypeOK, [SocketsStep]_<<server, sock>>, NEW q \in Requests,
           conn'[q].at # conn[q].at
    PROVE  Dispatch(q) \/ PreflightDropped(q) \/ Drive(q) \/ Peer(q) \/ SocketsExit
<1>1. ASSUME NEW r \in Requests, r # q, NEW c, Becomes(r, c)
      PROVE  FALSE
  <2>1. /\ conn' = Noted([conn EXCEPT ![r] = c]) /\ conn[q] \in Conn
        /\ [conn EXCEPT ![r] = c][q] = conn[q]
    BY <1>1 DEF Becomes, SockTypeOK
  <2>2. conn'[q] = conn[q] \/ conn'[q] = [conn[q] EXCEPT !.full = TRUE]
    BY <2>1 DEF Noted
  <2> QED
    BY <2>1, <2>2 DEF Conn
<1>2. ASSUME NEW r \in Requests,
             Dispatch(r) \/ PreflightDropped(r) \/ Drive(r) \/ Peer(r)
      PROVE  \E c : Becomes(r, c)
  <2>1. CASE Dispatch(r) \/ PreflightDropped(r)
    BY <2>1 DEF Dispatch, PreflightDropped, Upgrade, ReadCounter, Swap, Refuse,
                PreflightAnswers, PreflightPasses, Goes, Ends
  <2>2. CASE Drive(r)
    BY <2>2 DEF Drive, HandshakeFails, Handshake, Handled, Flush, Recv, RecvEnds, Tick, Closed,
                Farewell, Goes, Ends
  <2>3. CASE Peer(r)
    BY <2>3 DEF Peer, PeerSends, PeerLeaves
  <2> QED
    BY <1>2, <2>1, <2>2, <2>3
<1>3. ~UNCHANGED sock
  BY DEF sock
<1> QED
  BY <1>1, <1>2, <1>3 DEF SocketsStep, SocketsNext

LEMMA ExitDrops ==
    ASSUME SocketsExit, NEW r \in Requests
    PROVE  conn'[r].at = "dropped"
BY QuietConn DEF SocketsExit, Conn

\* Who takes part in the race for a slot stays in it, wins, or is refused.
LEMMA TryingMoves ==
    ASSUME SockInv, NEW r \in Requests, ReadCounter(r) \/ Swap(r)
    PROVE  conn'[r].at # "refused"
<1>0. SockTypeOK /\ conn[r] \in Conn /\ sockets \in Nat
  BY DEF SockInv, SockTypeOK
<1>1. CASE Goes(r, "preflight")
  <2>1. PICK c \in Conn : Becomes(r, c) /\ c.at = "preflight"
    BY <1>0, <1>1, GoesConn DEF Goes, Stages, Holding
  <2> QED
    BY <1>0, <2>1, BecomesConn
<1>2. CASE Becomes(r, [conn[r] EXCEPT !.seen = sockets]) /\ conn[r].at = "swapping"
  <2> DEFINE c == [conn[r] EXCEPT !.seen = sockets]
  <2>1. c \in Conn /\ c.at = "swapping"
    BY <1>0, <1>2 DEF Conn
  <2>2. Becomes(r, c)
    BY <1>2
  <2> HIDE DEF c
  <2> QED
    BY <1>0, <2>1, <2>2, BecomesConn
<1>3. CASE Becomes(r, [conn[r] EXCEPT !.at = "swapping", !.seen = sockets])
  <2> DEFINE c1 == [conn[r] EXCEPT !.at = "swapping"]
             c  == [c1 EXCEPT !.seen = sockets]
  <2>1. c1 \in Conn /\ c1.at = "swapping"
    BY <1>0, GoesConn DEF Stages, Trying
  <2>2. Becomes(r, c)
    BY <1>3
  <2> HIDE DEF c1
  <2>3. c \in Conn /\ c.at = "swapping"
    BY <1>0, <2>1 DEF Conn
  <2> HIDE DEF c
  <2> QED
    BY <1>0, <2>2, <2>3, BecomesConn
<1> QED
  BY <1>1, <1>2, <1>3 DEF ReadCounter, Swap, Steps

\* An upgrade is refused only if all slots were in use while it tried, for
\* every instance.
THEOREM Refusals == SocketsSpec => RefusalEarned
<1> DEFINE Step == \A r \in Requests :
                      conn[r].at \in Trying /\ conn'[r].at = "refused" => conn[r].full
<1>1. SockInv /\ [SocketsStep]_<<server, sock>> => Step
  <2> SUFFICES ASSUME SockInv, [SocketsStep]_<<server, sock>>, NEW r \in Requests,
                      conn[r].at \in Trying, conn'[r].at = "refused"
               PROVE  conn[r].full
    OBVIOUS
  <2>1. Dispatch(r) \/ PreflightDropped(r) \/ Drive(r) \/ Peer(r) \/ SocketsExit
    BY OneMoves DEF SockInv, Trying
  <2>2. ~SocketsExit /\ ~ReadCounter(r) /\ ~Swap(r)
    BY ExitDrops, TryingMoves
  <2>3. ~(Drive(r) \/ Peer(r) \/ PreflightDropped(r))
    BY DEF Drive, HandshakeFails, Handshake, Handled, Flush, Recv, RecvEnds, Tick, Closed,
           Farewell, Peer, PeerSends, PeerLeaves, PreflightDropped, Steps, Trying, Holding,
           Connected
  <2>4. Refuse(r)
    BY <2>1, <2>2, <2>3
       DEF Dispatch, Upgrade, PreflightAnswers, PreflightPasses, Steps, Trying
  <2> QED
    BY <2>4 DEF Refuse, Steps, SockInv, Earned
<1>2. Step => [Step]_conn
  OBVIOUS
<1> QED
  BY <1>1, Holds, PTL DEF SocketsSpec, RefusalEarned

\* Who answers the last ping is not cut for it, for every instance: the frame
\* is read before the next ping is due.
THEOREM Answers == SocketsSpec => AnswerCounts
<1> DEFINE Step == \A r \in Requests :
                      /\ conn[r].at = "loop" /\ conn'[r].at \in {"closing", "farewell"}
                      /\ conn[r].peer = "here" /\ conn[r].alive
                      => conn[r].frames # <<>> /\ Head(conn[r].frames) = "close"
<1>1. SockInv /\ [SocketsStep]_<<server, sock>> => Step
  <2> SUFFICES ASSUME SockInv, [SocketsStep]_<<server, sock>>, NEW r \in Requests,
                      conn[r].at = "loop", conn'[r].at \in {"closing", "farewell"},
                      conn[r].peer = "here", conn[r].alive
               PROVE  conn[r].frames # <<>> /\ Head(conn[r].frames) = "close"
    OBVIOUS
  <2>0. SockTypeOK
    BY DEF SockInv
  <2>1. Dispatch(r) \/ PreflightDropped(r) \/ Drive(r) \/ Peer(r) \/ SocketsExit
    BY <2>0, OneMoves
  <2>2. ~SocketsExit
    BY ExitDrops
  <2>3. ~Peer(r)
    BY <2>0, PeerConn, BecomesConn
  <2>4. ~(Dispatch(r) \/ PreflightDropped(r))
    BY DEF Dispatch, PreflightDropped, Upgrade, ReadCounter, Swap, Refuse,
           PreflightAnswers, PreflightPasses, Steps
  <2>5. Recv(r) \/ RecvEnds(r) \/ Tick(r)
    BY <2>1, <2>2, <2>3, <2>4
       DEF Drive, HandshakeFails, Handshake, Handled, Flush, Closed, Farewell, Steps
  <2>6. CASE Recv(r)
    <3>1. conn[r].frames # <<>>
      BY <2>6 DEF Recv
    <3>2. ASSUME NEW c \in Conn, Becomes(r, c), c.at \in {"loop", "handling"}
          PROVE  FALSE
      BY <2>0, <3>2, BecomesConn
    <3> QED
      BY <2>0, <2>6, <3>1, <3>2, ReadConn
  <2>7. ~RecvEnds(r)
    BY DEF RecvEnds
  <2>8. ~Tick(r)
    <3> SUFFICES ASSUME Tick(r) PROVE FALSE
      OBVIOUS
    <3>1. ~conn[r].awaiting
      BY DEF Tick, SockInv, Heard
    <3>2. Becomes(r, [conn[r] EXCEPT !.awaiting = TRUE, !.alive = FALSE])
      BY <3>1 DEF Tick
    <3>3. PICK c \in Conn : Becomes(r, c) /\ c.at = "loop"
      BY <2>0, <3>2, PingConn
    <3> QED
      BY <2>0, <3>3, BecomesConn
  <2> QED
    BY <2>5, <2>6, <2>7, <2>8
<1>2. Step => [Step]_conn
  OBVIOUS
<1> QED
  BY <1>1, Holds, PTL DEF SocketsSpec, AnswerCounts
=============================================================================
