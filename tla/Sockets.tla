------------------------------- MODULE Sockets -------------------------------
(***************************************************************************)
(* Websockets (serve.rs, socket_dispatch and drive_socket): an upgrade      *)
(* takes a slot before its handshake, the connection it becomes runs its    *)
(* handlers one after the other and pings a quiet peer, and the slot comes  *)
(* back however the connection ends.                                        *)
(*                                                                          *)
(* A connection is the request that asked for it.                           *)
(***************************************************************************)
EXTENDS Server

CONSTANTS
    MaxSockets,  \* server { max_sockets }; 0 is no limit
    Keepalive,   \* whether server { socket_keepalive } is not zero
    Handlers,    \* the handlers the route of each request declares
    Outputs,     \* what a handler may queue: sequences of "text" and "close"
    MaxFrames    \* bound: frames the peer of each sends

ASSUME SocketsAssumption ==
    /\ MaxSockets \in Nat /\ Keepalive \in BOOLEAN
    /\ MaxFrames \in [Requests -> Nat]
    /\ Handlers \in [Requests -> SUBSET {"open", "message", "close"}]
    /\ Outputs \subseteq Seq({"text", "close"})

VARIABLES
    sockets,  \* Program::open_sockets
    conn      \* each connection

sock == <<sockets, conn>>

(* at: how far a connection is.  seen: the counter as the loop read it.     *)
(* peer: "here", "gone" without a word, or "reset" when TCP knows.          *)
(* out: frames queued and not sent.  frames: sent by the peer and not read. *)
(* awaiting: awaiting_pong.  For the properties and the bound: sends, how   *)
(* many frames the peer sent; full, whether all slots were in use at some   *)
(* moment of the attempt; alive, whether a frame came after the last ping.  *)
Quiet == [at |-> "none", seen |-> 0, peer |-> "here", out |-> <<>>, frames |-> <<>>,
          awaiting |-> FALSE, sends |-> 0, full |-> FALSE, alive |-> FALSE]

SocketsInit == sockets = 0 /\ conn = [r \in Requests |-> Quiet]

Trying == {"reading", "swapping"}
Connected == {"opening", "flushing", "loop", "handling", "closing", "farewell"}
Holding == {"preflight", "upgrading"} \cup Connected
Stages == {"none", "refused", "ended", "dropped"} \cup Trying \cup Holding

Reaches(n) == MaxSockets # 0 /\ n >= MaxSockets
InUse(c) == Cardinality({r \in Requests : c[r].at \in Holding})

\* Who is still asking for a slot takes note when all are in use.
Noted(c) == [r \in Requests |-> IF c[r].at \in Trying /\ Reaches(InUse(c))
                                THEN [c[r] EXCEPT !.full = TRUE] ELSE c[r]]

Steps(r, at) == life # "exited" /\ conn[r].at = at
Becomes(r, c) == conn' = Noted([conn EXCEPT ![r] = c])
Goes(r, at) == Becomes(r, [conn[r] EXCEPT !.at = at])

\* Drop of SocketSlot.
Ends(r) == Becomes(r, [Quiet EXCEPT !.at = "ended"]) /\ sockets' = sockets - 1
------------------------------------------------------------------------------
(* The upgrade: socket_dispatch. *)

Upgrade(r) ==
    /\ Runs(r) /\ conn[r].at = "none"
    /\ Goes(r, "reading")
    /\ UNCHANGED <<server, sockets>>

ReadCounter(r) ==
    /\ Steps(r, "reading")
    /\ Becomes(r, [conn[r] EXCEPT !.at = "swapping", !.seen = sockets])
    /\ UNCHANGED <<server, sockets>>

\* Mutant: a store of what was read, plus one.
SwapBlind(r) ==
    /\ Steps(r, "swapping") /\ ~Reaches(conn[r].seen)
    /\ sockets' = conn[r].seen + 1 /\ Goes(r, "preflight")
    /\ UNCHANGED server
\* Mutant: one compare_exchange, and a 503 when it fails.
SwapOnce(r) ==
    /\ Steps(r, "swapping") /\ ~Reaches(conn[r].seen)
    /\ IF sockets = conn[r].seen
       THEN sockets' = sockets + 1 /\ Goes(r, "preflight")
       ELSE Becomes(r, [conn[r] EXCEPT !.seen = MaxSockets]) /\ UNCHANGED sockets
    /\ UNCHANGED server
Swap(r) ==
    /\ Steps(r, "swapping") /\ ~Reaches(conn[r].seen)
    /\ IF sockets = conn[r].seen
       THEN sockets' = sockets + 1 /\ Goes(r, "preflight")
       ELSE Becomes(r, [conn[r] EXCEPT !.seen = sockets]) /\ UNCHANGED sockets
    /\ UNCHANGED server

\* 503, before the handshake.
Refuse(r) ==
    /\ Steps(r, "swapping") /\ Reaches(conn[r].seen)
    /\ Becomes(r, [Quiet EXCEPT !.at = "refused"]) /\ Respond(r)
    /\ UNCHANGED sockets

PreflightAnswers(r) == Steps(r, "preflight") /\ Ends(r) /\ Respond(r)

\* The client is gone, and the future with the slot in it is dropped.
PreflightDropped(r) ==
    Steps(r, "preflight") /\ conn[r].peer = "reset" /\ Ends(r) /\ TimeOut(r)

PreflightPasses(r) ==
    /\ Steps(r, "preflight")
    /\ Goes(r, "upgrading") /\ Respond(r)
    /\ UNCHANGED sockets

\* The callback of on_upgrade owns the slot, and is dropped if it never runs.
HandshakeFails(r) ==
    Steps(r, "upgrading") /\ conn[r].peer # "here" /\ Ends(r) /\ UNCHANGED server

Handshake(r) ==
    /\ Steps(r, "upgrading")
    /\ Goes(r, IF "open" \in Handlers[r] THEN "opening" ELSE "loop")
    /\ UNCHANGED <<server, sockets>>
------------------------------------------------------------------------------
(* The connection: drive_socket. *)

\* A handler that raises queues a close after what it queued.
Handled(r, at, out) ==
    /\ Steps(r, at)
    /\ Becomes(r, [conn[r] EXCEPT !.at = "flushing", !.out = out])
    /\ UNCHANGED <<server, sockets>>

Leaving(r) == [conn[r] EXCEPT !.at = IF "close" \in Handlers[r] THEN "closing" ELSE "farewell",
                              !.out = <<>>, !.frames = <<>>, !.awaiting = FALSE, !.alive = FALSE]

\* The frames queued before a close still go.  A send succeeds once the
\* operating system has buffered the frame, whether or not the peer is there;
\* to one that is not it may also fail.  While the buffer is full the send
\* waits, which is the connection not moving: nothing else ends it meanwhile.
Flush(r) ==
    /\ Steps(r, "flushing")
    /\ \/ conn[r].out = <<>> /\ Goes(r, "loop")
       \/ /\ conn[r].out # <<>> /\ Head(conn[r].out) = "text"
          /\ Becomes(r, [conn[r] EXCEPT !.out = Tail(@)])
       \/ /\ conn[r].out # <<>>
          /\ Head(conn[r].out) = "close" \/ conn[r].peer # "here"
          /\ Becomes(r, Leaving(r))
    /\ UNCHANGED <<server, sockets>>

\* Any frame is proof of life.  A binary frame ends the connection like a
\* close does, and a text nobody handles is dropped like a pong.
Recv(r) ==
    /\ Steps(r, "loop") /\ conn[r].frames # <<>>
    /\ LET read == [conn[r] EXCEPT !.frames = Tail(@), !.awaiting = FALSE] IN
       Becomes(r, CASE Head(conn[r].frames) = "close" -> Leaving(r)
                    [] Head(conn[r].frames) = "text" /\ "message" \in Handlers[r] ->
                          [read EXCEPT !.at = "handling"]
                    [] OTHER -> read)
    /\ UNCHANGED <<server, sockets>>

RecvEnds(r) ==
    /\ Steps(r, "loop") /\ conn[r].frames = <<>> /\ conn[r].peer = "reset"
    /\ Becomes(r, Leaving(r))
    /\ UNCHANGED <<server, sockets>>

\* An interval is over, and recv has nothing: the select is biased.  A ping to
\* a peer that is gone is buffered, or fails.
\* Mutant: the interval comes first.
TickFirst(r) ==
    /\ Steps(r, "loop") /\ Keepalive
    /\ Becomes(r, IF conn[r].awaiting THEN Leaving(r)
                  ELSE [conn[r] EXCEPT !.awaiting = TRUE, !.alive = FALSE])
    /\ UNCHANGED <<server, sockets>>
\* Mutant: pings, and no deadline for the answer.
TickPings(r) ==
    /\ Steps(r, "loop") /\ Keepalive /\ conn[r].frames = <<>> /\ conn[r].peer # "reset"
    /\ Becomes(r, [conn[r] EXCEPT !.awaiting = TRUE, !.alive = FALSE])
    /\ UNCHANGED <<server, sockets>>
Tick(r) ==
    /\ Steps(r, "loop") /\ Keepalive /\ conn[r].frames = <<>> /\ conn[r].peer # "reset"
    /\ \/ /\ conn[r].awaiting \/ conn[r].peer = "gone"
          /\ Becomes(r, Leaving(r))
       \/ /\ ~conn[r].awaiting
          /\ Becomes(r, [conn[r] EXCEPT !.awaiting = TRUE, !.alive = FALSE])
    /\ UNCHANGED <<server, sockets>>

\* What on_close queues is dropped.
Closed(r) == Steps(r, "closing") /\ Goes(r, "farewell") /\ UNCHANGED <<server, sockets>>

Farewell(r) == Steps(r, "farewell") /\ Ends(r) /\ UNCHANGED server
------------------------------------------------------------------------------
(* The peer, and the process. *)

PeerSends(r, frame) ==
    /\ life # "exited" /\ conn[r].at \in Connected \ {"closing", "farewell"}
    /\ conn[r].peer = "here" /\ conn[r].sends < MaxFrames[r]
    /\ Becomes(r, [conn[r] EXCEPT !.frames = Append(@, frame), !.sends = @ + 1, !.alive = TRUE])
    /\ UNCHANGED <<server, sockets>>

PeerLeaves(r, how) ==
    /\ life # "exited" /\ conn[r].at \in Holding /\ conn[r].peer = "here"
    /\ Becomes(r, [conn[r] EXCEPT !.peer = how])
    /\ UNCHANGED <<server, sockets>>

\* The tasks of connections are not waited for: on_close does not run.
SocketsExit ==
    /\ Exit
    /\ conn' = [r \in Requests |-> [Quiet EXCEPT !.at = "dropped"]] /\ sockets' = 0

Dispatch(r) ==
    \/ Upgrade(r) \/ ReadCounter(r) \/ Swap(r) \/ Refuse(r)
    \/ PreflightAnswers(r) \/ PreflightPasses(r)
Drive(r) ==
    \/ HandshakeFails(r) \/ Handshake(r)
    \/ \E out \in Outputs : Handled(r, "opening", out) \/ Handled(r, "handling", out)
    \/ Flush(r) \/ Recv(r) \/ RecvEnds(r) \/ Tick(r) \/ Closed(r) \/ Farewell(r)
Peer(r) ==
    \/ \E frame \in {"text", "pong", "close"} : PeerSends(r, frame)
    \/ \E how \in {"gone", "reset"} : PeerLeaves(r, how)

\* The requests are those that were accepted.
SocketsNext ==
    \/ \E r \in Requests : Dispatch(r) \/ PreflightDropped(r) \/ Drive(r) \/ Peer(r)
    \/ SocketsExit

\* A process that serves sockets, with any requests under way.
SocketsStart ==
    /\ life = "serving"
    /\ req \in [Requests -> {"coming", "running", "answered", "timed out"}]
    /\ SocketsInit
SocketsStep == SocketsNext \/ (Arrives /\ UNCHANGED sock)
SocketsSpec == SocketsStart /\ [][SocketsStep]_<<server, sock>>
------------------------------------------------------------------------------
(* Properties. *)

SocketsTypeOK ==
    /\ sockets \in 0..Cardinality(Requests)
    /\ DOMAIN conn = Requests
    /\ \A r \in Requests :
          /\ conn[r].at \in Stages /\ conn[r].peer \in {"here", "gone", "reset"}
          /\ conn[r].seen \in 0..Cardinality(Requests)
          /\ Len(conn[r].frames) <= conn[r].sends /\ conn[r].sends <= MaxFrames[r]
          /\ {conn[r].awaiting, conn[r].full, conn[r].alive} \subseteq BOOLEAN
          /\ conn[r].out # <<>> => conn[r].at = "flushing"

\* The counter is the number of connections that hold a slot, and never above
\* max_sockets (serve.rs, SocketSlot: the count is right however a connection
\* ends; the load and the swap race with every other upgrade).
SlotsExact ==
    /\ sockets = InUse(conn)
    /\ MaxSockets # 0 => sockets <= MaxSockets

\* An upgrade is refused only if all slots were in use at a moment of its own
\* attempt (serve.rs, the comment on compare-and-swap: a server does not
\* refuse a slot it has).
RefusalEarned ==
    [][\A r \in Requests : conn[r].at \in Trying /\ conn'[r].at = "refused" => conn[r].full]_conn

\* Who sent a frame after the last ping is cut only for a close of its own,
\* however long a handler kept the loop from reading it (serve.rs, biased).
AnswerCounts ==
    [][\A r \in Requests :
          /\ conn[r].at = "loop" /\ conn'[r].at \in {"closing", "farewell"}
          /\ conn[r].peer = "here" /\ conn[r].alive
          => conn[r].frames # <<>> /\ Head(conn[r].frames) = "close"]_conn

\* A peer that is gone gives its slot back, with no word from TCP, also if its
\* handlers go on sending to it (serve.rs, the comment on the ping); of TCP it
\* takes only that a send that waits for room in the buffer ends.
Dead == {r \in Requests : conn[r].at \in Holding /\ conn[r].peer # "here"}
Reclaimed == (Dead # {}) ~> (Dead = {})
=============================================================================
