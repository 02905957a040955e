------------------------------ MODULE MCServer ------------------------------
(***************************************************************************)
(* A server on a small instance.  The parts share the process and its       *)
(* requests and nothing else, so a behaviour exercises one of them: the     *)
(* scene it is given at the start.                                          *)
(***************************************************************************)
EXTENDS LogWriter, Sockets, KeyCache

CONSTANTS r1, r2, r3, s1, s2

VARIABLE scene
all == <<server, logs, sock, keys, scene>>

Cast == [logs |-> {r1, r2}, sockets |-> Requests, keys |-> {r1, r2}]
SmallOutputs == {<<>>, <<"text">>, <<"text", "close">>}
SmallHandlers == [r \in Requests |-> IF r = r1 THEN {"open", "message", "close"} ELSE {}]
SmallColumns == [s \in Statements |-> IF s = s1 THEN 1 ELSE 2]
SmallFrames == [r \in Requests |-> IF r = r1 THEN 1 ELSE 0]

Init ==
    /\ scene \in DOMAIN Cast
    /\ life = "serving"
    /\ req = [r \in Requests |-> IF r \notin Cast[scene] THEN "answered"
                               ELSE IF scene = "logs" THEN "coming" ELSE "running"]
    /\ LogInit /\ SocketsInit
    /\ KeysInit /\ (scene # "keys" => published = Kids)

Next ==
    /\ UNCHANGED scene
    /\ \/ scene = "logs" /\ LogNext /\ UNCHANGED <<sock, keys>>
       \/ scene = "sockets" /\ SocketsNext /\ UNCHANGED <<logs, keys>>
       \/ scene = "keys" /\ KeysNext /\ UNCHANGED <<logs, sock>>

Serves == \E r \in Requests : Dispatch(r) \/ Drive(r)

\* Tokio polls what is ready, handlers return, the database answers, and a
\* clock that runs goes on.  A send on a full buffer ends: the peer reads, or
\* TCP gives up on frames that nobody acknowledges.
Fairness ==
    /\ WF_all(scene = "logs" /\ Consumes /\ UNCHANGED <<sock, keys, scene>>)
    /\ WF_all(scene = "logs" /\ LogTick /\ UNCHANGED <<sock, keys, scene>>)
    /\ WF_all(scene = "sockets" /\ Serves /\ UNCHANGED <<logs, keys, scene>>)

Spec == Init /\ [][Next]_all /\ Fairness

ServerTypeOK ==
    /\ life \in {"serving", "draining", "exited"}
    /\ req \in [Requests -> {"coming", "running", "answered", "timed out"}]
    /\ LogTypeOK /\ SocketsTypeOK /\ KeysTypeOK
=============================================================================
