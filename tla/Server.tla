------------------------------- MODULE Server -------------------------------
(***************************************************************************)
(* A `jwc serve` process (serve.rs, serve and handle): the accept loop,    *)
(* request_timeout around every request, and the shutdown that drains.     *)
(* What requests do is in the modules that extend this one.                *)
(***************************************************************************)
EXTENDS Naturals, Sequences, FiniteSets

CONSTANTS Requests  \* the requests that may arrive

VARIABLES
    life,  \* of the process: serving, draining or exited
    req    \* each request: coming, running, answered, timed out

server == <<life, req>>

ServerInit ==
    /\ life = "serving"
    /\ req = [r \in Requests |-> "coming"]

Runs(r) == life # "exited" /\ req[r] = "running"

Accept(r) ==
    /\ life = "serving" /\ req[r] = "coming"
    /\ req' = [req EXCEPT ![r] = "running"]
    /\ UNCHANGED life

Respond(r) ==
    /\ Runs(r)
    /\ req' = [req EXCEPT ![r] = "answered"]
    /\ UNCHANGED life

\* The future of the handler is dropped at the .await it is at.
TimeOut(r) ==
    /\ Runs(r)
    /\ req' = [req EXCEPT ![r] = "timed out"]
    /\ UNCHANGED life

Signal == life = "serving" /\ life' = "draining" /\ UNCHANGED req

\* The process ends: all connections are done, the grace period is over or it
\* crashed.  Only the first asks anything of the requests, and nothing waits
\* for a task that is not the task of a connection.
Exit ==
    /\ life # "exited"
    /\ life' = "exited"
    /\ UNCHANGED req

\* What happens to a process whatever its requests do.
Arrives == Signal \/ \E r \in Requests : Accept(r)
=============================================================================
