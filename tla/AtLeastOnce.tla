---------------------------- MODULE AtLeastOnce ----------------------------
(***************************************************************************)
(* What a durable queue promises a dispatch that was accepted (jobs.rs,    *)
(* the module's head; docs/spec/v1/jobs.md, 3.3 and 3.4), with no worker,  *)
(* lease or process in sight: the job waits until its handler has run to   *)
(* completion or it is on record as dead, it may run any number of times,  *)
(* also after it left, and once it left it does not come back.             *)
(***************************************************************************)

CONSTANT Ids

VARIABLES
    accepted,  \* every job whose dispatch was committed
    waiting,   \* those that are still owed a run
    ran,       \* those whose handler ran to completion
    buried     \* those on record as dead

vars == <<accepted, waiting, ran, buried>>

Init == accepted = {} /\ waiting = {} /\ ran = {} /\ buried = {}

Accept(i) ==
    /\ i \in Ids \ accepted
    /\ accepted' = accepted \cup {i}
    /\ waiting' = waiting \cup {i}
    /\ UNCHANGED <<ran, buried>>

RunJob(i) ==
    /\ i \in accepted
    /\ ran' = ran \cup {i}
    /\ UNCHANGED <<accepted, waiting, buried>>

BuryJob(i) ==
    /\ i \in waiting
    /\ buried' = buried \cup {i}
    /\ UNCHANGED <<accepted, waiting, ran>>

Leave(i) ==
    /\ i \in waiting \cap (ran \cup buried)
    /\ waiting' = waiting \ {i}
    /\ UNCHANGED <<accepted, ran, buried>>

Next == \E i \in Ids : Accept(i) \/ RunJob(i) \/ BuryJob(i) \/ Leave(i)

Spec == Init /\ [][Next]_vars
=============================================================================
