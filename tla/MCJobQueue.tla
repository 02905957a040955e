----------------------------- MODULE MCJobQueue -----------------------------
(***************************************************************************)
(* JobQueue on small instances: two processes with a worker each, so that  *)
(* a claim of one can meet a claim, a boot or a crash of the other.        *)
(***************************************************************************)
EXTENDS JobQueue, TLC

CONSTANTS w1, w2, r1, r2, old, new, tick, call

\* The two processes with their workers are interchangeable.
MCSymmetry == {w1 :> w1 @@ w2 :> w2 @@ r1 :> r1 @@ r2 :> r2,
               w1 :> w2 @@ w2 :> w1 @@ r1 :> r2 @@ r2 :> r1}

MCHost == w1 :> r1 @@ w2 :> r2

\* A rolling deploy that drops the tick, and one that changes nothing.
MCDropsTick == old :> {tick, call} @@ new :> {call}
MCSame      == old :> {tick, call}
MCCallsOnly == old :> {call}
MCTickOnly  == old :> {tick}

MCPeriod  == [b \in Builds |-> [n \in Ticks |-> 1]]
MCRetries == [b \in Builds |-> [n \in Names |-> IF n \in Ticks THEN 1 ELSE 2]]
MCTwice   == [b \in Builds |-> [n \in Names |-> 2]]
MCOnce    == [b \in Builds |-> [n \in Names |-> 1]]
=============================================================================
