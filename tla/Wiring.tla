-------------------------------- MODULE Wiring --------------------------------
(***************************************************************************)
(* What `jwc check` decides about middleware, context and errors before a   *)
(* program runs (wiring.rs).                                                *)
(*                                                                          *)
(* A program is [middleware, functions, chain, body, arms]: one route, with *)
(* its resolved chain.  A body is a sequence of statements.  A throw or a   *)
(* return stands under an `if`: it may be passed over.                      *)
(***************************************************************************)
EXTENDS Naturals, Sequences, FiniteSets

NoError == "no error"

(* let and expression statements, x = q or throw E, f(), f() catch E (b) {} *)
(* with a block that returns or that throws another error, context.k,       *)
(* context.k?, context.k = v, and what may only fault.                      *)
Throw(e)         == [op |-> "throw", error |-> e, assigned |-> FALSE]
Assigned(e)      == [op |-> "throw", error |-> e, assigned |-> TRUE]
Caught(f, e, e2) == [op |-> "call", fn |-> f, catch |-> e, then |-> e2]
Call(f)          == Caught(f, NoError, NoError)
Read(k)          == [op |-> "read", key |-> k, optional |-> FALSE]
ReadIfSet(k)     == [op |-> "read", key |-> k, optional |-> TRUE]
Set(k)           == [op |-> "set", key |-> k]
Work             == [op |-> "work"]
Return           == [op |-> "return"]

Of(body, op) == {body[i] : i \in {i \in DOMAIN body : body[i].op = op}}
------------------------------------------------------------------------------
(* Raise sets. *)

Callees(body) == {s.fn : s \in Of(body, "call")}

\* Assignments are not looked into, and neither are the blocks of a catch.
DirectRaises(body) == {s.error : s \in {t \in Of(body, "throw") : ~t.assigned}}

\* The functions a body calls, and those and what they call in turn.
\* Mutant: the first in the place of the second.
ReachableOnce(p, body) == Callees(body) \cap DOMAIN p.functions
CallClosed(p, fs) == \A f \in fs : Callees(p.functions[f].body) \cap DOMAIN p.functions \subseteq fs
Reachable(p, body) ==
    {f \in DOMAIN p.functions :
        \A fs \in SUBSET DOMAIN p.functions :
            ReachableOnce(p, body) \subseteq fs /\ CallClosed(p, fs) => f \in fs}

\* The fixed point: what a body and all it reaches can raise.
Raises(p, body) ==
    DirectRaises(body) \cup UNION {DirectRaises(p.functions[f].body) : f \in Reachable(p, body)}

Whole(m) == m.body \o m.after
Declared(p) == {i \in DOMAIN p.chain : p.chain[i] \in DOMAIN p.middleware}
Boundary(p) ==
    Raises(p, p.body) \cup UNION {Raises(p, Whole(p.middleware[p.chain[i]])) : i \in Declared(p)}
------------------------------------------------------------------------------
(* The checks. *)

E0804(p) == \E i, j \in DOMAIN p.chain : i # j /\ p.chain[i] = p.chain[j]
E0805(p) == Declared(p) # DOMAIN p.chain

\* A requirement runs earlier: its first place in the chain is the one that
\* counts.
\* Mutant: a requirement is somewhere in the chain.
E0803Anywhere(p) ==
    \E i \in Declared(p) : \E m \in p.middleware[p.chain[i]].requires :
        \A j \in DOMAIN p.chain : p.chain[j] # m
E0803(p) ==
    \E i \in Declared(p) : \E m \in p.middleware[p.chain[i]].requires :
        \A j \in 1..(i - 1) : p.chain[j] # m

Strict(body) == {s.key : s \in {t \in Of(body, "read") : ~t.optional}}
Provided(p, ms) == UNION {p.middleware[m].provides : m \in ms \cap DOMAIN p.middleware}

\* A route reads what its chain provides, a middleware and its after block
\* what it provides itself or requires.
E0820(p) ==
    \/ ~(Strict(p.body) \subseteq Provided(p, {p.chain[i] : i \in DOMAIN p.chain}))
    \/ \E m \in DOMAIN p.middleware :
          ~(Strict(Whole(p.middleware[m]))
              \subseteq Provided(p, p.middleware[m].requires \cup {m}))

E0821(p) == \E m \in DOMAIN p.middleware :
    \E s \in Of(p.middleware[m].body, "set") : s.key \notin p.middleware[m].provides

E0811(p) == \E m \in DOMAIN p.middleware : Raises(p, p.middleware[m].after) # {}

E1002(p) == \E f \in DOMAIN p.functions :
    LET fn == p.functions[f] IN
    fn.raises # {} /\ ~(Raises(p, fn.body) \subseteq fn.raises)

E1011(p) == \E i \in DOMAIN p.arms : Of(p.arms[i].body, "return") = {}

\* A warning: an arm for an error that nothing raises.
W1001(p, arm) == arm.error \notin Boundary(p)

Accepted(p) == ~(E0803(p) \/ E0804(p) \/ E0805(p) \/ E0811(p) \/ E0820(p) \/ E0821(p)
                 \/ E1002(p) \/ E1011(p))
=============================================================================
