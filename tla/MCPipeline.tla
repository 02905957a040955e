----------------------------- MODULE MCPipeline -----------------------------
(***************************************************************************)
(* Small programs: about the context, and about errors.                     *)
(***************************************************************************)
EXTENDS Pipeline

\* Programs about the context: which middleware sets, requires and reads.
A(body, after) == [requires |-> {}, provides |-> {"k"}, body |-> body, after |-> after]
B(requires, body) == [requires |-> requires, provides |-> {}, body |-> body, after |-> <<Work>>]
Contexts ==
    [middleware : {[a |-> a, b |-> b] :
                       a \in {A(body, after) : body \in {<<Set("k")>>, <<Throw("E"), Set("k")>>, <<Return, Set("k")>>},
                                               after \in {<<>>, <<Read("k")>>, <<Work, ReadIfSet("k")>>}}
                             \cup {A(<<Work>>, <<>>)},
                       b \in {B(requires, body) : requires \in {{}, {"a"}}, body \in {<<Read("k")>>, <<Work>>}}},
     functions : {<<>>},
     chain : {<<>>, <<"a">>, <<"b">>, <<"a", "b">>, <<"b", "a">>, <<"a", "a">>, <<"c">>},
     body : {<<Read("k"), Return>>, <<Return>>, <<Set("j")>>},
     arms : {<<>>}]

\* Programs about errors: who throws, calls and catches them.
F(body, raises) == [body |-> body, raises |-> raises]
Errors ==
    [middleware : {[a |-> [requires |-> {}, provides |-> {}, body |-> body, after |-> after]] :
                       body \in {<<Call("f")>>, <<Work>>}, after \in {<<>>, <<Call("g")>>}},
     functions : {[f |-> F(f, raises), g |-> F(g, {})] :
                      f \in {<<Return, Call("g")>>, <<Throw("E"), Call("f")>>, <<Caught("g", "E", "F")>>,
                             <<Caught("g", "E", NoError)>>},
                      raises \in {{}, {"E"}},
                      g \in {<<Call("f"), Throw("E")>>, <<Throw("E")>>, <<Assigned("F")>>, <<Work>>}},
     chain : {<<"a">>},
     body : {<<Caught("f", "E", "F"), Return>>, <<Call("f"), Return>>, <<Caught("f", "E", NoError)>>},
     arms : {<<>>, <<[error |-> "E", body |-> <<Throw("F"), Return>>]>>, <<[error |-> "E", body |-> <<>>]>>}]
SmallPrograms == Contexts \cup Errors

\* Nothing happens in it.
Quiet == [middleware |-> <<>>, functions |-> <<>>, chain |-> <<>>, body |-> <<Return>>, arms |-> <<>>]
=============================================================================
