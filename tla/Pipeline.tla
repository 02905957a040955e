------------------------------- MODULE Pipeline -------------------------------
(***************************************************************************)
(* What happens to a request (serve.rs, handle_inner, handle_error and      *)
(* run_after_chain; exec.rs and exec_call.rs): the middleware of its chain, *)
(* the handler, the errorHandler, and the after blocks of every middleware  *)
(* that started, in reverse order.                                          *)
(*                                                                          *)
(* Requests share nothing here, so there is one.                            *)
(***************************************************************************)
EXTENDS Server, Wiring, SequencesExt

CONSTANTS
    Programs,  \* what is deployed: one of these, if it is accepted
    MaxDepth   \* MAX_CALL_DEPTH

ASSUME PipelineAssumption == MaxDepth \in Nat

\* A program is made of sequences, and calls functions there are (check.rs
\* refuses another).
IsSeq(s) == s \in Seq(Range(s))
IsBody(p, body) == IsSeq(body) /\ Callees(body) \subseteq DOMAIN p.functions
ASSUME ProgramsAssumption ==
    \A p \in Programs :
        /\ IsSeq(p.chain) /\ IsSeq(p.arms) /\ IsBody(p, p.body)
        /\ \A m \in DOMAIN p.middleware :
              IsBody(p, p.middleware[m].body) /\ IsBody(p, p.middleware[m].after)
        /\ \A f \in DOMAIN p.functions : IsBody(p, p.functions[f].body)
        /\ \A i \in DOMAIN p.arms : IsBody(p, p.arms[i].body)

VARIABLES
    prog,     \* the program
    stage,    \* coming, chain, handler, arms, after, sent, cut
    next,     \* place in the chain, of the arms, or in what is left to unwind
    stack,    \* bodies that run: [of, pc], the innermost last
    flow,     \* how the body that ran last ended: none yet, normal, return, raised
    raising,  \* the error under way: NoError, Fault or a declared one
    thrown,   \* the error the arms are asked about
    hidden,   \* it was thrown in an assignment or in the block of a catch
    context,  \* the keys that are set
    started,  \* middleware whose after block is owed
    began,    \* how many of the chain began (history)
    passed,   \* how many of them fell off the end (history)
    unwound   \* middleware whose after block began

pipe == <<prog, stage, next, stack, flow, raising, thrown, hidden, context, started, began, passed, unwound>>
doing == <<prog, stage, next, thrown, started, began, passed, unwound>>

Fault == "fault"

Deployed == {p \in Programs : Accepted(p)}
PipelineInit(deployed) ==
    /\ prog \in deployed
    /\ stage = "coming" /\ next = 1
    /\ stack = <<>> /\ flow = "none" /\ raising = NoError /\ thrown = NoError /\ hidden = FALSE
    /\ context = {} /\ started = <<>> /\ began = 0 /\ passed = 0 /\ unwound = <<>>

\* The body a frame runs.
Body(of) ==
    CASE of[1] = "function"   -> prog.functions[of[2]].body
      [] of[1] = "middleware" -> prog.middleware[of[2]].body
      [] of[1] = "after"      -> prog.middleware[of[2]].after
      [] of[1] = "arm"        -> prog.arms[of[2]].body
      [] of[1] = "route"      -> prog.body

Top == stack[Len(stack)]
Ended == Top.pc > Len(Body(Top.of))
Stmt == Body(Top.of)[Top.pc]
Depth == Cardinality({i \in DOMAIN stack : stack[i].of[1] = "function"})

Running(op) == stack # <<>> /\ raising = NoError /\ ~Ended /\ Stmt.op = op
Advanced(s) == [s EXCEPT ![Len(s)].pc = @ + 1]
Starts(of) ==
    stack' = <<[of |-> of, pc |-> 1]>> /\ flow' = "none" /\ raising' = NoError /\ hidden' = FALSE
------------------------------------------------------------------------------
(* Statements. *)

Proceed == stack' = Advanced(stack) /\ UNCHANGED <<flow, raising, hidden>>

\* A frame that ends: its caller goes on after the call, or nothing runs.
Pops(how) ==
    LET rest == Front(stack) IN
    IF rest = <<>> THEN stack' = <<>> /\ flow' = how
                   ELSE stack' = Advanced(rest) /\ UNCHANGED flow

DoRead == Running("read") /\ Proceed /\ UNCHANGED <<doing, context>>

DoSet == Running("set") /\ context' = context \cup {Stmt.key} /\ Proceed /\ UNCHANGED doing

DoWork ==
    /\ Running("work")
    /\ Proceed \/ (raising' = Fault /\ UNCHANGED <<stack, flow, hidden>>)
    /\ UNCHANGED <<doing, context>>

DoThrow ==
    /\ Running("throw")
    /\ Proceed \/ (raising' = Stmt.error /\ hidden' = Stmt.assigned /\ UNCHANGED <<stack, flow>>)
    /\ UNCHANGED <<doing, context>>

DoReturn ==
    /\ Running("return")
    /\ Proceed \/ (Pops("return") /\ UNCHANGED <<raising, hidden>>)
    /\ UNCHANGED <<doing, context>>

\* Mutant: one call deeper.
DoCallOver ==
    /\ Running("call")
    /\ IF Depth <= MaxDepth
       THEN stack' = Append(stack, [of |-> <<"function", Stmt.fn>>, pc |-> 1]) /\ UNCHANGED raising
       ELSE raising' = Fault /\ UNCHANGED stack
    /\ UNCHANGED <<doing, flow, hidden, context>>
DoCall ==
    /\ Running("call")
    /\ IF Depth < MaxDepth
       THEN stack' = Append(stack, [of |-> <<"function", Stmt.fn>>, pc |-> 1]) /\ UNCHANGED raising
       ELSE raising' = Fault /\ UNCHANGED stack
    /\ UNCHANGED <<doing, flow, hidden, context>>

FallsOff ==
    /\ stack # <<>> /\ raising = NoError /\ Ended
    /\ Pops("normal")
    /\ UNCHANGED <<doing, raising, hidden, context>>

\* An error leaves a body.  A catch at the call returns from the body that
\* made the call, or throws from it.
Unwind ==
    /\ stack # <<>> /\ raising # NoError
    /\ LET rest == Front(stack)
           at == rest[Len(rest)]
           call == Body(at.of)[at.pc] IN
       IF rest = <<>>
       THEN stack' = <<>> /\ flow' = "raised" /\ UNCHANGED <<raising, hidden>>
       ELSE IF call.catch # raising
       THEN stack' = rest /\ UNCHANGED <<flow, raising, hidden>>
       ELSE IF call.then # NoError
       THEN stack' = rest /\ raising' = call.then /\ hidden' = TRUE /\ UNCHANGED flow
       ELSE /\ raising' = NoError /\ hidden' = FALSE
            /\ IF Len(rest) = 1 THEN stack' = <<>> /\ flow' = "return"
                                ELSE stack' = Advanced(Front(rest)) /\ UNCHANGED flow
    /\ UNCHANGED <<doing, context>>
------------------------------------------------------------------------------
(* The request. *)

Between(s) == stage = s /\ stack = <<>>

\* The next of the chain, or the handler.
\* Mutant: a middleware counts as started when it is done.
EnterLate ==
    /\ Between("chain") /\ flow \in {"none", "normal"}
    /\ passed' = IF flow = "normal" THEN passed + 1 ELSE passed
    /\ started' = SubSeq(prog.chain, 1, passed')
    /\ next' = next + 1
    /\ IF next <= Len(prog.chain)
       THEN Starts(<<"middleware", prog.chain[next]>>) /\ began' = next /\ UNCHANGED stage
       ELSE Starts(<<"route">>) /\ stage' = "handler" /\ UNCHANGED began
    /\ UNCHANGED <<prog, thrown, context, unwound>>
Enter ==
    /\ Between("chain") /\ flow \in {"none", "normal"}
    /\ passed' = IF flow = "normal" THEN passed + 1 ELSE passed
    /\ next' = next + 1
    /\ IF next <= Len(prog.chain)
       THEN /\ Starts(<<"middleware", prog.chain[next]>>) /\ began' = next
            /\ started' = Append(started, prog.chain[next]) /\ UNCHANGED stage
       ELSE Starts(<<"route">>) /\ stage' = "handler" /\ UNCHANGED <<started, began>>
    /\ UNCHANGED <<prog, thrown, context, unwound>>

\* There is a response, and what is left are the after blocks.
Answered ==
    /\ stage' = "after" /\ next' = Len(started)
    /\ UNCHANGED <<prog, stack, flow, raising, thrown, hidden, context, started, began, passed, unwound>>

Responded ==
    /\ \/ Between("chain") /\ flow = "return"
       \/ Between("handler") /\ flow \in {"normal", "return"}
    /\ Answered

\* handle_error: a fault is a 500, and a declared error goes to the arms.
Faulted == (Between("chain") \/ Between("handler")) /\ flow = "raised" /\ raising = Fault /\ Answered
Erred ==
    /\ Between("chain") \/ Between("handler")
    /\ flow = "raised" /\ raising # Fault
    /\ thrown' = raising
    /\ stage' = "arms" /\ next' = 1
    /\ flow' = "none"
    /\ UNCHANGED <<prog, stack, raising, hidden, context, started, began, passed, unwound>>

\* An arm that does not return leaves the error to the arms after it, and then
\* to its default status.
Arm ==
    /\ Between("arms") /\ flow # "return" /\ next <= Len(prog.arms)
    /\ next' = next + 1
    /\ IF prog.arms[next].error = thrown THEN Starts(<<"arm", next>>)
                                         ELSE UNCHANGED <<stack, flow, raising, hidden>>
    /\ UNCHANGED <<prog, stage, thrown, context, started, began, passed, unwound>>
ArmAnswered == Between("arms") /\ (flow = "return" \/ next > Len(prog.arms)) /\ Answered

\* Whatever happens in an after block, the next one runs.
After ==
    /\ Between("after") /\ next > 0
    /\ next' = next - 1
    /\ IF prog.middleware[started[next]].after # <<>>
       THEN Starts(<<"after", started[next]>>) /\ unwound' = Append(unwound, started[next])
       ELSE UNCHANGED <<stack, flow, raising, hidden, unwound>>
    /\ UNCHANGED <<prog, stage, thrown, context, started, began, passed>>

Send(r) ==
    /\ Between("after") /\ next = 0
    /\ stage' = "sent" /\ Respond(r)
    /\ UNCHANGED <<prog, next, stack, flow, raising, thrown, hidden, context, started, began, passed, unwound>>

Begin(r) ==
    /\ Runs(r) /\ stage = "coming"
    /\ stage' = "chain"
    /\ UNCHANGED <<server, prog, next, stack, flow, raising, thrown, hidden, context,
                   started, began, passed, unwound>>

\* A 504: the after blocks that are left do not run.
Cut(r) ==
    /\ stage \notin {"coming", "sent"} /\ TimeOut(r)
    /\ stage' = "cut" /\ stack' = <<>>
    /\ UNCHANGED <<prog, next, flow, raising, thrown, hidden, context, started, began, passed, unwound>>

RunStatement == \/ DoRead \/ DoSet \/ DoWork \/ DoThrow \/ DoReturn \/ DoCall
             \/ FallsOff \/ Unwind
RunStage == Enter \/ Responded \/ Faulted \/ Erred \/ Arm \/ ArmAnswered \/ After

PipelineNext ==
    \/ life # "exited" /\ stage # "cut" /\ (RunStatement \/ RunStage) /\ UNCHANGED server
    \/ \E r \in Requests : Begin(r) \/ Send(r) \/ Cut(r)

\* A process that serves what is deployed, with any requests under way.
PipelineStart ==
    /\ life = "serving"
    /\ req \in [Requests -> {"coming", "running", "answered", "timed out"}]
    /\ PipelineInit(Deployed)
PipelineStep == PipelineNext \/ (Arrives /\ UNCHANGED pipe)
PipelineSpec == PipelineStart /\ [][PipelineStep]_<<server, pipe>>
------------------------------------------------------------------------------
(* Properties. *)

Bodies == {"function", "middleware", "after", "arm", "route"}
PipelineTypeOK ==
    /\ Accepted(prog)
    /\ stage \in {"coming", "chain", "handler", "arms", "after", "sent", "cut"}
    /\ flow \in {"none", "normal", "return", "raised"}
    /\ Depth <= MaxDepth
    /\ \A i \in DOMAIN stack :
          /\ stack[i].of[1] \in Bodies
          /\ (i > 1) <=> (stack[i].of[1] = "function")
          /\ i < Len(stack) => Body(stack[i].of)[stack[i].pc].op = "call"
    /\ IsPrefix(started, prog.chain) /\ passed \in {Len(started) - 1, Len(started)} \cup {0}

\* A middleware sets what it declares it provides, before it reads it.  No
\* check asks for it.
KeepsItsWord(p) ==
    \A m \in DOMAIN p.middleware : \A k \in p.middleware[m].provides :
        LET body == p.middleware[m].body IN
        \E i \in DOMAIN body :
            /\ body[i].op = "set" /\ body[i].key = k
            /\ \A j \in 1..(i - 1) : ~(body[j].op = "read" /\ body[j].key = k)

\* Where middleware keep their word, a handler, a middleware or an after block
\* of an accepted program reads no key of the context before it is set, but an
\* after block what its own middleware did not come to set (wiring.rs,
\* check_context: provided by what provably runs earlier).
ContextSet ==
    KeepsItsWord(prog) /\ Running("read") /\ Top.of[1] \in {"route", "middleware", "after"} =>
        \/ Stmt.optional \/ Stmt.key \in context
        \/ /\ Top.of[1] = "after" /\ Stmt.key \in prog.middleware[Top.of[2]].provides
           /\ \A i \in 1..passed : prog.chain[i] # Top.of[2]

\* An error that leaves a body is in its raise set, and so no after block
\* raises and none comes to an arm that is warned of as unreachable: only an
\* assignment and the block of a catch raise what the sets leave out
\* (wiring.rs, direct_raises; errors.md 3.1).
Declares == raising \notin {NoError, Fault} /\ ~hidden
RaisesCovered ==
    /\ stack # <<>> /\ Declares => raising \in Raises(prog, Body(Top.of))
    /\ (Between("chain") \/ Between("handler")) /\ flow = "raised" /\ Declares =>
          \A i \in DOMAIN prog.arms : W1001(prog, prog.arms[i]) => prog.arms[i].error # raising

\* The response goes out when the after block of every middleware that started
\* has begun, also of the one that cut the chain short, and of no other, each
\* in the reverse of the order of the chain (middleware.md 4.3).
Owed == {i \in 1..began : prog.middleware[prog.chain[i]].after # <<>>}
Unwinds ==
    stage = "sent" =>
        /\ {unwound[n] : n \in 1..Len(unwound)} = {prog.chain[i] : i \in Owed}
        /\ \A m, n \in 1..Len(unwound) :
              m < n => \E i, j \in Owed : j < i /\ unwound[m] = prog.chain[i] /\ unwound[n] = prog.chain[j]
=============================================================================
