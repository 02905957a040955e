------------------------------- MODULE Toolchain -------------------------------
(***************************************************************************)
(* One program through `jwc check`, `jwc serve` and `jwc build`: what is    *)
(* reported of it, what the interpreter answers a call, and what the built  *)
(* binary answers the same call (cmd/mod.rs, serve.rs, native/codegen.rs).  *)
(***************************************************************************)
EXTENDS Checker, Crate

VARIABLES
    source,     \* the program
    verdict,    \* what the checker says of it
    crate,      \* the Rust generated from it, and what rustc says of that
    args,       \* the call made
    served,     \* the interpreter's outcome
    ran         \* the binary's

toolchain == <<source, verdict, crate, args, served, ran>>

Unread == [codes |-> {}, lapses |-> {}, done |-> FALSE]
Unbuilt == [code |-> <<>>, errors |-> {}, done |-> FALSE]
Uncalled == Outcome("", NullV, "", Idle)

ToolchainInit(programs) ==
    /\ source \in programs
    /\ verdict = Unread /\ crate = Unbuilt
    /\ args = <<>> /\ served = Uncalled /\ ran = Uncalled

\* Type invariant: what is built was accepted and what runs was built; no call
\* leaves a transaction or a scope of its own behind, but one that panicked.
ToolchainTypeOK ==
    /\ crate.done => verdict.done /\ verdict.codes = {}
    /\ \A o \in {served, ran} :
          /\ o.how \in {"", "value", "thrown", "fault", "panic"}
          /\ o.how = "thrown" => o.err \in DOMAIN Errors \cup {"internal_error"}
          /\ o.m.scopes = <<>>
          /\ o.m.tx = <<>> \/ o.how = "panic"

JwcCheck ==
    /\ ~verdict.done
    /\ verdict' = Check(source) @@ [done |-> TRUE]
    /\ UNCHANGED <<source, crate, args, served, ran>>

\* `jwc serve` loads, and `jwc build` compiles, what has no error.
Accepted == verdict.done /\ verdict.codes = {}

Built(code) == [code |-> code, errors |-> Rustc(code), done |-> TRUE]
JwcBuild ==
    /\ Accepted /\ ~crate.done /\ served = Uncalled
    /\ crate' = Built(Emit(source))
    /\ UNCHANGED <<source, verdict, args, served, ran>>

JwcServe(vs) ==
    /\ Accepted /\ crate.done /\ served = Uncalled
    /\ args' = vs
    /\ served' = Run(source, vs)
    /\ UNCHANGED <<source, verdict, crate, ran>>

BinaryAnswers ==
    /\ served # Uncalled /\ ran = Uncalled /\ crate.errors = {}
    /\ ran' = RunBinary(crate.code, args)
    /\ UNCHANGED <<source, verdict, crate, args, served>>
------------------------------------------------------------------------------
(* What the checker promises, and the two backends share.                   *)
\* A `return` in a catch block that is inside a transaction, or inside the
\* value another catch guards: the block around it is an async block, and the
\* `return` leaves that one only.
RECURSIVE Crosses(_, _, _)
Crosses(n, async, arm) ==
    \/ n.op = "return" /\ arm
    \/ \E i \in DOMAIN n.args : Crosses(n.args[i], async \/ n.op = "catch", arm)
    \/ \E i \in DOMAIN n.blocks : \E j \in DOMAIN n.blocks[i] :
          Crosses(n.blocks[i][j], async \/ n.op = "transaction", arm \/ (n.op = "catch" /\ async))
ReturnsAcross(p) ==
    \E f \in DOMAIN p : \E i \in DOMAIN p[f].body : Crosses(p[f].body[i], FALSE, FALSE)

\* What a value was not, found while running.
Mistyped(o) == o.how = "fault" /\ o.val \in {"null", "type", "name"}

\* What the caller gets: every failure but a declared error is a 500.
Answer(o) ==
    CASE o.how = "value" -> <<"value", o.val>>
      [] o.how = "thrown" /\ o.err \in DOMAIN Errors -> <<"thrown", o.err, Message(o.val)>>
      [] OTHER -> <<"internal error">>

\* AcceptedRuns.  In a program without a lapse, what the checker accepts never reads a field
\* of null, tests or computes with a value of another type, or reads a name it
\* does not have, and answers a value of the type it declares (types.md 8).
AcceptedRuns ==
    Accepted /\ verdict.lapses = {} /\ served # Uncalled =>
        /\ ~Mistyped(served)
        /\ source["main"].returns # <<>> /\ served.how = "value" =>
              OfType(served.val, source["main"].returns)

\* The built binary answers what `jwc serve` answers, and leaves the same rows
\* committed, unless a catch block leaves more than the block around it.
NativeAgrees ==
    /\ ran # Uncalled /\ ~Mistyped(served)
    /\ ~ReturnsAcross(source) /\ "loop left from a catch" \notin verdict.lapses
    => Answer(ran) = Answer(served) /\ ran.m.db = served.m.db

\* Code generated for an accepted program is of the types rustc asks for: an
\* i64 is only ever read, written and compared as one.
WellTyped == crate.done /\ ~ReturnsAcross(source) => "mismatched" \notin crate.errors
=============================================================================
