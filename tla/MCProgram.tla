----------------------------- MODULE MCProgram -----------------------------
(***************************************************************************)
(* What `jwc build` accepts, running: a request through the middleware of a *)
(* route, a query and its pages, or a program through the checker and the   *)
(* two backends; and a file as `jwc fmt` rewrites it.  A behaviour is of    *)
(* one scene.                                                              *)
(***************************************************************************)
EXTENDS MCPipeline, MCQueries

CONSTANTS MaxInt, MaxTurns, Numbers, Locals, Strings, Durations, Spaced, Junk
VARIABLES source, verdict, crate, args, served, ran, file, wide, scene

SmallNumbers == ("1" :> 1) @@ ("2" :> 2) @@ ("404" :> 404)
SmallStrings == ("'s'" :> "s") @@ ("'30s'" :> "30s") @@ ("'a-b'" :> "a-b") @@ ("'a.b'" :> "a.b")
SmallLocals == ("@x" :> "x") @@ ("@a" :> "a")

Language == INSTANCE MCLanguage WITH
    Errors <- [Lost |-> <<<<"message", <<"text">>>>>>,
               Taken |-> <<<<"message", <<"text">>>>, <<"by", <<"int">>>>>>]
Syntax == INSTANCE MCSyntax

toolchain == <<source, verdict, crate, args, served, ran>>
all == <<server, pipe, walk, toolchain, file, wide, scene>>

Init ==
    /\ scene \in {"pipeline", "queries", "language", "syntax"}
    /\ life = "serving" /\ req = [r \in Requests |-> "running"]
    /\ PipelineInit(IF scene = "pipeline" THEN Deployed ELSE {Quiet})
    /\ PagingInit(IF scene = "queries" THEN Compiled ELSE {Plan(Plainest)})
    /\ scene = "queries" \/ db.orgs \cup db.members = {}
    /\ Language!ToolchainInit(IF scene = "language" THEN Language!SmallPrograms ELSE {Language!Helpers})
    /\ Syntax!ReformatInit(IF scene = "syntax" THEN Syntax!SmallFiles ELSE {<<>>})

Next ==
    /\ UNCHANGED scene
    /\ \/ scene = "pipeline" /\ PipelineNext /\ UNCHANGED <<walk, toolchain, file, wide>>
       \/ scene = "queries" /\ PagingNext /\ UNCHANGED <<server, pipe, toolchain, file, wide>>
       \/ scene = "language" /\ Language!LanguageNext /\ UNCHANGED <<server, pipe, walk, file, wide>>
       \/ scene = "syntax" /\ Syntax!JwcFmt /\ UNCHANGED <<server, pipe, walk, toolchain>>

Spec == Init /\ [][Next]_all

ProgramTypeOK == PipelineTypeOK /\ PagingTypeOK /\ Language!ToolchainTypeOK /\ Syntax!ReformatTypeOK

\* The properties of the language, of Toolchain: what the checker accepts does
\* not go wrong when the interpreter runs it;
AcceptedRuns == Language!AcceptedRuns
\* the built binary does what `jwc serve` does;
NativeAgrees == Language!NativeAgrees
\* and an accepted program is lowered to Rust of the right types.
WellTyped == Language!WellTyped
\* What `jwc fmt` writes says what it read (Reformat).
FormatKeepsProgram == Syntax!FormatKeepsProgram
=============================================================================
