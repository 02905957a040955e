-------------------------------- MODULE Crate --------------------------------
(***************************************************************************)
(* What emitted Rust does: how rustc types it, and how it runs with the     *)
(* prelude it is linked to (native/prelude/base.rs.in, db.rs.in).           *)
(*                                                                          *)
(* rustc is modelled from how the generator uses it: the types of a V, an   *)
(* i64 and a bool, bindings and whether they are `mut`, the block a         *)
(* `return` or a `break` leaves, and the value a block must have.  A view   *)
(* is [scopes, loop, out]: what each name is bound to, whether a loop of    *)
(* the enclosing function or async block is around, and that block's Ok.    *)
(***************************************************************************)
EXTENDS Native, Interp

LOCAL INSTANCE SequencesExt

Binding(t, mut) == [ty |-> t, mut |-> mut]

TypeOf(e, g) ==
    CASE e.op = "variable" -> IF Known(g.scopes, e.name) THEN Read(g.scopes, e.name).ty ELSE "unbound"
      [] e.op \in {"i64", "jwc_i_op", "jwc_i_neg"} -> "i64"
      [] e.op \in {"bool", "!", "jwc_truthy", "compare", "compare i64"} -> "bool"
      [] e.op = "refused" -> "refused"
      [] OTHER -> "V"
Wanted(e, i) ==
    CASE e.op \in {"V::Int", "jwc_i_op", "jwc_i_neg", "compare i64"} -> "i64"
      [] (e.op \in {"V::Bool", "!"}) \/ (e.op = "if else" /\ i = 1) -> "bool"
      [] OTHER -> "V"

Misuse(is, what) == IF is THEN {what} ELSE {}

\* A block that no path goes through to its end has any type.
RECURSIVE Never(_)
Never(b) ==
    \E i \in DOMAIN b :
        \/ b[i].op \in {"return", "throw", "break", "continue"}
        \/ b[i].op = "if" /\ Len(b[i].blocks) = 2 /\ Never(b[i].blocks[1]) /\ Never(b[i].blocks[2])

RECURSIVE ExprErrors(_, _), StmtErrors(_, _), BlockErrors(_, _)
Inside(g, out) == [g EXCEPT !.loop = FALSE, !.out = out]
With(g, x, b) == [g EXCEPT !.scopes = Bound(Pushed(@), x, b)]

ExprErrors(e, g) ==
    LET h == IF e.op = "catch" THEN Inside(g, "Ok") ELSE g IN
    UNION {Misuse(TypeOf(e.args[i], h) # Wanted(e, i), "mismatched") \cup ExprErrors(e.args[i], h)
           : i \in DOMAIN e.args}
    \cup (IF e.op = "catch"
          THEN Misuse(~Never(e.blocks[1]), "no value")
               \cup BlockErrors(e.blocks[1], With(g, e.name, Binding("V", FALSE)))
          ELSE {})

StmtErrors(s, g) ==
    LET type == IF s.args = <<>> THEN "" ELSE TypeOf(s.args[1], g)
        own == CASE s.op = "let" -> Misuse(type # s.label, "mismatched")
                 [] s.op = "assign" /\ Known(g.scopes, s.name) ->
                      Misuse(type # Read(g.scopes, s.name).ty, "mismatched")
                      \cup Misuse(~Read(g.scopes, s.name).mut, "not mut")
                 [] s.op = "set field" /\ Known(g.scopes, s.name) ->
                      Misuse(Read(g.scopes, s.name).ty # "V", "mismatched")
                      \cup Misuse(~Read(g.scopes, s.name).mut, "not mut")
                 [] s.op \in {"if", "while"} -> Misuse(type # "bool", "mismatched")
                 [] s.op = "return" -> Misuse(type # "V" \/ s.label # g.out, "mismatched")
                 [] s.op \in {"break", "continue"} -> Misuse(~g.loop, "not in a loop")
                 [] s.op = "transaction" -> {}
                 [] OTHER -> Misuse(type \notin {"", "V"}, "mismatched")
    IN own \cup UNION {ExprErrors(s.args[i], g) : i \in DOMAIN s.args}
       \cup (CASE s.op = "transaction" ->
                    BlockErrors(s.blocks[1], Inside(g, "Ok(Some)"))
                    \cup BlockErrors(s.blocks[2], With(g, "__v", Binding("V", FALSE)))
               [] s.op = "for" ->
                    BlockErrors(s.blocks[1], [With(g, s.name, Binding("V", FALSE)) EXCEPT !.loop = TRUE])
               [] s.op = "while" -> BlockErrors(s.blocks[1], [g EXCEPT !.loop = TRUE])
               [] OTHER -> UNION {BlockErrors(s.blocks[i], g) : i \in DOMAIN s.blocks})

RECURSIVE StmtsErrors(_, _)
StmtsErrors(b, g) ==
    IF b = <<>> THEN {}
    ELSE LET s == Head(b)
             h == IF s.op = "let" THEN [g EXCEPT !.scopes = Bound(@, s.name, Binding(s.label, TRUE))] ELSE g
         IN StmtErrors(s, g) \cup StmtsErrors(Tail(b), h)
BlockErrors(b, g) == StmtsErrors(b, [g EXCEPT !.scopes = Pushed(@)])

\* Parameters are not `mut`.
Rustc(c) ==
    UNION {BlockErrors(c[f].body,
               [scopes |-> <<[x \in {c[f].params[i][1] : i \in DOMAIN c[f].params} |-> Binding("V", FALSE)]>>,
                loop |-> FALSE, out |-> "Ok"]) : f \in DOMAIN c}
------------------------------------------------------------------------------
(* The prelude.  A panic is an outcome, "panic". *)
Panic(m) == Outcome("panic", NullV, "", m)
OrPanic(v, m) == IF v = Undefined THEN Panic(m) ELSE Value(v, m)

JwcTruthy(v) ==
    CASE v = NullV -> FALSE
      [] v[1] = "boolean" -> v[2]
      [] v[1] = "int" -> v[2] # 0
      [] v[1] = "text" -> v[2] # ""
      [] OTHER -> DOMAIN v[2] # {}
JwcIOp(op, x, y) == Checked(op, x, y)
JwcINeg(x) == Negated(x)
JwcOp(op, a, b) == IF BothInt(a, b) THEN JwcIOp(op, a[2], b[2]) ELSE Undefined
JwcNeg(v) == IF v[1] = "int" THEN JwcINeg(v[2]) ELSE Undefined
JwcCompare(op, a, b) ==
    CASE op = "==" -> a = b
      [] op = "!=" -> a # b
      [] OTHER -> BothInt(a, b) /\ Ordered(op, a[2], b[2])
JwcGetField(v, f) == FieldOf(v, f)
JwcSetField(v, f, w) == WithField(IF v[1] = "record" THEN v ELSE RowV(EmptyScope), f, w)
JwcIndex(v, i) == ItemOf(v, i)
JwcToArray(v) == CASE v = NullV -> ArrV(<<>>)
                   [] v[1] = "array" -> v
                   [] OTHER -> Undefined
\* JwcThrown::new keeps the first argument's text; payload() gives it back.
JwcThrown(error, v, m) == Thrown(error, <<Message(<<v>>)>>, m)
------------------------------------------------------------------------------
(* Running.  "return" is an Ok on its way out of the nearest function or    *)
(* async block, "thrown" an Err.                                            *)
RECURSIVE Rust(_, _, _), RustAll(_, _, _), RustStmts(_, _, _), RustTurns(_, _, _, _)

\* Leaving a block, however: its bindings are gone.
Leave(r, m) == [r EXCEPT !.m.scopes = SubSeq(@, 1, Len(m.scopes))]
RustBlock(c, b, m) == Leave(RustStmts(c, b, PushScope(m)), m)
Ok(v, m) == Value(v, m)

\* A generated function: its body, then Ok(V::Null).
FnEnds(r, m) ==
    CASE r.how \in {"thrown", "panic"} -> [r EXCEPT !.m.scopes = m.scopes]
      [] r.how = "return" -> Ok(r.val, [r.m EXCEPT !.scopes = m.scopes])
      [] OTHER -> Ok(NullV, [r.m EXCEPT !.scopes = m.scopes])
RustFn(c, f, vs, m) ==
    FnEnds(RustBlock(c, c[f].body, [m EXCEPT !.scopes = <<Frame(c[f], vs)>>]), m)

\* The guarded value is an async block: a `return` in it is its value.
RustMatch(c, e, r, m) ==
    CASE r.how = "return" -> Ok(r.val, r.m)
      [] r.how = "thrown" /\ r.err = e.label ->
            Leave(RustStmts(c, e.blocks[1], Declare(PushScope(r.m), e.name, Payload(r.val))), m)
      [] OTHER -> r
RustCatch(c, e, m) == RustMatch(c, e, Leave(Rust(c, e.args[1], m), m), m)

RustAll(c, es, m) ==
    IF es = <<>> THEN Ok(<<>>, m)
    ELSE Then(Rust(c, Head(es), m), LAMBDA v, n :
         Then(RustAll(c, Tail(es), n), LAMBDA vs, o : Ok(<<v>> \o vs, o)))

\* `and` and `or` are emitted inline: two truth tests, the second when needed.
RustLogic(c, e, m) ==
    Then(Rust(c, e.args[1], m), LAMBDA v, n :
         IF JwcTruthy(v) = (e.op = "or") THEN Ok(BoolV(JwcTruthy(v)), n)
         ELSE Then(Rust(c, e.args[2], n), LAMBDA w, o : Ok(BoolV(JwcTruthy(w)), o)))

RustOrThrow(c, e, m) ==
    Then(Rust(c, e.args[1], m), LAMBDA v, n :
         IF v # NullV THEN Ok(v, n)
         ELSE Then(Rust(c, e.args[2], n), LAMBDA w, o : JwcThrown(e.label, w, o)))

\* The value of an operator whose operands all come first.
Applied(e, vs) ==
    CASE e.op \in {"V::Int", "V::Bool"} -> vs[1]
      [] e.op = "jwc_truthy" -> BoolV(JwcTruthy(vs[1]))
      [] e.op = "!" -> BoolV(~vs[1][2])
      [] e.op = "jwc_i_op" -> JwcIOp(e.name, vs[1][2], vs[2][2])
      [] e.op = "jwc_i_neg" -> JwcINeg(vs[1][2])
      [] e.op = "compare i64" -> BoolV(JwcCompare(e.name, vs[1], vs[2]))
      [] e.op = "jwc_op" -> JwcOp(e.name, vs[1], vs[2])
      [] e.op = "jwc_neg" -> JwcNeg(vs[1])
      [] e.op = "compare" -> BoolV(JwcCompare(e.name, vs[1], vs[2]))
      [] e.op = "field" -> JwcGetField(vs[1], e.label)
      [] e.op = "index" -> JwcIndex(vs[1], vs[2])
      [] e.op = "array" -> ArrV(vs)

Rust(c, e, m) ==
    CASE e.op = "i64" -> Ok(IntV(e.at), m)
      [] e.op = "bool" -> Ok(BoolV(e.at = 1), m)
      [] e.op = "text" -> Ok(TextV(e.name), m)
      [] e.op = "null" -> Ok(NullV, m)
      [] e.op = "variable" -> Ok(Read(m.scopes, e.name), m)
      [] e.op = "if else" ->
            Then(Rust(c, e.args[1], m), LAMBDA v, n : Rust(c, e.args[IF v = TrueV THEN 2 ELSE 3], n))
      [] e.op = "??" ->
            Then(Rust(c, e.args[1], m), LAMBDA v, n : IF v = NullV THEN Rust(c, e.args[2], n) ELSE Ok(v, n))
      [] e.op \in {"and", "or"} -> RustLogic(c, e, m)
      [] e.op = "or throw" -> RustOrThrow(c, e, m)
      [] e.op = "catch" -> RustCatch(c, e, m)
      [] e.op = "call" -> Then(RustAll(c, e.args, m), LAMBDA vs, n : RustFn(c, e.name, vs, n))
      [] e.op = "insert" -> Then(Rust(c, e.args[1], m), LAMBDA v, n : Ok(NullV, Written(n, v)))
      [] OTHER -> Then(RustAll(c, e.args, m), LAMBDA vs, n : OrPanic(Applied(e, vs), n))

RustNext(c, s, rest, r) == IF GoesOn(r) THEN RustTurns(c, s, rest, r.m) ELSE LoopLeft(r)
RustTurns(c, s, items, m) ==
    IF items = <<>> THEN Flow("normal", NullV, m)
    ELSE RustNext(c, s, Tail(items),
            Leave(RustStmts(c, s.blocks[1], Declare(PushScope(m), s.name, Head(items))), m))

\* The turn ceiling is an Err.
RECURSIVE RustWhile(_, _, _, _)
RustAgain(c, s, turns, r) == IF GoesOn(r) THEN RustWhile(c, s, turns + 1, r.m) ELSE LoopLeft(r)
RustWhile(c, s, turns, m) ==
    Then(Rust(c, s.args[1], m), LAMBDA v, n :
         CASE v # TrueV -> Flow("normal", NullV, n)
           [] v = TrueV /\ turns = MaxTurns -> Thrown("internal_error", <<>>, n)
           [] OTHER -> RustAgain(c, s, turns, RustBlock(c, s.blocks[1], n)))

\* Mutant: the block's value is tested, not whether it failed.
JwcTxEndOnNone(c, s, r, m) ==
    CASE r.how = "normal" -> [r EXCEPT !.m = Committed(@)]
      [] r.how = "return" ->
            Leave(RustStmts(c, s.blocks[2], Declare(PushScope(RolledBack(r.m)), "__v", r.val)), m)
      [] r.how = "thrown" -> [r EXCEPT !.m = RolledBack(@)]
      [] OTHER -> r
\* jwc_tx_begin, the block, jwc_tx_end: an Ok commits, a panic skips the end.
JwcTxEnd(c, s, r, m) ==
    CASE r.how = "normal" -> [r EXCEPT !.m = Committed(@)]
      [] r.how = "return" ->
            Leave(RustStmts(c, s.blocks[2], Declare(PushScope(Committed(r.m)), "__v", r.val)), m)
      [] r.how = "thrown" -> [r EXCEPT !.m = RolledBack(@)]
      [] OTHER -> r
RustTransaction(c, s, m) == JwcTxEnd(c, s, RustBlock(c, s.blocks[1], Begun(m)), m)

RustSetField(s, v, m) ==
    Flow("normal", NullV, AssignLocal(m, s.name, JwcSetField(Read(m.scopes, s.name), s.label, v)))

RustIf(c, s, v, m) ==
    CASE v = TrueV -> RustBlock(c, s.blocks[1], m)
      [] v # TrueV /\ Len(s.blocks) = 2 -> RustBlock(c, s.blocks[2], m)
      [] OTHER -> Flow("normal", NullV, m)

RustFor(c, s, v, m) == Then(OrPanic(JwcToArray(v), m), LAMBDA xs, n : RustTurns(c, s, xs[2], n))

RustExecute(c, s, vs, m) ==
    CASE s.op = "let" -> Flow("normal", NullV, Declare(m, s.name, vs[1]))
      [] s.op = "assign" -> Flow("normal", NullV, AssignLocal(m, s.name, vs[1]))
      [] s.op = "set field" -> RustSetField(s, vs[1], m)
      [] s.op = "if" -> RustIf(c, s, vs[1], m)
      [] s.op = "for" -> RustFor(c, s, vs[1], m)
      [] s.op \in {"break", "continue"} -> Flow(s.op, NullV, m)
      [] s.op = "return" -> Flow("return", vs[1], m)
      [] s.op = "throw" -> JwcThrown(s.label, vs[1], m)
      [] s.op = "transaction" -> RustTransaction(c, s, m)
      [] s.op = "do" -> Flow("normal", NullV, m)
RustStmt(c, s, m) ==
    IF s.op = "while" THEN RustWhile(c, s, 0, m)
    ELSE Then(RustAll(c, s.args, m), LAMBDA vs, n : RustExecute(c, s, vs, n))

RustRest(c, rest, r) == IF r.how = "normal" THEN RustStmts(c, rest, r.m) ELSE r
RustStmts(c, b, m) ==
    IF b = <<>> THEN Flow("normal", NullV, m) ELSE RustRest(c, Tail(b), RustStmt(c, Head(b), m))

\* A call of "main" in the built binary.
RunBinary(c, vs) == RustFn(c, "main", vs, Idle)
===============================================================================
