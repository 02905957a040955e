-------------------------------- MODULE Interp --------------------------------
(***************************************************************************)
(* The interpreter: what `jwc serve` does with a function's body (exec.rs,  *)
(* exec_call.rs).                                                           *)
(*                                                                          *)
(* A machine is [scopes, tx, db]: the scopes of the call in progress, what  *)
(* each open transaction has inserted, and the rows committed.  Evaluating  *)
(* gives [how, val, err, m]: how is "value"; "normal", "return", "void",    *)
(* "break" or "continue" (Flow); "thrown", with the error's name and        *)
(* arguments, or "fault" (Abort).                                           *)
(***************************************************************************)
EXTENDS Code

LOCAL INSTANCE SequencesExt

Outcome(how, v, err, m) == [how |-> how, val |-> v, err |-> err, m |-> m]
Value(v, m) == Outcome("value", v, "", m)
Flow(how, v, m) == Outcome(how, v, "", m)
Thrown(error, vs, m) == Outcome("thrown", vs, error, m)
Fault(why, m) == Outcome("fault", why, "", m)

Aborts == {"thrown", "fault"}

\* `?` after an evaluation: go on with the value, or leave with the abort.
Then(r, K(_, _)) == IF r.how = "value" THEN K(r.val, r.m) ELSE r
\* A truth value, or the fault of a condition that is not a boolean.
Truthy(v, m) == IF v[1] = "boolean" THEN Value(v[2], m) ELSE Fault("type", m)

PushScope(m) == [m EXCEPT !.scopes = Pushed(@)]
PopScope(r) == [r EXCEPT !.m.scopes = Front(@)]
Declare(m, x, v) == [m EXCEPT !.scopes = Bound(@, x, v)]
AssignLocal(m, x, v) ==
    [m EXCEPT !.scopes = IF Known(@, x) THEN Rebound(@, x, v) ELSE Bound(@, x, v)]

Message(vs) == IF vs # <<>> /\ Head(vs)[1] = "text" THEN Head(vs) ELSE TextV("")
Payload(vs) == RowV("message" :> Message(vs))

\* Where the next row goes: the innermost open transaction, or the tables.
Written(m, v) ==
    IF m.tx = <<>> THEN [m EXCEPT !.db = Append(@, v)]
    ELSE [m EXCEPT !.tx[Len(m.tx)] = Append(@, v)]
Begun(m) == [m EXCEPT !.tx = Append(@, <<>>)]
Committed(m) == [m EXCEPT !.tx = Front(@), !.db = @ \o Last(m.tx)]
RolledBack(m) == [m EXCEPT !.tx = Front(@)]

\* The operators on values; Undefined is Rust's None.
BothInt(a, b) == a[1] = "int" /\ b[1] = "int"
Equal(a, b) == a = b
Compare(op, a, b) == IF BothInt(a, b) THEN BoolV(Ordered(op, a[2], b[2])) ELSE Undefined
NumericOp(op, a, b) == IF BothInt(a, b) THEN Checked(op, a[2], b[2]) ELSE Undefined
Answered(v, a, b, m) ==
    IF v # Undefined THEN Value(v, m)
    ELSE Fault(IF BothInt(a, b) THEN "arithmetic" ELSE "type", m)
------------------------------------------------------------------------------
RECURSIVE Eval(_, _, _), EvalAll(_, _, _), RunStmts(_, _, _), Stmt(_, _, _)

(* Expressions, p the program's functions.  Operators of evaluated operands. *)
FieldRead(b, f, m) == IF b = NullV THEN Fault("null", m) ELSE Value(FieldOf(b, f), m)

UnaryOp(op, v, m) ==
    CASE op = "not" -> Then(Truthy(v, m), LAMBDA b, n : Value(BoolV(~b), n))
      [] op = "neg" /\ v[1] = "int" -> Answered(Negated(v[2]), v, v, m)
      [] OTHER -> Fault("type", m)

Binary(op, a, b, m) ==
    CASE op = "==" -> Value(BoolV(Equal(a, b)), m)
      [] op = "!=" -> Value(BoolV(~Equal(a, b)), m)
      [] op \in OrderOps -> Answered(Compare(op, a, b), a, b, m)
      [] OTHER -> Answered(NumericOp(op, a, b), a, b, m)

\* Operators that may leave an operand unevaluated: `and` and `or` when the
\* left side decides, the branch of ? : not taken, the right side of ?? and
\* the arguments of an `or throw`.
ShortCircuit(p, e, v, m) ==
    Then(Truthy(v, m), LAMBDA a, n :
         IF a = (e.op = "or") THEN Value(BoolV(a), n)
         ELSE Then(Eval(p, e.args[2], n), LAMBDA w, o :
              Then(Truthy(w, o), LAMBDA b, q : Value(BoolV(b), q))))

Ternary(p, e, v, m) ==
    Then(Truthy(v, m), LAMBDA b, n : Eval(p, e.args[IF b THEN 2 ELSE 3], n))

Coalesce(p, e, v, m) == IF v = NullV THEN Eval(p, e.args[2], m) ELSE Value(v, m)

OrThrown(p, e, v, m) ==
    IF v # NullV THEN Value(v, m)
    ELSE Then(EvalAll(p, Tail(e.args), m), LAMBDA vs, n : Thrown(e.label, vs, n))

\* A postfix catch.  Its block leaves the enclosing function, by a throw that
\* RunBody takes for a return; a `break` or a `continue` leaves it too.
LeavesFunction(arm) ==
    CASE arm.how \in Aborts -> arm
      [] arm.how = "return" -> Thrown("__return", <<arm.val>>, arm.m)
      [] OTHER -> Thrown("__return_void", <<>>, arm.m)
Handled(p, e, r) ==
    IF ~(r.how = "thrown" /\ r.err = e.label) THEN r
    ELSE LeavesFunction(PopScope(
            RunStmts(p, e.blocks[1], Declare(PushScope(r.m), e.name, Payload(r.val)))))
CatchPostfix(p, e, m) == Handled(p, e, Eval(p, e.args[1], m))

\* run_body: a block of its own; what a catch's block left with is a return.
Returned(r) ==
    CASE r.how = "thrown" /\ r.err = "__return" -> Flow("return", Head(r.val), r.m)
      [] r.how = "thrown" /\ r.err = "__return_void" -> Flow("void", NullV, r.m)
      [] OTHER -> r
RunBody(p, b, m) == Returned(PopScope(RunStmts(p, b, PushScope(m))))

\* A fresh frame: the parameters are all that is visible.  A body that does
\* not end in a `return` with a value answers null.
Back(r, m) ==
    CASE r.how \in Aborts -> [r EXCEPT !.m.scopes = m.scopes]
      [] r.how = "return" -> Value(r.val, [r.m EXCEPT !.scopes = m.scopes])
      [] OTHER -> Value(NullV, [r.m EXCEPT !.scopes = m.scopes])
UserFunction(p, f, vs, m) ==
    Back(RunBody(p, p[f].body, [m EXCEPT !.scopes = <<Frame(p[f], vs)>>]), m)

EvalAll(p, es, m) ==
    IF es = <<>> THEN Value(<<>>, m)
    ELSE Then(Eval(p, Head(es), m), LAMBDA v, n :
         Then(EvalAll(p, Tail(es), n), LAMBDA vs, o : Value(<<v>> \o vs, o)))

Lazily(p, e, v, m) ==
    CASE e.op \in {"and", "or"} -> ShortCircuit(p, e, v, m)
      [] e.op = "? :" -> Ternary(p, e, v, m)
      [] e.op = "??" -> Coalesce(p, e, v, m)
      [] e.op = "or throw" -> OrThrown(p, e, v, m)

Eagerly(p, e, vs, m) ==
    CASE e.op = "field" -> FieldRead(vs[1], e.label, m)
      [] e.op = "index" -> Value(ItemOf(vs[1], vs[2]), m)
      [] e.op = "array" -> Value(ArrV(vs), m)
      [] e.op = "call" -> UserFunction(p, e.name, vs, m)
      [] e.op = "insert" -> Value(NullV, Written(m, vs[1]))
      [] e.op \in {"not", "neg"} -> UnaryOp(e.op, vs[1], m)
      [] OTHER -> Binary(e.op, vs[1], vs[2], m)

Eval(p, e, m) ==
    CASE e.op = "int" -> Value(IntV(e.at), m)
      [] e.op = "bool" -> Value(BoolV(e.at = 1), m)
      [] e.op = "text" -> Value(TextV(e.name), m)
      [] e.op = "null" -> Value(NullV, m)
      [] e.op = "local" -> IF Known(m.scopes, e.name) THEN Value(Read(m.scopes, e.name), m)
                           ELSE Fault("name", m)
      [] e.op = "catch" -> CatchPostfix(p, e, m)
      [] e.op \in {"and", "or", "? :", "??", "or throw"} ->
            Then(Eval(p, e.args[1], m), LAMBDA v, n : Lazily(p, e, v, n))
      [] OTHER -> Then(EvalAll(p, e.args, m), LAMBDA vs, n : Eagerly(p, e, vs, n))
------------------------------------------------------------------------------
(* Statements. *)
RunBlock(p, b, m) == PopScope(RunStmts(p, b, PushScope(m)))

Branch(p, s, v, m) ==
    Then(Truthy(v, m), LAMBDA c, n :
         CASE c -> RunBlock(p, s.blocks[1], n)
           [] ~c /\ Len(s.blocks) = 2 -> RunBlock(p, s.blocks[2], n)
           [] OTHER -> Flow("normal", NullV, n))

GoesOn(r) == r.how \in {"normal", "continue"}
LoopLeft(r) == IF r.how = "break" THEN Flow("normal", NullV, r.m) ELSE r

RECURSIVE Turns(_, _, _, _), WhileTurns(_, _, _, _)
\* One turn for each item left.
AfterItem(p, s, rest, r) == IF GoesOn(r) THEN Turns(p, s, rest, r.m) ELSE LoopLeft(r)
Turns(p, s, items, m) ==
    IF items = <<>> THEN Flow("normal", NullV, m)
    ELSE AfterItem(p, s, Tail(items),
            PopScope(RunStmts(p, s.blocks[1], Declare(PushScope(m), s.name, Head(items)))))

ForLoop(p, s, it, m) ==
    CASE it[1] = "array" -> Turns(p, s, it[2], m)
      [] it = NullV -> Flow("normal", NullV, m)
      [] OTHER -> Fault("type", m)

\* A condition that is not true ends the loop, whatever it is.
AfterTurn(p, s, turns, r) == IF GoesOn(r) THEN WhileTurns(p, s, turns + 1, r.m) ELSE LoopLeft(r)
WhileTurns(p, s, turns, m) ==
    Then(Eval(p, s.args[1], m), LAMBDA c, n :
         CASE c # TrueV -> Flow("normal", NullV, n)
           [] c = TrueV /\ turns = MaxTurns -> Fault("turns", n)
           [] OTHER -> AfterTurn(p, s, turns, RunBlock(p, s.blocks[1], n)))

\* COMMIT when the block is left in any way but an abort, else ROLLBACK.
Ended(r) == [r EXCEPT !.m = IF r.how \in Aborts THEN RolledBack(@) ELSE Committed(@)]
InTransaction(p, b, m) == Ended(RunBlock(p, b, Begun(m)))

WriteField(s, v, m) ==
    CASE ~Known(m.scopes, s.name) -> Fault("name", m)
      [] Known(m.scopes, s.name) /\ Read(m.scopes, s.name)[1] # "record" -> Fault("type", m)
      [] OTHER -> Flow("normal", NullV,
                       AssignLocal(m, s.name, WithField(Read(m.scopes, s.name), s.label, v)))

\* A statement, its operands evaluated.
Execute(p, s, vs, m) ==
    CASE s.op = "let" -> Flow("normal", NullV, Declare(m, s.name, vs[1]))
      [] s.op = "assign" -> Flow("normal", NullV, AssignLocal(m, s.name, vs[1]))
      [] s.op = "set field" -> WriteField(s, vs[1], m)
      [] s.op = "if" -> Branch(p, s, vs[1], m)
      [] s.op = "for" -> ForLoop(p, s, vs[1], m)
      [] s.op \in {"break", "continue"} -> Flow(s.op, NullV, m)
      [] s.op = "return" -> IF vs = <<>> THEN Flow("void", NullV, m) ELSE Flow("return", vs[1], m)
      [] s.op = "throw" -> Thrown(s.label, vs, m)
      [] s.op = "transaction" -> InTransaction(p, s.blocks[1], m)
      [] s.op = "do" -> Flow("normal", NullV, m)
Stmt(p, s, m) ==
    IF s.op = "while" THEN WhileTurns(p, s, 0, m)
    ELSE Then(EvalAll(p, s.args, m), LAMBDA vs, n : Execute(p, s, vs, n))

RunRest(p, rest, r) == IF r.how = "normal" THEN RunStmts(p, rest, r.m) ELSE r
RunStmts(p, b, m) ==
    IF b = <<>> THEN Flow("normal", NullV, m) ELSE RunRest(p, Tail(b), Stmt(p, Head(b), m))

\* A call of "main" on an empty database.
Idle == [scopes |-> <<>>, tx |-> <<>>, db |-> <<>>]
Run(p, vs) == UserFunction(p, "main", vs, Idle)
===============================================================================
