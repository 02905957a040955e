--------------------------------- MODULE Code ---------------------------------
(***************************************************************************)
(* Programs, types and values of the language of src/src/ast.rs, types.rs   *)
(* and value.rs: the statements and expressions below, over int, boolean,   *)
(* text, null, arrays and records of a class.                               *)
(*                                                                          *)
(* A node is a record: the constructor (op), the name it binds, reads or    *)
(* calls, a label (an error's name, a field's name), a declared type, a     *)
(* number (a literal, or the address of a let), operands and blocks.        *)
(***************************************************************************)
EXTENDS Integers, Sequences, FiniteSets, TLC

CONSTANTS
    MaxInt,         \* i64::MAX; the least integer is -MaxInt - 1
    MaxTurns,       \* exec::MAX_WHILE_TURNS
    Errors          \* the parameters of each declared error, <<name, type>> in order
------------------------------------------------------------------------------
(* Types. *)
TInt == <<"int">>
TBool == <<"boolean">>
TText == <<"text">>
TNull == <<"null">>
TVoid == <<"void">>
Unknown == <<"unknown">>
TClass(f) == <<"class", f>>           \* the fields of a declared class
TArr(t) == <<"array", t>>
TOpt(t) == <<"optional", t>>

ErrorFields(e) ==
    [f \in {Errors[e][i][1] : i \in DOMAIN Errors[e]} |->
        Errors[e][CHOOSE i \in DOMAIN Errors[e] : Errors[e][i][1] = f][2]]

IsOptional(t) == t[1] \in {"optional", "null"}
Opt(t) == IF t[1] \in {"optional", "unknown", "null"} THEN t ELSE TOpt(t)
StripOpt(t) == CASE t[1] = "optional" -> t[2]
                 [] t[1] = "null" -> Unknown
                 [] OTHER -> t
Scalars == {TInt, TBool, TText}
Element(t) == LET u == StripOpt(t) IN IF u[1] = "array" THEN u[2] ELSE Unknown

RECURSIVE AssignableTo(_, _)
AssignableTo(a, b) ==
    \/ Unknown \in {a, b} \/ a = b
    \/ b[1] = "optional" /\ (a = TNull \/ AssignableTo(a, b[2]))
    \/ a[1] = "array" /\ b[1] = "array" /\ AssignableTo(a[2], b[2])

Comparable(a, b) ==
    \/ {Unknown, TNull} \cap {a, b} # {}
    \/ StripOpt(a) = StripOpt(b)
------------------------------------------------------------------------------
(* Values. *)
NullV == <<"null">>
IntV(n) == <<"int", n>>
BoolV(b) == <<"boolean", b>>
TextV(s) == <<"text", s>>
ArrV(s) == <<"array", s>>
RowV(f) == <<"record", f>>

TrueV == BoolV(TRUE)
FieldOf(v, f) == IF v[1] = "record" /\ f \in DOMAIN v[2] THEN v[2][f] ELSE NullV
ItemOf(v, i) ==
    IF v[1] = "array" /\ i[1] = "int" /\ i[2] + 1 \in DOMAIN v[2] THEN v[2][i[2] + 1] ELSE NullV
WithField(v, f, w) == RowV((f :> w) @@ v[2])

RECURSIVE OfType(_, _)
OfType(v, t) ==
    \/ t[1] \in {"unknown", "void"}
    \/ IsOptional(t) /\ v = NullV
    \/ t[1] = "optional" /\ OfType(v, t[2])
    \/ t \in Scalars /\ v[1] = t[1]
    \/ t[1] = "array" /\ v[1] = "array" /\ \A i \in DOMAIN v[2] : OfType(v[2][i], t[2])
    \/ t[1] = "class" /\ v[1] = "record" /\ \A f \in DOMAIN t[2] : OfType(FieldOf(v, f), t[2][f])

Undefined == <<"undefined">>         \* an operator's answer where Rust says None
Fits(n) == n \in (-MaxInt - 1)..MaxInt
Mag(n) == IF n < 0 THEN -n ELSE n
Quotient(x, y) == LET q == Mag(x) \div Mag(y) IN IF (x < 0) = (y < 0) THEN q ELSE -q

\* Checked i64 arithmetic: division truncates, and i64::MIN / -1, the
\* remainder's too, has no answer.
Checked(op, x, y) ==
    LET r == CASE op = "+" -> x + y
               [] op = "-" -> x - y
               [] op = "*" -> x * y
               [] op = "/" -> Quotient(x, y)
               [] op = "%" -> x - y * Quotient(x, y)
    IN IF \/ op \in {"/", "%"} /\ (y = 0 \/ ~Fits(Quotient(x, y)))
          \/ ~Fits(r)
       THEN Undefined ELSE IntV(r)
Negated(x) == IF Fits(-x) THEN IntV(-x) ELSE Undefined
Ordered(op, x, y) == CASE op = "<" -> x < y
                       [] op = "<=" -> x <= y
                       [] op = ">" -> x > y
                       [] op = ">=" -> x >= y
------------------------------------------------------------------------------
(* Nodes. *)
Node(op) == [op |-> op, name |-> "", label |-> "", type |-> <<>>, at |-> 0,
             args |-> <<>>, blocks |-> <<>>]

ArithOps == {"+", "-", "*", "/", "%"}
OrderOps == {"<", "<=", ">", ">="}

Num(n) == [Node("int") EXCEPT !.at = n]
Bool(b) == [Node("bool") EXCEPT !.at = IF b THEN 1 ELSE 0]
Text(s) == [Node("text") EXCEPT !.name = s]
NullLit == Node("null")
Local(x) == [Node("local") EXCEPT !.name = x]
Field(e, f) == [Node("field") EXCEPT !.label = f, !.args = <<e>>]
Op(op, es) == [Node(op) EXCEPT !.args = es]      \* unary, binary, ? :, ??, index, array, insert
Call(f, es) == [Node("call") EXCEPT !.name = f, !.args = es]
OrThrow(e, error, es) == [Node("or throw") EXCEPT !.label = error, !.args = <<e>> \o es]
Catch(e, error, binder, arm) ==
    [Node("catch") EXCEPT !.name = binder, !.label = error, !.args = <<e>>, !.blocks = <<arm>>]

Let(at, x, t, e) == [Node("let") EXCEPT !.name = x, !.type = t, !.at = at, !.args = <<e>>]
Assign(x, e) == [Node("assign") EXCEPT !.name = x, !.args = <<e>>]
SetField(x, f, e) == [Node("set field") EXCEPT !.name = x, !.label = f, !.args = <<e>>]
If(c, then) == [Node("if") EXCEPT !.args = <<c>>, !.blocks = <<then>>]
IfElse(c, then, else) == [Node("if") EXCEPT !.args = <<c>>, !.blocks = <<then, else>>]
For(x, e, body) == [Node("for") EXCEPT !.name = x, !.args = <<e>>, !.blocks = <<body>>]
While(c, body) == [Node("while") EXCEPT !.args = <<c>>, !.blocks = <<body>>]
Return(e) == [Node("return") EXCEPT !.args = <<e>>]
ReturnVoid == Node("return")
Throw(error, es) == [Node("throw") EXCEPT !.label = error, !.args = es]
Transaction(body) == [Node("transaction") EXCEPT !.blocks = <<body>>]
Do(e) == [Node("do") EXCEPT !.args = <<e>>]
Break == Node("break")
Continue == Node("continue")

\* A function: parameters <<name, type>>, the declared return type (<<>> for
\* none) and the body.
Fn(params, returns, body) == [params |-> params, returns |-> returns, body |-> body]

\* What a call of f binds: its parameters, to the arguments by position.
Frame(f, vs) ==
    [x \in {f.params[i][1] : i \in DOMAIN f.params} |-> vs[CHOOSE i \in DOMAIN f.params : f.params[i][1] = x]]
------------------------------------------------------------------------------
(* Scopes, innermost last: what the interpreter, the checker and the code   *)
(* generator each keep of the names in view.                                *)
Nowhere == 0
EmptyScope == [x \in {} |-> 0]
DeclaredAt(scopes, x) ==
    LET here == {i \in DOMAIN scopes : x \in DOMAIN scopes[i]}
    IN IF here = {} THEN Nowhere ELSE CHOOSE i \in here : \A j \in here : j <= i
Pushed(scopes) == Append(scopes, EmptyScope)
Bound(scopes, x, v) == [scopes EXCEPT ![Len(scopes)] = (x :> v) @@ @]
Rebound(scopes, x, v) ==
    LET i == DeclaredAt(scopes, x) IN
    IF i = Nowhere THEN scopes ELSE [scopes EXCEPT ![i][x] = v]
Known(scopes, x) == DeclaredAt(scopes, x) # Nowhere
Read(scopes, x) == scopes[DeclaredAt(scopes, x)][x]
===============================================================================
