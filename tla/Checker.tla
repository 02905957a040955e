------------------------------- MODULE Checker -------------------------------
(***************************************************************************)
(* The type checker: what `jwc check` says of a function (check.rs).        *)
(*                                                                          *)
(* A state is [scopes, loops, codes, returns]: the types of the names in    *)
(* view, the loops around, the error codes reported and the types returned. *)
(* Checking an expression gives [ty, c], a statement c.  `lapses` records   *)
(* the places where a value of another type gets past the rules; nothing is *)
(* decided by it, nor by what is kept to find them: `arms`, the loops around *)
(* each catch block, and `narrowed`, each narrowed name with the depth of    *)
(* its guard, or Nowhere once the guard's block is left.                    *)
(***************************************************************************)
EXTENDS Code

LOCAL INSTANCE SequencesExt

Typed(t, c) == [ty |-> t, c |-> c]
Err(c, code) == [c EXCEPT !.codes = @ \cup {code}]
ErrIf(wrong, c, code) == IF wrong THEN Err(c, code) ELSE c
Lapse(found, c, what) == IF found THEN [c EXCEPT !.lapses = @ \cup {what}] ELSE c

Push(c) == [c EXCEPT !.scopes = Pushed(@)]
Pop(c) ==
    [c EXCEPT !.scopes = Front(@),
              !.narrowed = {<<n[1], IF n[2] < Len(c.scopes) THEN n[2] ELSE Nowhere>> : n \in @}]
DeclareTy(c, x, t) ==
    LET d == ErrIf(Known(c.scopes, x), c, "E0214") IN [d EXCEPT !.scopes = Bound(@, x, t)]
\* A rebind writes the scope that declares the name, not the one in hand.
Rebind(c, x, t) ==
    [c EXCEPT !.scopes = Rebound(@, x, t), !.narrowed = @ \cup {<<x, Len(c.scopes)>>}]
\* Reading a name whose guard was in a block that has been left.
Lookup(c, x) ==
    Typed(Read(c.scopes, x), Lapse(<<x, Nowhere>> \in c.narrowed, c, "narrowed in a block left"))

RequireBoolean(t, c) ==
    CASE t = Unknown -> c
      [] IsOptional(t) -> Err(c, "E0320")
      [] OTHER -> ErrIf(t # TBool, c, "E0371")
------------------------------------------------------------------------------
(* Narrowing. *)
\* x == null (want), x != null (not want), either way round; the name, or "".
NarrowingTarget(cond, want) ==
    IF cond.op # (IF want THEN "==" ELSE "!=") THEN ""
    ELSE LET l == cond.args[1] r == cond.args[2] IN
         CASE l.op = "local" /\ r.op = "null" -> l.name
           [] l.op = "null" /\ r.op = "local" -> r.name
           [] OTHER -> ""

\* Mutant: an `if` diverges when its branch does, with no `else`.
RECURSIVE Diverges(_)
DivergesLoosely(b) ==
    \E i \in DOMAIN b :
        \/ b[i].op \in {"return", "throw", "break", "continue"}
        \/ b[i].op = "if" /\ \A j \in DOMAIN b[i].blocks : Diverges(b[i].blocks[j])
        \/ b[i].op = "transaction" /\ Diverges(b[i].blocks[1])
Diverges(b) ==
    \E i \in DOMAIN b :
        \/ b[i].op \in {"return", "throw", "break", "continue"}
        \/ /\ b[i].op = "if" /\ Len(b[i].blocks) = 2
           /\ Diverges(b[i].blocks[1]) /\ Diverges(b[i].blocks[2])
        \/ b[i].op = "transaction" /\ Diverges(b[i].blocks[1])

\* The name narrowed inside a new block.
NarrowedIn(c, x) ==
    IF x # "" /\ Known(c.scopes, x)
    THEN [c EXCEPT !.scopes = Bound(@, x, StripOpt(Read(@, x)))] ELSE c
------------------------------------------------------------------------------
(* Expressions: of what type, its operands checked (r, their types and the   *)
(* state after them).                                                       *)
RECURSIVE Expr(_, _, _), ExprAll(_, _, _), CheckStmt(_, _, _), CheckStmts(_, _, _)

FieldTy(b, f, c) ==
    CASE IsOptional(b) -> Typed(Unknown, Err(c, "E0320"))
      [] b = Unknown -> Typed(Unknown, c)
      [] b[1] = "class" /\ f \in DOMAIN b[2] -> Typed(b[2][f], c)
      [] OTHER -> Typed(Unknown, Err(c, "E0312"))

\* Past the end an index answers null, and its type does not say so.
IndexTy(a, i, c) ==
    Typed(Element(a), Lapse(~IsOptional(Element(a)), ErrIf(i \notin {TInt, Unknown}, c, "E0373"),
                            "index past the end"))

\* The first element's type is the array's.
ArrayOf(elem, types, c) ==
    Typed(TArr(elem), Lapse(\E i \in DOMAIN types : ~AssignableTo(types[i], elem), c, "mixed array"))
ArrayTy(types, c) ==
    LET known == SelectSeq(types, LAMBDA t : t # Unknown) IN
    ArrayOf(IF known = <<>> THEN Unknown ELSE Head(known), types, c)

UnaryTy(op, t, c) ==
    IF op = "not" THEN Typed(TBool, RequireBoolean(t, c))
    ELSE Typed(t, ErrIf(t \notin {TInt, Unknown}, c, "E0370"))

BinaryTy(op, a, b, c) ==
    CASE op \in {"and", "or"} -> Typed(TBool, RequireBoolean(b, RequireBoolean(a, c)))
      [] op \in {"==", "!="} -> Typed(TBool, ErrIf(~Comparable(a, b), c, "E0376"))
      [] IsOptional(a) \/ IsOptional(b) ->
            Typed(IF op \in OrderOps THEN TBool ELSE Unknown, Err(c, "E0320"))
      [] op \in OrderOps -> Typed(TBool, ErrIf(Unknown \notin {a, b} /\ {a, b} # {TInt}, c, "E0376"))
      [] op \in ArithOps /\ {a, b} = {TInt} -> Typed(TInt, c)
      [] OTHER -> Typed(Unknown, ErrIf(Unknown \notin {a, b}, c, "E0370"))

TernaryTy(t, a, b, c) ==
    CASE AssignableTo(a, b) -> Typed(b, RequireBoolean(t, c))
      [] AssignableTo(b, a) -> Typed(a, RequireBoolean(t, c))
      [] OTHER -> Typed(Unknown, Err(RequireBoolean(t, c), "E0374"))

\* The right side is not asked to be of the left side's type.
CoalesceTy(a, b, c) ==
    Typed(IF IsOptional(b) THEN Opt(StripOpt(a)) ELSE StripOpt(a),
          Lapse(StripOpt(a) = Unknown \/ ~AssignableTo(b, Opt(StripOpt(a))), c, "another default"))

\* Arguments past the parameters are counted, not compared.  Without a declared
\* return type the call is of unknown type: the passes that infer it from the
\* returns are left out.
UserCallTy(f, types, c) ==
    Typed(IF f.returns = <<>> THEN Unknown ELSE f.returns,
          ErrIf(\E i \in DOMAIN types \cap DOMAIN f.params : ~AssignableTo(types[i], f.params[i][2]),
                ErrIf(Len(types) # Len(f.params), c, "E0353"), "E0354"))

OperatorTy(p, e, r) ==
    CASE e.op = "field" -> FieldTy(r.ty[1], e.label, r.c)
      [] e.op = "index" -> IndexTy(r.ty[1], r.ty[2], r.c)
      [] e.op = "array" -> ArrayTy(r.ty, r.c)
      [] e.op = "call" -> UserCallTy(p[e.name], r.ty, r.c)
      [] e.op = "insert" -> Typed(TVoid, r.c)
      [] e.op \in {"not", "neg"} -> UnaryTy(e.op, r.ty[1], r.c)
      [] e.op = "? :" -> TernaryTy(r.ty[1], r.ty[2], r.ty[3], r.c)
      [] e.op = "??" -> CoalesceTy(r.ty[1], r.ty[2], r.c)
      [] e.op = "or throw" -> Typed(StripOpt(r.ty[1]), r.c)
      [] OTHER -> BinaryTy(e.op, r.ty[1], r.ty[2], r.c)

\* The block must diverge; its binder has the error's parameters.
ArmTy(p, e, r) ==
    Typed(r.ty,
      ErrIf(~Diverges(e.blocks[1]),
        Lapse(DOMAIN ErrorFields(e.label) # {"message"},
          [Pop(CheckStmts(p, e.blocks[1],
                 DeclareTy(Push([r.c EXCEPT !.arms = Append(@, r.c.loops)]),
                           e.name, TClass(ErrorFields(e.label))))) EXCEPT !.arms = r.c.arms],
          "error fields"),
        "E1020"))

Expr(p, e, c) ==
    CASE e.op = "int" -> Typed(TInt, c)
      [] e.op = "bool" -> Typed(TBool, c)
      [] e.op = "text" -> Typed(TText, c)
      [] e.op = "null" -> Typed(TNull, c)
      [] e.op = "local" -> IF Known(c.scopes, e.name) THEN Lookup(c, e.name)
                           ELSE Typed(Unknown, Err(c, "E0211"))
      [] e.op = "catch" -> ArmTy(p, e, Expr(p, e.args[1], c))
      [] OTHER -> OperatorTy(p, e, ExprAll(p, e.args, c))

Prefixed(t, rest) == Typed(<<t>> \o rest.ty, rest.c)
AfterFirst(p, es, r) == Prefixed(r.ty, ExprAll(p, es, r.c))
ExprAll(p, es, c) == IF es = <<>> THEN Typed(<<>>, c) ELSE AfterFirst(p, Tail(es), Expr(p, Head(es), c))
------------------------------------------------------------------------------
(* Statements, their operands checked (types, and the state after them).    *)
LetStmt(s, t, c) ==
    IF s.type # <<>>
    THEN DeclareTy(ErrIf(~AssignableTo(t, s.type), c, "E0352"), s.name, s.type)
    ELSE DeclareTy(ErrIf(t = TVoid, c, "E0602"), s.name, t)

\* The type wanted is the one in view, narrowed or not.
AssignStmt(s, t, c) ==
    IF Known(c.scopes, s.name) THEN ErrIf(~AssignableTo(t, Read(c.scopes, s.name)), c, "E0352")
    ELSE Err(c, "E0211")

\* The value written is not compared with the field's type.
FieldStmt(s, t, c) ==
    IF ~Known(c.scopes, s.name) THEN Err(c, "E0211")
    ELSE LET of == Read(c.scopes, s.name) IN
         Lapse(~(of[1] = "class" /\ s.label \in DOMAIN of[2] /\ AssignableTo(t, of[2][s.label])),
               c, "another field type")

\* Rules 2 and 3 narrow inside a branch; rule 1, after a test whose branch
\* diverges.
BranchStmt(p, b, x, c) == Pop(CheckStmts(p, b, NarrowedIn(Push(c), x)))
ElseStmt(p, s, c) ==
    IF Len(s.blocks) = 1 THEN c ELSE BranchStmt(p, s.blocks[2], NarrowingTarget(s.args[1], TRUE), c)
NarrowedAfter(s, x, c) ==
    IF x # "" /\ Diverges(s.blocks[1]) /\ Known(c.scopes, x)
    THEN Rebind(c, x, StripOpt(Read(c.scopes, x))) ELSE c
IfStmt(p, s, t, c) ==
    NarrowedAfter(s, NarrowingTarget(s.args[1], TRUE),
        ElseStmt(p, s, BranchStmt(p, s.blocks[1], NarrowingTarget(s.args[1], FALSE), RequireBoolean(t, c))))

LoopBody(p, b, c, around) == [Pop(CheckStmts(p, b, [c EXCEPT !.loops = around + 1])) EXCEPT !.loops = around]
ForStmt(p, s, t, c) ==
    LoopBody(p, s.blocks[1],
        DeclareTy(Push(ErrIf(t # Unknown /\ StripOpt(t)[1] # "array", c, "E0372")), s.name, Element(t)), c.loops)
WhileStmt(p, s, t, c) == LoopBody(p, s.blocks[1], Push(ErrIf(t \notin {TBool, Unknown}, c, "E0371")), c.loops)

ReturnStmt(types, c) ==
    IF types = <<>> THEN Lapse(TRUE, c, "return without a value")
    ELSE [c EXCEPT !.returns = Append(@, types[1])]

\* `break` and `continue` in a catch block need a loop around, wherever it is.
LeaveStmt(c) ==
    Lapse(c.arms # <<>> /\ Last(c.arms) = c.loops, ErrIf(c.loops = 0, c, "E0813"), "loop left from a catch")

ThrowStmt(want, types, c) ==
    ErrIf(\E i \in DOMAIN types \cap DOMAIN want : ~AssignableTo(types[i], want[i][2]),
          ErrIf(Len(types) # Len(want), c, "E1004"), "E1005")

StatementOk(p, s, types, c) ==
    CASE s.op = "let" -> LetStmt(s, types[1], c)
      [] s.op = "assign" -> AssignStmt(s, types[1], c)
      [] s.op = "set field" -> FieldStmt(s, types[1], c)
      [] s.op = "if" -> IfStmt(p, s, types[1], c)
      [] s.op = "for" -> ForStmt(p, s, types[1], c)
      [] s.op = "while" -> WhileStmt(p, s, types[1], c)
      [] s.op = "return" -> ReturnStmt(types, c)
      [] s.op = "throw" -> ThrowStmt(Errors[s.label], types, c)
      [] s.op = "transaction" -> Pop(CheckStmts(p, s.blocks[1], Push(c)))
      [] s.op = "do" -> c
      [] s.op \in {"break", "continue"} -> LeaveStmt(c)
AfterOperands(p, s, r) == StatementOk(p, s, r.ty, r.c)
CheckStmt(p, s, c) == AfterOperands(p, s, ExprAll(p, s.args, c))

CheckStmts(p, b, c) == IF b = <<>> THEN c ELSE CheckStmts(p, Tail(b), CheckStmt(p, Head(b), c))
------------------------------------------------------------------------------
(* Functions. *)
RECURSIVE Params(_, _)
Params(ps, c) == IF ps = <<>> THEN c ELSE Params(Tail(ps), DeclareTy(c, Head(ps)[1], Head(ps)[2]))

\* With an annotation each return must fit it; without one, each return and
\* the first must fit one way or the other.
CheckReturnShapes(f, c) ==
    ErrIf(IF f.returns # <<>>
          THEN \E i \in DOMAIN c.returns : ~AssignableTo(c.returns[i], f.returns)
          ELSE \E i \in DOMAIN c.returns :
                  /\ ~AssignableTo(c.returns[i], c.returns[1])
                  /\ ~AssignableTo(c.returns[1], c.returns[i]),
          c, "E0351")

Nothing == [scopes |-> <<>>, loops |-> 0, codes |-> {}, returns |-> <<>>, lapses |-> {}, arms |-> <<>>,
            narrowed |-> {}]
\* Only a route must end in a return on every path.
Function(p, f) ==
    LET c == CheckReturnShapes(f, Pop(CheckStmts(p, f.body, Push(Params(f.params, Push(Nothing)))))) IN
    Lapse(f.returns # <<>> /\ ~IsOptional(f.returns) /\ ~Diverges(f.body), c, "end without a return")

\* What is reported of a program, and the lapses in it.
Check(p) ==
    LET of == [f \in DOMAIN p |-> Function(p, p[f])] IN
    [codes |-> UNION {of[f].codes : f \in DOMAIN p}, lapses |-> UNION {of[f].lapses : f \in DOMAIN p}]
===============================================================================
