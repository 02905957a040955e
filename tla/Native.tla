-------------------------------- MODULE Native --------------------------------
(***************************************************************************)
(* The native backend: the Rust that `jwc build` writes for a function      *)
(* (native/codegen.rs).  Emitted code is made of nodes too, nested as the   *)
(* Rust is.                                                                 *)
(***************************************************************************)
EXTENDS Code

LOCAL INSTANCE SequencesExt
------------------------------------------------------------------------------
(* Which lets are emitted as an i64: IntLets.  The pass keeps the lets that *)
(* may be, with the lets each one reads, the ones ruled out, and the let a  *)
(* name in view is bound by (0: something else).                            *)
NotALet == 0
Resolve(w, x) == IF Known(w.scopes, x) THEN Read(w.scopes, x) ELSE NotALet

\* Integer arithmetic over literals and candidates.
RECURSIVE Pure(_, _), PureReads(_, _)
Pure(w, e) ==
    \/ e.op = "int"
    \/ e.op = "local" /\ Resolve(w, e.name) \in DOMAIN w.reads
    \/ e.op \in ArithOps \cup {"neg"} /\ \A i \in DOMAIN e.args : Pure(w, e.args[i])
PureReads(w, e) ==
    IF e.op = "local" THEN {Resolve(w, e.name)} ELSE UNION {PureReads(w, e.args[i]) : i \in DOMAIN e.args}

PassPush(w, x) == [w EXCEPT !.scopes = Bound(Pushed(@), x, NotALet)]
PassPop(w) == [w EXCEPT !.scopes = Front(@)]

RECURSIVE PassBlock(_, _), PassStmts(_, _), PassStmt(_, _), PassExprs(_, _)

\* The catch blocks inside expressions: their writes count.
CatchArms(e, w) ==
    IF e.op = "catch" THEN PassPop(PassBlock(e.blocks[1], PassPush(w, e.name))) ELSE w
PassExprs(es, w) ==
    IF es = <<>> THEN w
    ELSE PassExprs(Tail(es), PassExprs(Head(es).args, CatchArms(Head(es), w)))

PassLet(s, w) ==
    LET may == s.type \in {<<>>, TInt} /\ Pure(w, s.args[1])
        v == IF may THEN [w EXCEPT !.reads = (s.at :> PureReads(w, s.args[1])) @@ @] ELSE w
    IN [v EXCEPT !.scopes = Bound(@, s.name, s.at)]

\* Mutant: a write that is not integer arithmetic is passed over.
PassAssignLoosely(s, w) ==
    LET id == Resolve(w, s.name) IN
    IF id \in DOMAIN w.reads /\ Pure(w, s.args[1])
    THEN [w EXCEPT !.reads[id] = @ \cup PureReads(w, s.args[1])] ELSE w
PassAssign(s, w) ==
    LET id == Resolve(w, s.name) IN
    CASE id \notin DOMAIN w.reads -> w
      [] id \in DOMAIN w.reads /\ Pure(w, s.args[1]) ->
            [w EXCEPT !.reads[id] = @ \cup PureReads(w, s.args[1])]
      [] OTHER -> [w EXCEPT !.ruled = @ \cup {id}]

PassOver(s, w) ==
    CASE s.op = "let" -> PassLet(s, w)
      [] s.op = "assign" -> PassAssign(s, w)
      [] s.op = "set field" -> [w EXCEPT !.ruled = @ \cup {Resolve(w, s.name)}]
      [] s.op = "for" -> PassPop(PassBlock(s.blocks[1], PassPush(w, s.name)))
      [] s.op = "if" -> IF Len(s.blocks) = 1 THEN PassBlock(s.blocks[1], w)
                        ELSE PassBlock(s.blocks[2], PassBlock(s.blocks[1], w))
      [] s.op \in {"while", "transaction"} -> PassBlock(s.blocks[1], w)
      [] OTHER -> w
PassStmt(s, w) == PassOver(s, PassExprs(s.args, w))

PassStmts(b, w) == IF b = <<>> THEN w ELSE PassStmts(Tail(b), PassStmt(Head(b), w))
PassBlock(b, w) == PassPop(PassStmts(b, [w EXCEPT !.scopes = Pushed(@)]))

\* The candidates that read only each other: the largest such set.
RECURSIVE Settled(_, _)
Settled(reads, ids) ==
    LET keep == {id \in ids : reads[id] \subseteq ids} IN IF keep = ids THEN ids ELSE Settled(reads, keep)
Chosen(w) == Settled(w.reads, DOMAIN w.reads \ w.ruled)
NativeIntLets(body) == Chosen(PassBlock(body, [reads |-> EmptyScope, ruled |-> {}, scopes |-> <<>>]))
------------------------------------------------------------------------------
(* Emitting.  ctx is [lets, ints, tx]: the lets chosen, the names in view   *)
(* bound to one, and how many transactions enclose the statement.           *)
Coded(op, name, es) == [Op(op, es) EXCEPT !.name = name]

RECURSIVE PureInt(_, _), ReadsNative(_, _)
PureInt(e, ctx) ==
    \/ e.op = "int"
    \/ e.op = "local" /\ e.name \in ctx.ints
    \/ e.op \in ArithOps \cup {"neg"} /\ \A i \in DOMAIN e.args : PureInt(e.args[i], ctx)
ReadsNative(e, ctx) ==
    \/ e.op = "local" /\ e.name \in ctx.ints
    \/ \E i \in DOMAIN e.args : ReadsNative(e.args[i], ctx)

RECURSIVE EmitInt(_, _), EmitExpr(_, _), EmitStmts(_, _)
EmitInts(es, ctx) == [i \in DOMAIN es |-> EmitInt(es[i], ctx)]
EmitInt(e, ctx) ==
    CASE e.op = "int" -> [Node("i64") EXCEPT !.at = e.at]
      [] e.op = "local" /\ e.name \in ctx.ints -> Coded("variable", e.name, <<>>)
      [] e.op = "neg" -> Op("jwc_i_neg", EmitInts(e.args, ctx))
      [] e.op \in ArithOps -> Coded("jwc_i_op", e.op, EmitInts(e.args, ctx))
      [] OTHER -> Node("refused")

EmitAll(es, ctx) == [i \in DOMAIN es |-> EmitExpr(es[i], ctx)]
CompareCoded(op, es) == Coded("compare", op, es)
EmitCond(e, ctx) ==
    CASE e.op \in OrderOps \cup {"==", "!="} /\ \A i \in 1..2 : PureInt(e.args[i], ctx) ->
            Coded("compare i64", e.op, EmitInts(e.args, ctx))
      [] e.op \in OrderOps \cup {"==", "!="} /\ \E i \in 1..2 : ~PureInt(e.args[i], ctx) ->
            CompareCoded(e.op, EmitAll(e.args, ctx))
      [] OTHER -> Op("jwc_truthy", <<EmitExpr(e, ctx)>>)

\* The first argument is all an error carries.
EmitThrow(es, ctx) == IF es = <<>> THEN <<NullLit>> ELSE <<EmitExpr(Head(es), ctx)>>

EmitBlock(b, ctx) == EmitStmts(b, ctx)

EmitExpr(e, ctx) ==
    CASE e.op = "int" -> Op("V::Int", <<EmitInt(e, ctx)>>)
      [] e.op = "bool" -> Op("V::Bool", <<e>>)
      [] e.op \in {"text", "null"} -> e
      [] e.op = "local" /\ e.name \in ctx.ints -> Op("V::Int", <<Coded("variable", e.name, <<>>)>>)
      [] e.op = "local" /\ e.name \notin ctx.ints -> Coded("variable", e.name, <<>>)
      [] e.op = "not" -> Op("V::Bool", <<Op("!", <<Op("jwc_truthy", EmitAll(e.args, ctx))>>)>>)
      [] e.op = "neg" -> Op("jwc_neg", EmitAll(e.args, ctx))
      [] e.op \in ArithOps ->
            IF PureInt(e, ctx) /\ ReadsNative(e, ctx) THEN Op("V::Int", <<EmitInt(e, ctx)>>)
            ELSE Coded("jwc_op", e.op, EmitAll(e.args, ctx))
      [] e.op \in OrderOps \cup {"==", "!="} ->
            Op("V::Bool", <<CompareCoded(e.op, EmitAll(e.args, ctx))>>)
      [] e.op = "? :" -> Op("if else", <<Op("jwc_truthy", <<EmitExpr(e.args[1], ctx)>>)>>
                                       \o EmitAll(Tail(e.args), ctx))
      [] e.op = "or throw" -> [e EXCEPT !.args = <<EmitExpr(Head(@), ctx)>> \o EmitThrow(Tail(@), ctx)]
      [] e.op = "catch" -> [e EXCEPT !.args = EmitAll(@, ctx), !.blocks = <<EmitBlock(@[1], ctx)>>]
      [] OTHER -> [e EXCEPT !.args = EmitAll(@, ctx)]

\* A return inside a transaction hands its value to the block around it.
EmitReturn(v, ctx) == [Return(v) EXCEPT !.label = IF ctx.tx > 0 THEN "Ok(Some)" ELSE "Ok"]

EmitLet(s, ctx) ==
    IF s.at \in ctx.lets THEN [s EXCEPT !.label = "i64", !.args = EmitInts(@, ctx)]
    ELSE [s EXCEPT !.label = "V", !.args = EmitAll(@, ctx)]
EmitAssign(s, ctx) ==
    [s EXCEPT !.args = IF s.name \in ctx.ints THEN EmitInts(@, ctx) ELSE EmitAll(@, ctx)]
EmitTransaction(s, ctx) ==
    [s EXCEPT !.blocks = <<EmitBlock(@[1], [ctx EXCEPT !.tx = @ + 1]),
                           <<EmitReturn(Coded("variable", "__v", <<>>), ctx)>>>>]

EmitStmt(s, ctx) ==
    CASE s.op = "let" -> EmitLet(s, ctx)
      [] s.op = "assign" -> EmitAssign(s, ctx)
      [] s.op = "return" -> EmitReturn(IF s.args = <<>> THEN NullLit ELSE EmitExpr(s.args[1], ctx), ctx)
      [] s.op = "throw" -> [s EXCEPT !.args = EmitThrow(@, ctx)]
      [] s.op = "transaction" -> EmitTransaction(s, ctx)
      [] s.op \in {"if", "while"} ->
            [s EXCEPT !.args = <<EmitCond(@[1], ctx)>>,
                      !.blocks = [i \in DOMAIN @ |-> EmitBlock(@[i], ctx)]]
      [] OTHER -> [s EXCEPT !.args = EmitAll(@, ctx), !.blocks = [i \in DOMAIN @ |-> EmitBlock(@[i], ctx)]]

EmitStmts(b, ctx) ==
    IF b = <<>> THEN <<>>
    ELSE LET s == Head(b)
             bound == IF s.op = "let" /\ s.at \in ctx.lets THEN {s.name} ELSE {} IN
         <<EmitStmt(s, ctx)>> \o EmitStmts(Tail(b), [ctx EXCEPT !.ints = @ \cup bound])

EmitFunction(f) ==
    [f EXCEPT !.body = EmitBlock(@, [lets |-> NativeIntLets(@), ints |-> {}, tx |-> 0])]
Emit(p) == [f \in DOMAIN p |-> EmitFunction(p[f])]
===============================================================================
