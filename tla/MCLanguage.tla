------------------------------ MODULE MCLanguage ------------------------------
(***************************************************************************)
(* Small programs: two helpers, and a main of two statements and a return.  *)
(***************************************************************************)
EXTENDS Toolchain

x == Local("x")
y == Local("y")
z == Local("z")
Gone == <<Text("gone")>>

Risky == Fn(<<<<"k", TInt>>>>, TInt,
    <<If(Op(">", <<Local("k"), Num(1)>>), <<Throw("Lost", Gone)>>), Return(Local("k"))>>)
Stored == Fn(<<<<"k", TInt>>>>, TInt,
    <<Transaction(<<Do(Op("insert", <<Local("k")>>)),
                    If(Op("==", <<Local("k"), Num(2)>>), <<Throw("Taken", <<Text("two"), Num(2)>>)>>),
                    If(Op("==", <<Local("k"), Num(1)>>), <<Return(Num(3))>>)>>),
      Return(Local("k"))>>)

Quit == <<Return(Num(0))>>
IsNull(e) == Op("==", <<e, NullLit>>)
NotNull(e) == Op("!=", <<NullLit, e>>)
Less(a, b) == Op("<", <<a, b>>)
Plus(a, b) == Op("+", <<a, b>>)
Caught(e, arm) == Catch(e, "Lost", "err", arm)

\* What the second parameter is guarded by, or what a let binds.
Guards == {
    If(IsNull(x), Quit),
    If(IsNull(x), <<Throw("Lost", Gone)>>),
    If(NotNull(x), <<Return(Plus(x, y))>>),
    IfElse(IsNull(x), <<Do(y)>>, <<Return(Op("-", <<x, y>>))>>),
    If(IsNull(x), <<If(Less(y, Num(2)), Quit)>>),
    If(IsNull(x), <<IfElse(Less(y, Num(2)), Quit, <<Throw("Lost", Gone)>>)>>),
    If(Less(y, Num(2)), <<If(IsNull(x), Quit)>>),
    If(Op("and", <<NotNull(x), Less(y, Num(2))>>), <<Return(y)>>),
    If(IsNull(x), <<Transaction(<<Do(Op("insert", <<y>>)), Throw("Lost", Gone)>>)>>),
    If(IsNull(x), <<Assign("x", y)>>),
    Do(y)}
Bindings == {
    Let(1, "z", <<>>, y),
    Let(1, "z", <<>>, Num(2)),
    Let(1, "z", TInt, Num(1)),
    Let(1, "z", TOpt(TInt), x),
    Let(1, "z", TInt, Op("??", <<x, y>>)),
    Let(1, "z", TInt, OrThrow(x, "Lost", Gone)),
    Let(1, "z", <<>>, Op("? :", <<Less(y, Num(2)), Num(1), NullLit>>)),
    Let(1, "z", TInt, Call("stored", <<y>>)),
    Let(1, "z", TInt, Caught(Call("risky", <<y>>), Quit)),
    Let(1, "z", <<>>, Op("index", <<Op("array", <<Num(1), y>>), Op("-", <<y, Num(1)>>)>>)),
    Let(1, "z", <<>>, Op("array", <<y, Num(2)>>))}
Uses == {
    Do(y),
    Assign("z", Op("*", <<z, Num(2)>>)),
    Assign("z", y),
    Assign("z", Call("risky", <<y>>)),
    Assign("y", Op("neg", <<y>>)),
    For("i", Op("array", <<Num(1), y>>), <<Assign("z", Plus(z, Num(1)))>>),
    For("i", z, <<If(Op("==", <<Local("i"), y>>), <<Break>>), Do(Op("insert", <<Local("i")>>))>>),
    For("i", Op("array", <<Num(1), x>>), <<If(IsNull(x), <<Continue>>), Do(Call("stored", <<y>>))>>),
    For("i", Op("array", <<Num(0), y>>), <<Let(2, "w", TInt, Caught(Call("risky", <<Local("i")>>), <<Break>>)),
                                        Assign("z", Local("w"))>>),
    While(Less(z, y), <<Let(2, "w", <<>>, z), Assign("z", Plus(Local("w"), Num(1)))>>),
    While(Op("not", <<Op("==", <<z, y>>)>>), <<Assign("z", Op("-", <<z, Num(1)>>))>>),
    Transaction(<<Do(Op("insert", <<z>>)), If(Less(z, y), <<Throw("Lost", Gone)>>)>>),
    Transaction(<<Do(Op("insert", <<z>>)), If(Less(z, y), <<Return(y)>>)>>),
    Transaction(<<Do(Op("insert", <<y>>)), Do(Caught(Call("risky", <<y>>), Quit))>>),
    Transaction(<<Do(Op("insert", <<y>>)), Assign("z", Op("/", <<Num(1), Plus(y, Num(-1))>>))>>),
    Do(Caught(Op("??", <<Caught(Call("risky", <<y>>), Quit), z>>), <<Throw("Lost", Gone)>>)),
    Do(Caught(Call("risky", <<y>>), <<Return(Call("stored", <<y>>))>>)),
    Do(Caught(Call("risky", <<y>>), <<Throw("Taken", <<Field(Local("err"), "message"), Num(1)>>)>>)),
    Do(Catch(Call("stored", <<y>>), "Taken", "err", <<Return(Field(Local("err"), "by"))>>)),
    Do(Caught(Call("risky", <<y>>), <<Transaction(<<Throw("Lost", Gone)>>)>>)),
    While(Less(z, y), <<Transaction(<<If(Less(y, Num(2)), <<Break>>), Assign("z", Plus(z, Num(1)))>>)>>)}
Answers == {
    x, z, Plus(z, x),
    Op("and", <<Less(z, y), Op("or", <<Less(y, Num(2)), Less(z, Num(2))>>)>>),
    Op("? :", <<Op("==", <<z, y>>), Call("stored", <<z>>), Num(1)>>),
    OrThrow(x, "Taken", <<Text("by"), Num(1)>>)}

\* The same over a record: m is always there, n may be null.
Row == TClass([m |-> TInt, n |-> TOpt(TInt)])
r == Local("r")
RowGuards == {
    If(IsNull(r), Quit),
    If(NotNull(r), <<SetField("r", "n", Field(r, "m"))>>),
    If(Less(y, Num(2)), <<If(IsNull(r), Quit)>>)}
RowBindings == {
    Let(1, "z", Row, r),
    Let(1, "z", <<>>, OrThrow(r, "Lost", Gone)),
    Let(1, "z", <<>>, Op("??", <<Field(r, "n"), y>>)),
    Let(1, "z", <<>>, Op("array", <<r, r>>))}
RowUses == {
    SetField("z", "m", y),
    SetField("z", "n", NullLit),
    SetField("z", "m", NullLit),
    For("i", z, <<SetField("i", "m", y)>>),
    For("i", z, <<Do(Op("insert", <<Field(Local("i"), "m")>>))>>),
    Transaction(<<SetField("z", "n", y), Do(Op("insert", <<z>>)), Do(Call("risky", <<y>>))>>),
    Assign("z", Op("??", <<Field(z, "n"), Field(r, "m")>>))}
RowAnswers == {
    Field(z, "m"), Plus(Field(r, "m"), y), Op("??", <<Field(z, "n"), y>>),
    Field(Op("index", <<z, Num(1)>>), "m")}

Body(gs, bs, us, as) == {<<g, b, u, Return(a)>> : g \in gs, b \in bs, u \in us, a \in as}
Mains == {Fn(<<<<"x", TOpt(TInt)>>, <<"y", TInt>>>>, TInt, b) : b \in Body(Guards, Bindings, Uses, Answers)}
    \cup {Fn(<<<<"r", TOpt(Row)>>, <<"y", TInt>>>>, TInt, b) :
             b \in Body(RowGuards, RowBindings, RowUses, RowAnswers)}
Helpers == [risky |-> Risky, stored |-> Stored]
SmallPrograms == {[main |-> m] @@ Helpers : m \in Mains}
OneRow == RowV([m |-> IntV(1), n |-> NullV])
SmallCalls(p) ==
    {<<v, IntV(n)>> : n \in 0..3,
        v \in {NullV, IF p["main"].params[1][1] = "x" THEN IntV(2) ELSE OneRow}}

LanguageNext == JwcCheck \/ JwcBuild \/ (\E vs \in SmallCalls(source) : JwcServe(vs)) \/ BinaryAnswers
=============================================================================
