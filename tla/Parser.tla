-------------------------------- MODULE Parser --------------------------------
(***************************************************************************)
(* The recursive-descent parser (parser.rs), a rule for each function that  *)
(* others call and a term for each that one rule alone calls.  A file that  *)
(* has a diagnostic does not parse.                                         *)
(***************************************************************************)
EXTENDS Grammar

Expr == Rule("expr")
Block == Rule("block")
Type == Rule("type")
Message == Opt(":", Class("string"))
Names == Sep(Word)
NameList == Then(<<T("("), Names, T(")")>>)
Args == Within("(", Sep(Expr), ")")
OptArgs == List(First(<<When({Is(0, "(")}, Args), Otherwise(Nothing)>>))
Predicate == Opt("where", InQuery(Expr))

Dotted == Then(<<Word, Many({Is(0, ".")}, Then(<<T("."), Word>>))>>)
QualifiedSchema == Build("schema", <<Word, T("."), Word>>)
QualifiedTable == Build("table", <<Word, T("."), Word, T("."), Word>>)
AsString == Maybe({Is(0, "as"), IsA(1, "string")}, Then(<<T("as"), Class("string")>>))
WasString == Maybe({Is(0, "was"), IsA(1, "string")}, Then(<<T("was"), Class("string")>>))
Assignment == Build("entry", <<Word, T("="), Expr, T(";")>>)

(* -------------------------------- expressions ---------------------------- *)

ExceptList == List(First(<<When({Is(0, "except")}, Then(<<T("except"), NameList>>)), Otherwise(Nothing)>>))
Spread == Build("...", <<T("..."), Class("source"), ExceptList>>)
ObjEntry ==
    First(<<When({Is(0, "...")}, Spread),
            When({Is(1, ":")}, Build(":", <<Class("key"), T(":"), Expr>>)),
            Otherwise(Build("=", <<Class("key"), T("="), Expr>>))>>)
ObjectEntries == List(Within("{", Trailing(ObjEntry, "}"), "}"))

Primary ==
    First(<<
        When({IsA(0, "literal")}, Class("literal")),
        When({Is(0, "{")}, Node("object", ObjectEntries)),
        When({Is(0, "[")}, Node("array", List(Within("[", Trailing(Expr, "]"), "]")))),
        When({Is(0, "(")}, Then(<<T("("), Expr, T(")")>>)),
        When({Is(0, "select")}, Rule("select")),
        When({Is(0, "insert"), Is(1, "into")}, Refused),
        When({Is(0, "insert"), Is(2, "into")}, Rule("insert")),
        When({Is(0, "update"), Is(2, "of")}, Rule("update")),
        When({Is(0, "update"), Is(2, ".")}, Refused),
        When({Is(0, "delete"), Is(1, "from")}, Refused),
        When({Is(0, "delete"), Is(2, "from")}, Rule("delete")),
        Otherwise(Class("name"))>>)

CallArgs ==
    Then(<<T("("),
           First(<<When({Is(0, ")")}, Then(<<Put(Tree("list", <<>>)), Put(Leaf("none"))>>)),
                   Otherwise(Then(<<List(Sep(Expr)), Opt("where", Expr)>>))>>),
           T(")")>>)
Postfix ==
    Grow(Primary, <<
        Growing({Is(0, ".")}, "field", Then(<<T("."), Word, Mark({Is(0, "?"), IsNot(1, ":")}, "?")>>)),
        Growing({Is(0, "(")}, "call", CallArgs),
        Growing({Is(0, "[")}, "index", Then(<<T("["), Expr, T("]")>>)),
        Growing({Outside, Is(0, "as"), IsA(1, "word")}, "cast", Then(<<T("as"), Word>>))>>, TRUE)
Unary == First(<<When({Is(0, "-")}, Build("neg", <<T("-"), Rule("unary")>>)), Otherwise(Postfix)>>)

Infix(ops, operand) == [j \in DOMAIN ops |-> Growing({Is(0, ops[j])}, ops[j], Then(<<T(ops[j]), operand>>))]
Multiplicative == Grow(Rule("unary"), Infix(<<"*", "/", "%">>, Rule("unary")), TRUE)
Additive == Grow(Multiplicative, Infix(<<"+", "-">>, Multiplicative), TRUE)
CompareOps == <<"==", "!=", "==?", "<", "<=", ">", ">=", "like", "ilike">>
\* One comparison: `a < b < c` is not grammar.
Compare ==
    Grow(Rule("additive"),
         <<Growing({Is(0, "in")}, "in", Then(<<T("in"), List(Args)>>)),
           Growing({Is(0, "not"), Is(1, "in")}, "not in", Then(<<T("not"), T("in"), List(Args)>>))>>
         \o Infix(CompareOps, Rule("additive")), FALSE)
Exists == Then(<<T("exists"), T("("), Expr, T(")")>>)
Not ==
    First(<<When({Is(0, "!")}, Build("!", <<T("!"), Rule("not")>>)),
            When({Is(0, "not"), Is(1, "exists")}, Build("not exists", <<T("not"), Exists>>)),
            When({Is(0, "not"), IsNot(1, "in")}, Build("!", <<T("not"), Rule("not")>>)),
            When({Is(0, "exists"), Is(1, "(")}, Node("exists", Exists)),
            Otherwise(Compare)>>)
And == Grow(Rule("not"), Infix(<<"and">>, Rule("not")), TRUE)
\* `or throw` belongs to the expression.
Or == Grow(And, <<Growing({Is(0, "or"), IsNot(1, "throw")}, "or", Then(<<T("or"), And>>))>>, TRUE)
Ternary ==
    Grow(Or, <<Growing({Is(0, "?")}, "? :",
                       Then(<<T("?"), Rule("ternary"), T(":"), Rule("ternary")>>))>>, FALSE)
Coalesce == Grow(Rule("ternary"), Infix(<<"??">>, Rule("ternary")), TRUE)

OrThrow == Growing({Is(0, "or"), Is(1, "throw")}, "or throw", Then(<<T("or"), T("throw"), Word, OptArgs>>))
CatchPostfix ==
    Growing({Is(0, "catch"), IsA(1, "word")}, "catch",
            Then(<<T("catch"), Word, T("("), Word, T(")"), Block>>))
WithHeaders == Growing({Outside, Is(0, "with"), Is(1, "{")}, "with", Then(<<T("with"), ObjectEntries>>))
Cookie == Growing({Outside, Is(0, "cookie"), Is(1, "(")}, "cookie", Then(<<T("cookie"), List(Args)>>))
ParseExpr ==
    Grow(Grow(Grow(Grow(Coalesce, <<OrThrow>>, FALSE), <<CatchPostfix>>, FALSE), <<WithHeaders>>, FALSE),
         <<Cookie>>, TRUE)

(* ---------------------------------- queries ------------------------------ *)

NullsOrder ==
    First(<<When({Is(0, "nulls"), Is(1, "first")}, Then(<<T("nulls"), Class("word")>>)),
            When({Is(0, "nulls"), Is(1, "last")}, Then(<<T("nulls"), Class("word")>>)),
            When({Is(0, "nulls")}, Then(<<T("nulls"), Put(Leaf("none"))>>)),
            Otherwise(Put(Leaf("none")))>>)
Descending ==
    First(<<When({Is(0, "desc")}, Then(<<T("desc"), Put(Leaf("yes"))>>)),
            When({Is(0, "asc")}, Then(<<T("asc"), Put(Leaf("no"))>>)),
            Otherwise(Put(Leaf("no")))>>)
OrderBy == Then(<<T("orderby"), Sep(Build("key", <<Expr, Descending, NullsOrder>>))>>)
OptOrderBy == List(First(<<When({Is(0, "orderby")}, OrderBy), Otherwise(Nothing)>>))
Page == Build("page", <<T("page"), Opt("after", Expr), T("size"), Expr, Opt("max", Expr)>>)

ShapeField ==
    First(<<When({Is(1, ".")}, Build("column of", <<Word, T("."), Word>>)),
            When({Is(1, ":"), Is(2, "{")}, Build("nested", <<Word, T(":"), Rule("shape")>>)),
            When({Is(1, ":")}, Build("computed", <<Word, T(":"), Expr>>)),
            Otherwise(Node("column", Word))>>)
ObjectShape == Node("shape", Within("{", Trailing(ShapeField, "}"), "}"))
Projection == Maybe({Is(0, "as"), Is(1, "{")}, Then(<<T("as"), Rule("shape")>>))

JoinResult ==
    LET after == Then(<<Opt("under", Word), OptOrderBy, Opt("limit", Expr)>>) IN
    Then(<<T("as"),
           First(<<When({Is(0, "group"), IsNot(1, "by")}, Then(<<T("group"), Node("group", after)>>)),
                   When({Is(0, "one")}, Then(<<T("one"), Build("one", <<Word, after>>)>>)),
                   When({Is(0, "many")}, Then(<<T("many"), Build("many", <<Word, after>>)>>))>>)>>)
Join(kind) ==
    Build(kind, <<T(kind), T("join"),
        Bound(Then(<<QualifiedTable, First(<<When({IsA(0, "word"), IsNot(0, "on")}, Word), Otherwise(Nothing)>>)>>)),
        T("on"), Expr,
        Maybe({Is(0, "where"), IsNot(1, "exists")}, Then(<<T("where"), Expr>>)),
        First([j \in 1..3 |-> When({Is(0, "as"), Is(1, <<"one", "many", "group">>[j])}, Node("some", JoinResult))]
              \o <<Otherwise(Put(Leaf("none")))>>)>>)

ClausePhase ==
    [k \in {"left", "inner"} |-> 1] @@ ("where" :> 2) @@ ("group" :> 3) @@ ("having" :> 4) @@ ("as" :> 5)
    @@ ("orderby" :> 6) @@ [k \in {"page", "limit"} |-> 7] @@ ("first" :> 8)
Clause(word, g) == When({Is(0, word)}, Node(word, Then(<<T(word), g>>)))
SelectClause ==
    <<When({Is(0, "left")}, Join("left")), When({Is(0, "inner")}, Join("inner")),
      Clause("where", Expr),
      When({Is(0, "group"), Is(1, "by")}, Then(<<T("group"), T("by"), Sep(Node("group", Expr))>>)),
      Clause("having", Expr),
      When({Is(0, "as"), Is(1, "{")}, Build("as", <<T("as"), Rule("shape")>>)),
      When({Is(0, "orderby")}, Node("orderby", OrderBy)),
      When({Is(0, "page")}, Page), Clause("limit", Expr), Clause("first", Nothing)>>
\* A clause given again at its place adds to the joins and the groups, and replaces the others.
SelectTail ==
    Gather(<<All({"left", "inner"}), LastOf("where"), All({"group"}), LastOf("having"), LastOf("as"),
             LastOf("orderby"), LastOf("page"), LastOf("limit"), LastOf("first")>>,
           Phased(ClausePhase, Repeated(SelectClause)))
ParseSelect ==
    Build("select", <<T("select"), First(<<When({Is(0, "from")}, Refused), Otherwise(Word)>>),
                          T("from"), QualifiedTable, InQuery(SelectTail)>>)

SetItem ==
    First(<<When({Is(0, "...")}, Spread),
            When({Is(1, "=?")}, Build("=?", <<Word, T("=?"), Expr>>)),
            Otherwise(Build("=", <<Word, T("="), Expr>>))>>)
SetClause == List(Then(<<T("set"), Sep(SetItem)>>))
Conflict ==
    Then(<<T("on"), T("conflict"), List(First(<<When({Is(0, "(")}, NameList), Otherwise(Nothing)>>)), T("do"),
           First(<<When({Is(0, "nothing")}, Then(<<T("nothing"), Put(Leaf("none"))>>)),
                   Otherwise(Then(<<T("update"), Node("some", SetClause)>>))>>)>>)
WriteTail == Then(<<Opt("where", Expr), Projection, OptOrderBy, Flag("first")>>)
ParseInsert ==
    Build("insert", <<T("insert"), Word, T("into"), QualifiedTable, InQuery(Then(<<ObjectEntries,
        Maybe({Is(0, "on"), Is(1, "conflict")}, Conflict), Projection, Flag("buffered")>>))>>)
ParseUpdate ==
    Build("update", <<T("update"), Word, T("of"), QualifiedTable, InQuery(Then(<<SetClause, WriteTail>>))>>)
ParseDelete == Build("delete", <<T("delete"), Word, T("from"), QualifiedTable, InQuery(WriteTail)>>)

(* ----------------------------------- types ------------------------------- *)

TypeField == Build("field", <<Word, T(":"), Type>>)
ParseType ==
    Build("type", <<
        First(<<When({Is(0, "{")}, Node("record", Within("{", Sep(TypeField), "}"))),
                When({IsA(0, "scalar"), Is(1, "(")}, Build("scalar", <<Word, T("("), Sep(Class("number")), T(")")>>)),
                When({IsA(0, "scalar")}, Node("scalar", Word)),
                Otherwise(Node("named", Dotted))>>),
        Flag("?"), List(Many({Is(0, "["), Is(1, "]")}, Then(<<T("["), T("]"), Flag("?")>>)))>>)
Param == Build("param", <<Word, T(":"), Type, Opt("=", Expr)>>)
Params == List(Within("(", Sep(Param), ")"))

(* -------------------------------- statements ----------------------------- *)

ParseBlock == List(Then(<<T("{"), Until("}", Rule("stmt")), T("}")>>))
Cond == Then(<<T("("), Expr, T(")")>>)
If ==
    Build("if", <<T("if"), Cond, Block,
        First(<<When({Is(0, "else"), Is(1, "if")}, Then(<<T("else"), Node("some", List(Rule("if")))>>)),
                When({Is(0, "else")}, Then(<<T("else"), Node("some", Block)>>)),
                Otherwise(Put(Leaf("none")))>>)>>)
For == Build("for", <<T("for"), T("("), T("let"), Word, T("in"), Expr, T(")"), Block>>)
Return ==
    Build("return", <<T("return"), First(<<When({Is(0, ";")}, Put(Leaf("none"))), Otherwise(Node("some", Expr))>>),
                      T(";")>>)
Dispatch ==
    Build("dispatch", <<T("dispatch"), Word, List(Within("(", Sep(Build("arg", <<Word, T(":"), Expr>>)), ")")), T(";")>>)
Fails ==
    Build("assert fails", <<T("assert"), T("fails"), Maybe({IsNot(0, "{")}, Word), Block,
                            Opt("with", Class("string")), Skip(";")>>)
Path == List(Many({Is(0, ".")}, Then(<<T("."), Word>>)))
Assigns(target) == Build("assign", <<target, T("="), Expr, T(";")>>)
OpAssigns == Build("assign", <<Compound(Then(<<Class("variable"), Class("opassign"), Expr>>)), T(";")>>)

ParseStmt ==
    First(<<
        When({Is(0, "-"), Is(1, "-")}, Refused),
        When({IsA(0, "removed")}, Refused),
        When({Is(0, "let")}, Build("let", <<T("let"), Word, Opt(":", Type), T("="), Expr, T(";")>>)),
        When({Is(0, "if")}, Rule("if")),
        When({Is(0, "for")}, For),
        When({Is(0, "while")}, Build("while", <<T("while"), Cond, Block>>)),
        When({Is(0, "break"), Is(1, ";")}, Build("break", <<T("break"), T(";")>>)),
        When({Is(0, "continue"), Is(1, ";")}, Build("continue", <<T("continue"), T(";")>>)),
        When({Is(0, "return")}, Return),
        When({Is(0, "throw")}, Build("throw", <<T("throw"), Word, OptArgs, T(";")>>)),
        When({Is(0, "dispatch"), IsA(1, "word")}, Dispatch),
        When({Is(0, "transaction"), Is(1, "{")}, Build("transaction", <<T("transaction"), Block>>)),
        When({Is(0, "assert"), Is(1, "fails")}, Fails),
        When({Is(0, "assert")}, Build("assert", <<T("assert"), Expr, T(";")>>)),
        When({IsA(0, "variable"), IsA(1, "opassign")}, OpAssigns),
        When({IsA(0, "variable"), Is(1, "=")}, Assigns(Class("variable"))),
        When({IsNot(0, "context"), IsA(0, "variable"), FieldTarget},
             Assigns(Build("path", <<Class("variable"), Path>>))),
        When({Is(0, "context"), Is(1, "."), Is(3, "=")}, Assigns(Build("context", <<T("context"), T("."), Word>>))),
        Otherwise(Build("expr", <<Expr, T(";")>>))>>)

(* ------------------------------- declarations ---------------------------- *)

Entries == List(Then(<<T("{"), Until("}", Assignment), T("}")>>))
InitBlock == Then(<<T("init"), T("("), T(")"), T("{"), Until("}", Assignment), T("}")>>)
Database ==
    Build("database", <<T("database"), Word, T(":"), Word,
        List(First(<<When({Is(0, "{")}, Then(<<T("{"), Until("}", InitBlock), T("}")>>)), Otherwise(T(";"))>>))>>)
Schema == Build("schema", <<T("schema"), Word, T("of"), Word, AsString, T(";")>>)

RefAction ==
    First(<<When({Is(0, "cascade")}, Word), When({Is(0, "restrict")}, Word),
            When({Is(0, "no")}, Build("no", <<T("no"), T("action")>>)),
            When({Is(0, "set"), Is(1, "null")}, Build("set", <<T("set"), Word>>)),
            When({Is(0, "set"), Is(1, "default")}, Build("set", <<T("set"), Word>>))>>)
OnAction(event, k) == When({Is(0, "on"), Is(1, event)}, Build(k, <<T("on"), T(event), RefAction>>))
PrimaryKey == Build("primary key", <<T("primary"), T("key"), NameList, T(";")>>)
ForeignKey ==
    Build("foreign key", <<T("foreign"), T("key"), List(NameList), T("references"), QualifiedTable, List(NameList),
        Gather(<<LastOf("on delete"), LastOf("on update")>>,
               Repeated(<<OnAction("delete", "on delete"), OnAction("update", "on update")>>)), T(";")>>)
Unique == Build("unique", <<T("unique"), List(NameList), Predicate, Message, T(";")>>)
Check == Build("check", <<T("check"), T("("), InQuery(Expr), T(")"), Message, T(";")>>)
IndexColumn == Build("key", <<Word, Descending, NullsOrder>>)
Index ==
    Build("index", <<T("index"), T("on"), T("("), List(Sep(IndexColumn)), T(")"), Predicate, Opt("using", Word), T(";")>>)

RuleCall == Build("rule", <<Word, OptArgs, Message>>)
Modifier ==
    First(<<When({Is(0, "primary")}, Build("primary key", <<T("primary"), T("key")>>)),
            When({Is(0, "identity")}, Node("identity", T("identity"))),
            When({Is(0, "private")}, Node("private", T("private"))),
            When({Is(0, "server")}, Node("server", T("server"))),
            When({Is(0, "unique")}, Build("unique", <<T("unique"), Message>>)),
            When({Is(0, "default")}, Build("default", <<T("default"), InQuery(Expr)>>)),
            When({Is(0, "on"), Is(1, "update")}, Build("on update", <<T("on"), T("update"), InQuery(Expr)>>)),
            When({Is(0, "as")}, Build("as", <<T("as"), Class("string")>>)),
            When({Is(0, "was")}, Build("was", <<T("was"), Class("string")>>)),
            Otherwise(RuleCall)>>)
\* Each may be followed by a comma, or by none.
Loosely(g) == Then(<<Skip(","), Until(";", Then(<<g, Skip(",")>>)), T(";")>>)
Column == Build("column", <<Class("name"), Type, Loosely(Modifier)>>)
Table ==
    Build("table of", <<T("table"), Word, T("of"), QualifiedSchema, AsString, WasString, T("{"),
        Gather(<<All({"column"}), All({"primary key", "foreign key", "unique", "check"}), All({"index"})>>,
               Until("}", First(<<
                   When({Is(0, "primary"), Is(1, "key"), Is(2, "(")}, PrimaryKey),
                   When({Is(0, "foreign")}, ForeignKey),
                   When({Is(0, "unique"), Is(1, "(")}, Unique),
                   When({Is(0, "check"), Is(1, "(")}, Check),
                   When({Is(0, "index"), Is(1, "on")}, Index),
                   Otherwise(Column)>>))), T("}")>>)
Enum ==
    Build("enum", <<T("enum"), Word, Opt("of", QualifiedSchema), AsString, T("{"), Trailing(Word, "}"), T("}")>>)
View ==
    Build("view", <<T("view"), Word, T("of"), QualifiedSchema, AsString, T("{"), Rule("select"), Skip(";"), T("}")>>)
Transient == When({Is(0, "transient")}, Node("transient", T("transient")))
ClassField ==
    Build("column", <<Word, Type, Gather(<<LastOf("transient"), All({"rule"})>>,
                                         Loosely(First(<<Transient, Otherwise(RuleCall)>>)))>>)
ClassDecl == Build("class", <<T("class"), Word, T("{"), Until("}", ClassField), T("}")>>)
Error ==
    Build("error", <<T("error"), Word, First(<<When({Is(0, "(")}, Params), Otherwise(List(Nothing))>>),
                     T("="), Class("status"), Message, T(";")>>)

Raises == List(First(<<When({Is(0, "raises")}, Then(<<T("raises"), NameList>>)), Otherwise(Nothing)>>))
Function == Build("function", <<T("function"), Word, Params, Opt(":", Type), Raises, Block>>)
Service == Build("service", <<T("service"), Word, T("{"), Until("}", Function), T("}")>>)
Policy(word, class) == When({Is(0, word)}, Build(word, <<T(word), Class(class)>>))
Policies(alts) == Gather(<<OnceOf("retries"), OnceOf("backoff"), OnceOf("every")>>, Repeated(alts))
\* A scheduled job has no caller to pass it an argument.
Job ==
    LET retried == <<Policy("retries", "attempts"), Policy("backoff", "duration")>> IN
    Build("job", <<T("job"), Word,
        First(<<When({Is(0, "("), Is(1, ")")},
                     Then(<<Params, Policies(Append(retried, Policy("every", "duration")))>>)),
                Otherwise(Then(<<Params, Policies(retried)>>))>>), Block>>)

Listed(word, g) == List(First(<<When({Is(0, word)}, Then(<<T(word), Sep(g)>>)), Otherwise(Nothing)>>))
Binder == Build("param", <<Class("local"), T(":"), Type>>)
Provided == Build("param", <<Word, T(":"), Type>>)
Middleware ==
    Build("middleware", <<T("middleware"), Word,
        List(First(<<When({Is(0, "(")}, Within("(", Sep(Binder), ")")), Otherwise(Nothing)>>)),
        Listed("requires", Word), Listed("provides", Provided), T("{"),
        Gather(<<AllBut("after"), LastOf("after")>>,
               Until("}", First(<<When({Is(0, "after"), Is(1, "{")}, Build("after", <<T("after"), Block>>)),
                                  Otherwise(Rule("stmt"))>>))), T("}")>>)

Uses == Listed("use", Word)
Route == Build("route", <<T("route"), Class("method"), Class("string"), Uses, Block>>)
Arm(event, binder) == When({Is(0, "on"), Is(1, event)}, Build(event, <<T("on"), T(event), binder, Block>>))
Arms ==
    LET arm == First(<<Arm("open", Nothing), Arm("message", Then(<<T("("), Word, T(")")>>)), Arm("close", Nothing)>>)
    IN  Gather(<<OnceOf("open"), OnceOf("message"), OnceOf("close")>>, Then(<<arm, Until("}", arm)>>))
Socket == Build("socket", <<T("socket"), Class("string"), Uses, T("{"), Arms, T("}")>>)
Routes ==
    Build("routes", <<T("routes"), Class("string"), Uses, T("{"),
        Gather(<<All({"route"}), All({"socket"})>>,
               Until("}", First(<<When({Is(0, "socket")}, Socket), Otherwise(Route)>>))), T("}")>>)
CatchArm == Build("arm", <<T("catch"), Maybe({IsNot(0, "(")}, Word), T("("), Word, T(")"), Block>>)
ErrorHandler ==
    Build("errorHandler", <<T("errorHandler"), T("("), Word, T(")"), T("{"), Until("}", CatchArm), T("}")>>)
Static ==
    Build("static", <<T("static"), Class("string"), T("from"), Class("string"), Opt("cache", Class("number")), T(";")>>)
ServerDecl ==
    Build("server", <<T("server"), T("{"),
        Until("}", First(<<When({IsA(0, "word"), Is(1, "{")}, Build("section", <<Word, Entries>>)),
                           Otherwise(Assignment)>>)), T("}")>>)
Simple(word, g) == Build(word, <<T(word), g, T(";")>>)

Starting(word, g) == When({Is(0, word)}, g)
ParseDecl ==
    First(<<Starting("namespace", Simple("namespace", Dotted)), Starting("import", Simple("import", Dotted)),
            Starting("database", Database), Starting("schema", Schema), Starting("table", Table),
            Starting("view", View), Starting("enum", Enum), Starting("class", ClassDecl), Starting("error", Error),
            Starting("service", Service), Starting("middleware", Middleware), Starting("routes", Routes),
            Starting("errorHandler", ErrorHandler), Starting("server", ServerDecl), Starting("static", Static),
            Starting("const", Simple("const", Then(<<Word, T("="), Expr>>))), Starting("function", Function),
            Starting("job", Job), Starting("test", Build("test", <<T("test"), Class("string"), Block>>)),
            Starting("route", Node("bare", Route)), Starting("socket", Node("bare", Socket))>>)

Rules ==
    [expr |-> ParseExpr, ternary |-> Ternary, not |-> Not, additive |-> Additive, unary |-> Unary,
     select |-> ParseSelect, insert |-> ParseInsert, update |-> ParseUpdate, delete |-> ParseDelete,
     shape |-> ObjectShape, type |-> ParseType, block |-> ParseBlock, stmt |-> ParseStmt, if |-> If,
     decl |-> ParseDecl]
\* What a file is read as: its tree, or nothing.
Parse(ts) ==
    LET r == Reads(Rules, Node("program", Until(Eof, Rule("decl"))), FALSE, Append(ts, Eof), 1)
    IN  IF r.ok THEN r.v ELSE <<>>
=============================================================================
