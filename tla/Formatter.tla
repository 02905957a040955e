------------------------------ MODULE Formatter ------------------------------
(***************************************************************************)
(* The canonical printer of a tree (fmt.rs).  A text is its tokens: how long *)
(* they are, comments, and where lines break are left out, but for the one   *)
(* statement that is printed with other tokens when it is broken: the insert.*)
(***************************************************************************)
EXTENDS Parser

CONSTANT Spaced     \* the texts with a `-` or a blank, of those Strings has
VARIABLE wide       \* the inserts that pass the margin, or have a commented entry

Comma == <<",">>
Joined(texts, sep) ==
    FlattenSeq([j \in DOMAIN texts |-> IF j = 1 THEN texts[1] ELSE sep \o texts[j]])
Given(n, text) == IF n.k = "some" THEN text ELSE <<>>
NamesText(n) == Joined([j \in DOMAIN n.c |-> <<n.c[j].k>>], Comma)
Dots(ns) == Joined([j \in DOMAIN ns |-> <<ns[j].k>>], <<".">>)
LocalToken(name) == CHOOSE t \in DOMAIN Locals : Locals[t] = name
KeyText(key) == IF key \in Spaced THEN CHOOSE t \in DOMAIN Strings : Strings[t] = key ELSE key

Compares == Range(CompareOps)
Prec(n) ==
    CASE n.c = <<>>                   -> 10
      [] n.k = "??"                   -> 1
      [] n.k = "? :"                  -> 2
      [] n.k = "or"                   -> 3
      [] n.k = "and"                  -> 4
      [] n.k = "!"                    -> 5
      [] n.k \in Compares \cup {"in", "not in", "exists", "not exists"} -> 6
      [] n.k \in {"+", "-"}           -> 7
      [] n.k \in {"*", "/", "%"}      -> 8
      [] n.k = "neg"                  -> 9
      [] OTHER                        -> 10
Binary == Compares \cup {"or", "and", "+", "-", "*", "/", "%"}

TypeSuffix(n) == IF n.k = "yes" THEN <<"?">> ELSE <<>>
RECURSIVE TypeText(_)
TypeText(t) ==
    LET kind == t.c[1]
        args == [j \in 1..(Len(kind.c) - 1) |-> <<kind.c[j + 1].k>>]
        field(f) == <<f.c[1].k, ":">> \o TypeText(f.c[2])
    IN  (CASE kind.k = "record" -> <<"{">> \o Joined([j \in DOMAIN kind.c |-> field(kind.c[j])], Comma) \o <<"}">>
           [] kind.k = "named"  -> Dots(kind.c)
           [] Len(kind.c) = 1   -> <<kind.c[1].k>>
           [] OTHER             -> <<kind.c[1].k, "(">> \o Joined(args, Comma) \o <<")">>)
        \o TypeSuffix(t.c[2])
        \o FlattenSeq([j \in DOMAIN t.c[3].c |-> <<"[", "]">> \o TypeSuffix(t.c[3].c[j])])

(* -------------------------------- expressions ---------------------------- *)

SpreadText(n) ==
    <<"...", LocalToken(n.c[1].k)>>
    \o (IF n.c[2].c = <<>> THEN <<>> ELSE <<"except", "(">> \o NamesText(n.c[2]) \o <<")">>)
NullsText(n) == IF n.k = "none" THEN <<>> ELSE <<"nulls", n.k>>

RECURSIVE Text(_, _)
\* The parts that contain one another.
ExprText(n) == Text("expr", n)
BlockText(n) == Text("block", n)
SelectText(n) == Text("select", n)
ShapeText(n) == Text("shape", n)

WrapSlackly(n, parent) ==
    IF Prec(n) + 1 < parent THEN <<"(">> \o ExprText(n) \o <<")">> ELSE ExprText(n)
Wrap(n, parent) == IF Prec(n) < parent THEN <<"(">> \o ExprText(n) \o <<")">> ELSE ExprText(n)
ExprList(n) == Joined([j \in DOMAIN n.c |-> ExprText(n.c[j])], Comma)
ArgsText(n) == IF n.c = <<>> THEN <<>> ELSE <<"(">> \o ExprList(n) \o <<")">>
Clausal(word, n) == Given(n, <<word>> \o ExprText(n.c[1]))

EntryText(n) ==
    CASE n.k = "..." -> SpreadText(n)
      [] OTHER       -> <<KeyText(n.c[1].k), n.k>> \o ExprText(n.c[2])
EntriesText(n) == Joined([j \in DOMAIN n.c |-> EntryText(n.c[j])], Comma)
SetItemText(n) == IF n.k = "..." THEN SpreadText(n) ELSE <<n.c[1].k, n.k>> \o ExprText(n.c[2])
SetText(n) == <<"set">> \o Joined([j \in DOMAIN n.c |-> SetItemText(n.c[j])], Comma)
SortKey(n) == ExprText(n.c[1]) \o <<IF n.c[2].k = "yes" THEN "desc" ELSE "asc">> \o NullsText(n.c[3])
OrderText(keys) ==
    IF keys = <<>> THEN <<>> ELSE <<"orderby">> \o Joined([j \in DOMAIN keys |-> SortKey(keys[j])], Comma)

FieldText(f) ==
    CASE f.k = "column"    -> <<f.c[1].k>>
      [] f.k = "column of" -> Dots(f.c)
      [] f.k = "nested"    -> <<f.c[1].k, ":">> \o ShapeText(f.c[2])
      [] f.k = "computed"  -> <<f.c[1].k, ":">> \o ExprText(f.c[2])
ShapeBody(s) == <<"{">> \o Joined([j \in DOMAIN s.c |-> FieldText(s.c[j])], Comma) \o <<"}">>
Projected(n) == Given(n, <<"as">> \o ShapeText(n.c[1]))

ResultText(r) ==
    IF r.k = "group" THEN <<"as", "group">>
    ELSE <<"as", r.k, r.c[1].k>> \o Given(r.c[2], <<"under", r.c[2].c[1].k>>) \o OrderText(r.c[3].c)
         \o Clausal("limit", r.c[4])
JoinText(j) ==
    <<j.k, "join">> \o Dots(j.c[1].c)
    \o (IF j.c[2] = j.c[1].c[3] THEN <<>> ELSE <<j.c[2].k>>)
    \o <<"on">> \o ExprText(j.c[3]) \o Clausal("where", j.c[4]) \o Given(j.c[5], ResultText(j.c[5].c[1]))
PageText(p) == <<"page">> \o Clausal("after", p.c[1]) \o <<"size">> \o ExprText(p.c[2]) \o Clausal("max", p.c[3])

\* A clause that Gather kept is under its own node.
Inner(n) == IF n.k = "some" THEN Tree("some", n.c[1].c) ELSE n
\* A page is printed, and the limit of the same query is not.
SelectBody(q) ==
    LET groups == [j \in DOMAIN q.c[5].c |-> ExprText(q.c[5].c[j].c[1])] IN
    <<"select", q.c[1].k, "from">> \o Dots(q.c[2].c)
    \o FlattenSeq([j \in DOMAIN q.c[3].c |-> JoinText(q.c[3].c[j])])
    \o Clausal("where", Inner(q.c[4]))
    \o (IF groups = <<>> THEN <<>> ELSE <<"group", "by">> \o Joined(groups, Comma))
    \o Clausal("having", Inner(q.c[6])) \o Projected(Inner(q.c[7])) \o OrderText(Inner(q.c[8]).c)
    \o (IF q.c[9].k = "some" THEN PageText(q.c[9].c[1]) ELSE Clausal("limit", Inner(q.c[10])))
    \o Given(q.c[11], <<"first">>)

ConflictText(n) ==
    Given(n, <<"on", "conflict">> \o (IF n.c[1].c = <<>> THEN <<>> ELSE <<"(">> \o NamesText(n.c[1]) \o <<")">>)
             \o <<"do">> \o (IF n.c[2].k = "none" THEN <<"nothing">> ELSE <<"update">> \o SetText(n.c[2].c[1])))
WriteHead(n, word) == <<n.k, n.c[1].k, word>> \o Dots(n.c[2].c)
WriteTailText(cs) ==
    Clausal("where", cs[1]) \o Projected(cs[2]) \o OrderText(cs[3].c) \o (IF cs[4].k = "yes" THEN <<"first">> ELSE <<>>)
Buffered(n) == IF n.k = "yes" THEN <<"buffered">> ELSE <<>>
InsertText(n) ==
    WriteHead(n, "into") \o <<"{">> \o EntriesText(n.c[3]) \o <<"}">>
    \o ConflictText(n.c[4]) \o Projected(n.c[5]) \o Buffered(n.c[6])
UpdateText(n) == WriteHead(n, "of") \o SetText(n.c[3]) \o WriteTailText(SubSeq(n.c, 4, 7))
DeleteText(n) == WriteHead(n, "from") \o WriteTailText(SubSeq(n.c, 3, 6))

OrThrowText(n) == <<"or", "throw", n.c[2].k>> \o ArgsText(n.c[3])
CatchText(n) == <<"catch", n.c[2].k, "(", n.c[3].k, ")", "{">>
ExprBody(n) ==
    LET a == n.c[1]
        b == n.c[2]
        p == Prec(n)
    IN
    CASE n.c = <<>>       -> <<n.k>>
      [] n.k = "field"    -> Wrap(a, 10) \o <<".", b.k>> \o TypeSuffix(n.c[3])
      [] n.k = "index"    -> Wrap(a, 10) \o <<"[">> \o ExprText(b) \o <<"]">>
      [] n.k = "call"     -> Wrap(a, 10) \o <<"(">> \o ExprList(b) \o Clausal("where", n.c[3]) \o <<")">>
      [] n.k = "cast"     -> Wrap(a, 10) \o <<"as", b.k>>
      [] n.k = "!"        -> <<"!">> \o Wrap(a, 5)
      [] n.k = "neg"      -> <<"-">> \o Wrap(a, 9)
      [] n.k \in Binary   -> Wrap(a, p) \o <<n.k>> \o Wrap(b, p + 1)
      [] n.k = "? :"      -> Wrap(a, 3) \o <<"?">> \o Wrap(b, 2) \o <<":">> \o Wrap(n.c[3], 2)
      [] n.k = "??"       -> Wrap(a, 2) \o <<"??">> \o Wrap(b, 2)
      [] n.k = "in"       -> Wrap(a, 7) \o <<"in", "(">> \o ExprList(b) \o <<")">>
      [] n.k = "not in"   -> Wrap(a, 7) \o <<"not", "in", "(">> \o ExprList(b) \o <<")">>
      [] n.k = "exists"   -> <<"exists", "(">> \o ExprText(a) \o <<")">>
      [] n.k = "not exists" -> <<"not", "exists", "(">> \o ExprText(a) \o <<")">>
      [] n.k = "object"   -> <<"{">> \o EntriesText(a) \o <<"}">>
      [] n.k = "array"    -> <<"[">> \o ExprList(a) \o <<"]">>
      [] n.k = "select"   -> SelectText(n)
      [] n.k = "insert"   -> InsertText(n)
      [] n.k = "update"   -> UpdateText(n)
      [] n.k = "delete"   -> DeleteText(n)
      [] n.k = "or throw" -> ExprText(a) \o OrThrowText(n)
      [] n.k = "catch"    -> ExprText(a) \o CatchText(n) \o BlockText(n.c[4]) \o <<"}">>
      [] n.k = "with"     -> ExprText(a) \o <<"with", "{">> \o EntriesText(b) \o <<"}">>
      [] n.k = "cookie"   -> ExprText(a) \o <<"cookie", "(">> \o ExprList(b) \o <<")">>

(* --------------------------------- statements ---------------------------- *)

\* An insert over several lines prints its column names bare.
PaddedEntry(n) == IF n.k = "=" THEN <<n.c[1].k, "=">> \o ExprText(n.c[2]) ELSE EntryText(n)
Broken(n) == n \in wide \/ n.c[4].k = "some" \/ n.c[5].k = "some"
InsertStmt(prefix, n, suffix) ==
    IF ~Broken(n) THEN prefix \o InsertText(n) \o suffix
    ELSE prefix \o WriteHead(n, "into") \o <<"{">>
         \o Joined([j \in DOMAIN n.c[3].c |-> PaddedEntry(n.c[3].c[j])], Comma) \o <<"}">>
         \o (IF n.c[4].k = "none" /\ n.c[5].k = "none" THEN Buffered(n.c[6])
             ELSE ConflictText(n.c[4]) \o Projected(n.c[5]))
         \o suffix
\* What follows a write is printed by its last clause.
WriteStmt(prefix, text, cs, suffix) ==
    prefix \o text \o (IF WriteTailText(cs) = <<>> THEN <<>> ELSE suffix)
\* `or throw` and `catch` are peeled off into what follows the query.
RECURSIVE Assigned(_, _, _)
Assigned(prefix, n, suffix) ==
    CASE n.c = <<>>       -> prefix \o <<n.k>> \o suffix
      [] n.k = "or throw" -> Assigned(prefix, n.c[1], OrThrowText(n) \o suffix)
      [] n.k = "catch"    -> Assigned(prefix, n.c[1], CatchText(n)) \o BlockText(n.c[4]) \o <<"}">> \o suffix
      [] n.k = "insert"   -> InsertStmt(prefix, n, suffix)
      [] n.k = "update"   -> WriteStmt(prefix, UpdateText(n), SubSeq(n.c, 4, 7), suffix)
      [] n.k = "delete"   -> WriteStmt(prefix, DeleteText(n), SubSeq(n.c, 3, 6), suffix)
      [] OTHER            -> prefix \o ExprText(n) \o suffix

Braced(n) == <<"{">> \o BlockText(n) \o <<"}">>
TargetText(n) ==
    CASE n.c = <<>>      -> <<n.k>>
      [] n.k = "context" -> <<"context", ".", n.c[1].k>>
      [] n.k = "path"    -> <<n.c[1].k, ".">> \o Dots(n.c[2].c)
StmtText(s) ==
    CASE s.k \in {"break", "continue"} -> <<s.k, ";">>
      [] s.k = "let"  -> Assigned(<<"let", s.c[1].k>> \o Given(s.c[2], <<":">> \o TypeText(s.c[2].c[1])) \o <<"=">>,
                                  s.c[3], <<";">>)
      [] s.k = "assign" -> Assigned(TargetText(s.c[1]) \o <<"=">>, s.c[2], <<";">>)
      [] s.k = "if"   -> <<"if", "(">> \o ExprText(s.c[1]) \o <<")">> \o Braced(s.c[2])
                         \o Given(s.c[3], <<"else">> \o Braced(s.c[3].c[1]))
      [] s.k = "for"  -> <<"for", "(", "let", s.c[1].k, "in">> \o ExprText(s.c[2]) \o <<")">> \o Braced(s.c[3])
      [] s.k = "while"  -> <<"while", "(">> \o ExprText(s.c[1]) \o <<")">> \o Braced(s.c[2])
      [] s.k = "return" -> IF s.c[1].k = "none" THEN <<"return", ";">> ELSE Assigned(<<"return">>, s.c[1].c[1], <<";">>)
      [] s.k = "throw"  -> <<"throw", s.c[1].k>> \o ArgsText(s.c[2]) \o <<";">>
      [] s.k = "dispatch" ->
            LET arg(a) == <<a.c[1].k, ":">> \o ExprText(a.c[2])
            IN <<"dispatch", s.c[1].k, "(">> \o Joined([j \in DOMAIN s.c[2].c |-> arg(s.c[2].c[j])], Comma)
               \o <<")", ";">>
      [] s.k = "transaction" -> <<"transaction">> \o Braced(s.c[1])
      [] s.k = "assert" -> <<"assert">> \o ExprText(s.c[1]) \o <<";">>
      [] s.k = "assert fails" ->
            <<"assert", "fails">> \o Given(s.c[1], <<s.c[1].c[1].k>>) \o Braced(s.c[2])
            \o Given(s.c[3], <<"with", s.c[3].c[1].k>>) \o <<";">>
      [] s.k = "expr" -> Assigned(<<>>, s.c[1], <<";">>)
BlockBody(b) == FlattenSeq([j \in DOMAIN b.c |-> StmtText(b.c[j])])

Text(part, n) ==
    CASE part = "expr"   -> ExprBody(n)
      [] part = "block"  -> BlockBody(n)
      [] part = "select" -> SelectBody(n)
      [] part = "shape"  -> ShapeBody(n)

(* -------------------------------- declarations --------------------------- *)

Each(ns, text(_)) == FlattenSeq([j \in DOMAIN ns |-> text(ns[j])])
Commas(ns, text(_)) == Joined([j \in DOMAIN ns |-> text(ns[j])], Comma)
Rest(n, first) == SubSeq(n.c, first, Len(n.c))
Marked(n, word) == Given(n, <<word, n.c[1].k>>)
ListText(word, n) == IF n.c = <<>> THEN <<>> ELSE <<word>> \o NamesText(n)
InParens(n) == <<"(">> \o NamesText(n) \o <<")">>

AssignmentText(a) == <<a.c[1].k, "=">> \o ExprText(a.c[2]) \o <<";">>
ParamText(p) ==
    <<p.c[1].k, ":">> \o TypeText(p.c[2]) \o (IF Len(p.c) = 3 THEN Clausal("=", p.c[3]) ELSE <<>>)
ParamsText(n) == <<"(">> \o Commas(n.c, ParamText) \o <<")">>
OptParams(n) == IF n.c = <<>> THEN <<>> ELSE ParamsText(n)

RuleText(r) == <<r.c[1].k>> \o ArgsText(r.c[2]) \o Marked(r.c[3], ":")
ModifierText(m) ==
    CASE m.k = "primary key" -> <<"primary", "key">>
      [] m.k = "unique"      -> <<"unique">> \o Marked(m.c[1], ":")
      [] m.k = "default"     -> <<"default">> \o ExprText(m.c[1])
      [] m.k = "on update"   -> <<"on", "update">> \o ExprText(m.c[1])
      [] m.k = "rule"        -> RuleText(m)
      [] m.k \in {"as", "was"} -> <<m.k, m.c[1].k>>
      [] OTHER               -> <<m.k>>
IsAttribute(m) == m.k \in {"private", "server", "unique", "rule"}
ModifiersText(ms) ==
    FlattenSeq([j \in DOMAIN ms |->
        (IF j > 1 /\ IsAttribute(ms[j]) /\ IsAttribute(ms[j - 1]) THEN Comma ELSE <<>>) \o ModifierText(ms[j])])
ColumnText(c) == <<c.c[1].k>> \o TypeText(c.c[2]) \o ModifiersText(Rest(c, 3)) \o <<";">>

ActionText(event, n) ==
    Given(n, LET a == n.c[1].c[1] IN
             <<"on", event>> \o (CASE a.c # <<>>  -> <<a.k, a.c[1].k>>
                                   [] a.k = "no" -> <<"no", "action">>
                                   [] OTHER      -> <<a.k>>))
ConstraintText(c) ==
    (CASE c.k = "primary key" -> <<"primary", "key">> \o InParens(c)
       [] c.k = "foreign key" ->
             <<"foreign", "key">> \o InParens(c.c[1]) \o <<"references">> \o Dots(c.c[2].c) \o InParens(c.c[3])
             \o ActionText("delete", c.c[4]) \o ActionText("update", c.c[5])
       [] c.k = "unique" -> <<"unique">> \o InParens(c.c[1]) \o Clausal("where", c.c[2]) \o Marked(c.c[3], ":")
       [] c.k = "check"  -> <<"check", "(">> \o ExprText(c.c[1]) \o <<")">> \o Marked(c.c[2], ":")) \o <<";">>
IndexColumnText(k) == <<k.c[1].k>> \o (IF k.c[2].k = "yes" THEN <<"desc">> ELSE <<>>) \o NullsText(k.c[3])
IndexText(n) ==
    <<"index", "on", "(">> \o Commas(n.c[1].c, IndexColumnText) \o <<")">> \o Clausal("where", n.c[2])
    \o Marked(n.c[3], "using") \o <<";">>
HeadText(word, n) == <<word, n.c[1].k, "of">> \o Dots(n.c[2].c) \o Marked(n.c[3], "as")
TableText(n) ==
    HeadText("table", n) \o Marked(n.c[4], "was") \o <<"{">> \o Each(n.c[5].c, ColumnText)
    \o Each(n.c[6].c, ConstraintText) \o Each(n.c[7].c, IndexText) \o <<"}">>
DatabaseText(n) ==
    <<"database", n.c[1].k, ":", n.c[2].k>>
    \o (IF n.c[3].c = <<>> THEN <<";">>
        ELSE <<"{", "init", "(", ")", "{">> \o Each(n.c[3].c, AssignmentText) \o <<"}", "}">>)
ClassFieldText(f) ==
    <<f.c[1].k>> \o TypeText(f.c[2]) \o Given(f.c[3], <<"transient">>)
    \o (IF f.c[3].k = "some" /\ f.c[4].c # <<>> THEN Comma ELSE <<>>) \o Commas(f.c[4].c, RuleText) \o <<";">>

FunctionText(n) ==
    <<"function", n.c[1].k>> \o ParamsText(n.c[2]) \o Given(n.c[3], <<":">> \o TypeText(n.c[3].c[1]))
    \o (IF n.c[4].c = <<>> THEN <<>> ELSE <<"raises">> \o InParens(n.c[4])) \o Braced(n.c[5])
PolicyText(n) == Given(n, <<n.c[1].k, n.c[1].c[1].k>>)
MiddlewareText(n) ==
    <<"middleware", n.c[1].k>> \o OptParams(n.c[2]) \o ListText("requires", n.c[3])
    \o (IF n.c[4].c = <<>> THEN <<>> ELSE <<"provides">> \o Commas(n.c[4].c, ParamText))
    \o <<"{">> \o BlockText(n.c[5]) \o Given(n.c[6], <<"after">> \o Braced(n.c[6].c[1].c[1])) \o <<"}">>
RouteText(r) == <<"route", r.c[1].k, r.c[2].k>> \o ListText("use", r.c[3]) \o Braced(r.c[4])
ArmText(event, n) ==
    Given(n, LET arm == n.c[1].c IN
             <<"on", event>> \o (IF Len(arm) = 2 THEN <<"(", arm[1].k, ")">> ELSE <<>>) \o Braced(Last(arm)))
SocketText(s) ==
    <<"socket", s.c[1].k>> \o ListText("use", s.c[2]) \o <<"{">> \o ArmText("open", s.c[3])
    \o ArmText("message", s.c[4]) \o ArmText("close", s.c[5]) \o <<"}">>
BareText(r) == IF r.k = "route" THEN RouteText(r) ELSE SocketText(r)
CatchArmText(a) == <<"catch">> \o Given(a.c[1], <<a.c[1].c[1].k>>) \o <<"(", a.c[2].k, ")">> \o Braced(a.c[3])
GroupText(e) ==
    IF e.k = "section" THEN <<e.c[1].k, "{">> \o Each(e.c[2].c, AssignmentText) \o <<"}">> ELSE AssignmentText(e)

DeclText(d) ==
    LET c == d.c IN
    CASE d.k \in {"namespace", "import"} -> <<d.k>> \o Dots(c) \o <<";">>
      [] d.k = "database"   -> DatabaseText(d)
      [] d.k = "schema"     -> <<"schema", c[1].k, "of", c[2].k>> \o Marked(c[3], "as") \o <<";">>
      [] d.k = "table of"   -> TableText(d)
      [] d.k = "view"       -> HeadText("view", d) \o <<"{">> \o SelectText(c[4]) \o <<"}">>
      [] d.k = "enum"       -> <<"enum", c[1].k>> \o Given(c[2], <<"of">> \o Dots(c[2].c[1].c)) \o Marked(c[3], "as")
                               \o <<"{">> \o NamesText(Tree("list", Rest(d, 4))) \o <<"}">>
      [] d.k = "class"      -> <<"class", c[1].k, "{">> \o Each(Rest(d, 2), ClassFieldText) \o <<"}">>
      [] d.k = "error"      -> <<"error", c[1].k>> \o OptParams(c[2]) \o <<"=", c[3].k>> \o Marked(c[4], ":") \o <<";">>
      [] d.k = "service"    -> <<"service", c[1].k, "{">> \o Each(Rest(d, 2), FunctionText) \o <<"}">>
      [] d.k = "function"   -> FunctionText(d)
      [] d.k = "job"        -> <<"job", c[1].k>> \o ParamsText(c[2]) \o PolicyText(c[3]) \o PolicyText(c[4])
                               \o PolicyText(c[5]) \o Braced(c[6])
      [] d.k = "middleware" -> MiddlewareText(d)
      [] d.k = "routes"     -> <<"routes", c[1].k>> \o ListText("use", c[2]) \o <<"{">> \o Each(c[3].c, RouteText)
                               \o Each(c[4].c, SocketText) \o <<"}">>
      [] d.k = "bare"       -> BareText(c[1])
      [] d.k = "errorHandler" -> <<"errorHandler", "(", c[1].k, ")", "{">> \o Each(Rest(d, 2), CatchArmText) \o <<"}">>
      [] d.k = "server"     -> <<"server", "{">> \o Each(c, GroupText) \o <<"}">>
      [] d.k = "static"     -> <<"static", c[1].k, "from", c[2].k>> \o Marked(c[3], "cache") \o <<";">>
      [] d.k = "const"      -> Assigned(<<"const", c[1].k, "=">>, c[2], <<";">>)
      [] d.k = "test"       -> <<"test", c[1].k>> \o Braced(c[2])
FormatProgram(tree) == Each(tree.c, DeclText)
=============================================================================
