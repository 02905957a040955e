------------------------------- MODULE Grammar -------------------------------
(***************************************************************************)
(* The parser's cursor and the ways its functions go on (parser.rs): a step *)
(* reads a token, or looks at the tokens ahead and commits; no step goes    *)
(* back.  A grammar is a term that Parser reads a sequence of tokens by.    *)
(* Tokens are strings: contextual keywords are words like any other.        *)
(***************************************************************************)
EXTENDS Naturals, Sequences, SequencesExt

CONSTANTS
    Numbers,    \* integer literals, with their values
    Locals,     \* `@name` tokens, with their names
    Strings,    \* string literals, with their text
    Durations,  \* the string literals that are durations of 1s to 720h
    Junk        \* texts that are no token

Puncts == {"(", ")", "{", "}", "[", "]", ",", ";", ":", ".", "...", "?", "??", "=", "=?", "==", "==?",
           "!", "!=", "<", "<=", ">", ">=", "+", "-", "*", "/", "%", "+=", "-=", "*=", "/=", "->"}
Scalars == {"bigint", "int", "smallint", "numeric", "varchar", "text", "boolean", "timestamptz", "date",
            "time", "interval", "uuid", "jsonb", "inet", "bytea"}
Removed == {"entity", "dbcontext", "via", "nav", "validate", "new", "patch", "mount", "dome", "dbset"}
Methods == {"GET", "POST", "PUT", "PATCH", "DELETE", "HEAD", "OPTIONS"}
OpAssign == ("+=" :> "+") @@ ("-=" :> "-") @@ ("*=" :> "*") @@ ("/=" :> "/")
Eof == "<end>"

IsWord(t) ==
    t \notin Puncts \cup DOMAIN Numbers \cup DOMAIN Locals \cup DOMAIN Strings \cup Junk \cup {Eof}

\* What a class of tokens takes, and the leaf it makes of one.
Takes(class, t) ==
    CASE class = "word"     -> IsWord(t)
      [] class = "name"     -> IsWord(t) /\ t \notin Removed
      [] class = "removed"  -> t \in Removed
      [] class = "scalar"   -> t \in Scalars
      [] class = "method"   -> t \in Methods
      [] class = "number"   -> t \in DOMAIN Numbers
      [] class = "status"   -> t \in DOMAIN Numbers /\ Numbers[t] \in 100..599
      [] class = "attempts" -> t \in DOMAIN Numbers /\ Numbers[t] \in 1..100
      [] class = "string"   -> t \in DOMAIN Strings
      [] class = "duration" -> t \in Durations
      [] class = "local"    -> t \in DOMAIN Locals
      [] class = "variable" -> IsWord(t) \/ t \in DOMAIN Locals
      [] class = "literal"  -> t \in DOMAIN Numbers \cup DOMAIN Locals \cup DOMAIN Strings
      [] class = "source"   -> IsWord(t) \/ t \in DOMAIN Locals
      [] class = "opassign" -> t \in DOMAIN OpAssign
      [] class = "key"      -> IsWord(t) \/ t \in DOMAIN Strings

Tree(k, c) == [k |-> k, c |-> c]
Leaf(k) == Tree(k, <<>>)
Read(class, t) ==
    CASE class = "opassign"                     -> Leaf(OpAssign[t])
      [] class = "source" /\ t \in DOMAIN Locals -> Leaf(Locals[t])
      [] class = "key" /\ t \in DOMAIN Strings   -> Leaf(Strings[t])
      [] OTHER                                   -> Leaf(t)

\* Looks at the n-th token ahead.
Is(n, t) == [n |-> n, of |-> "token", t |-> t]
IsNot(n, t) == [n |-> n, of |-> "other", t |-> t]
IsA(n, class) == [n |-> n, of |-> "class", t |-> class]
Outside == [n |-> 0, of |-> "outside", t |-> ""]
FieldTarget == [n |-> 1, of |-> "target", t |-> ""]

T(t) == [op |-> "token", t |-> t]
Class(c) == [op |-> "class", class |-> c]
Put(v) == [op |-> "put", v |-> v]
Then(gs) == [op |-> "then", gs |-> gs]
When(looks, g) == [looks |-> looks, g |-> g]
Otherwise(g) == When({}, g)
First(alts) == [op |-> "first", alts |-> alts]
\* As many as begin the way one of the alternatives does.
Repeated(alts) == [op |-> "many", alts |-> alts]
Many(looks, g) == Repeated(<<When(looks, g)>>)
Node(k, g) == [op |-> "node", k |-> k, g |-> g]
Build(k, gs) == Node(k, Then(gs))
Rule(name) == [op |-> "rule", name |-> name]
InQuery(g) == [op |-> "query", g |-> g]
\* An operand, and what may follow it to make it the first child of a larger node.
Growing(looks, k, g) == [looks |-> looks, k |-> k, g |-> g]
Grow(g, alts, again) == [op |-> "grow", g |-> g, alts |-> alts, again |-> again]
\* Clauses that come in any order: all, the last, or at most one of each kind.
Gather(slots, g) == [op |-> "gather", slots |-> slots, g |-> g]
All(kinds) == [how |-> "all", kinds |-> kinds]
AllBut(kind) == [how |-> "rest", kinds |-> {kind}]
LastOf(kind) == [how |-> "last", kinds |-> {kind}]
OnceOf(kind) == [how |-> "once", kinds |-> {kind}]
\* Clauses of a fixed order.
Phased(phase, g) == [op |-> "phased", phase |-> phase, g |-> g]
\* `x += e` is `x = x + e`; a join with no binder is bound by its table's name.
Compound(g) == [op |-> "compound", g |-> g]
Bound(g) == [op |-> "bound", g |-> g]

Nothing == Then(<<>>)
Refused == First(<<>>)
Word == Class("word")
Maybe(looks, g) == First(<<When(looks, Node("some", g)), Otherwise(Put(Leaf("none")))>>)
Mark(looks, t) == First(<<When(looks, Then(<<T(t), Put(Leaf("yes"))>>)), Otherwise(Put(Leaf("no")))>>)
Flag(t) == Mark({Is(0, t)}, t)
Skip(t) == First(<<When({Is(0, t)}, T(t)), Otherwise(Nothing)>>)
Opt(t, g) == Maybe({Is(0, t)}, Then(<<T(t), g>>))
List(g) == Node("list", g)
Sep(g) == Then(<<g, Many({Is(0, ",")}, Then(<<T(","), g>>))>>)
\* A comma after the last one is taken.
Trailing(g, close) ==
    Then(<<g, Many({Is(0, ","), IsNot(1, close)}, Then(<<T(","), g>>)),
           Skip(",")>>)
Within(open, g, close) ==
    Then(<<T(open), First(<<When({Is(0, close)}, Nothing), Otherwise(g)>>), T(close)>>)
Until(close, g) == Many({IsNot(0, close)}, g)

Ahead(ts, i) == ts[IF i > Len(ts) THEN Len(ts) ELSE i]

RECURSIVE PathEnd(_, _)
PathEnd(ts, i) == IF Ahead(ts, i) = "." /\ IsWord(Ahead(ts, i + 1)) THEN PathEnd(ts, i + 2) ELSE i

Sees(l, q, ts, i) ==
    LET t == Ahead(ts, i + l.n) IN
    CASE l.of = "token"   -> t = l.t
      [] l.of = "other"   -> t # l.t
      [] l.of = "class"   -> Takes(l.t, t)
      [] l.of = "outside" -> ~q
      [] l.of = "target"  -> LET e == PathEnd(ts, i + 1) IN e > i + 1 /\ Ahead(ts, e) = "="

Guards(looks, q, ts, i) == \A l \in looks : Sees(l, q, ts, i)

Failed == [ok |-> FALSE, i |-> 0, v |-> <<>>]
Done(i, v) == [ok |-> TRUE, i |-> i, v |-> v]
\* The index of the first alternative taken, 0 for none.
Taken(alts, q, ts, i) == SelectInSeq(alts, LAMBDA a : Guards(a.looks, q, ts, i))

Slot(s, vs) ==
    LET mine == SelectSeq(vs, LAMBDA v : (v.k \in s.kinds) # (s.how = "rest")) IN
    CASE s.how \in {"all", "rest"} -> Tree("list", mine)
      [] mine = <<>>    -> Leaf("none")
      [] OTHER          -> Tree("some", <<Last(mine)>>)
Gathers(slots, vs) ==
    \A s \in Range(slots) : s.how = "once" => Cardinality({j \in DOMAIN vs : vs[j].k \in s.kinds}) <= 1
InOrder(phase, vs) == \A j \in DOMAIN vs : j > 1 => phase[vs[j - 1].k] <= phase[vs[j].k]

RECURSIVE Reads(_, _, _, _, _), ReadsAll(_, _, _, _, _), ReadsMany(_, _, _, _, _), Grows(_, _, _, _, _)
\* What reading term g from token i gives: the values, and where it ended.
Reads(rules, g, q, ts, i) ==
    LET inner == Reads(rules, g.g, q, ts, i) IN
    CASE g.op = "token"  -> IF Ahead(ts, i) = g.t THEN Done(i + 1, <<>>) ELSE Failed
      [] g.op = "class"  -> IF Takes(g.class, Ahead(ts, i))
                            THEN Done(i + 1, <<Read(g.class, ts[i])>>) ELSE Failed
      [] g.op = "put"    -> Done(i, <<g.v>>)
      [] g.op = "then"   -> ReadsAll(rules, g.gs, q, ts, Done(i, <<>>))
      [] g.op = "first"  -> LET a == Taken(g.alts, q, ts, i)
                            IN IF a = 0 THEN Failed ELSE Reads(rules, g.alts[a].g, q, ts, i)
      [] g.op = "many"   -> ReadsMany(rules, g, q, ts, Done(i, <<>>))
      [] g.op = "rule"   -> Reads(rules, rules[g.name], q, ts, i)
      [] g.op = "query"  -> Reads(rules, g.g, TRUE, ts, i)
      [] g.op = "grow"   -> Grows(rules, g, q, ts, inner)
      [] ~inner.ok       -> Failed
      [] g.op = "node"   -> Done(inner.i, <<Tree(g.k, inner.v)>>)
      [] g.op = "gather" -> IF Gathers(g.slots, inner.v)
                            THEN Done(inner.i, [s \in DOMAIN g.slots |-> Slot(g.slots[s], inner.v)])
                            ELSE Failed
      [] g.op = "phased" -> IF InOrder(g.phase, inner.v) THEN inner ELSE Failed
      [] g.op = "compound" -> Done(inner.i, <<inner.v[1], Tree(inner.v[2].k, <<inner.v[1], inner.v[3]>>)>>)
      [] g.op = "bound"  -> Done(inner.i, IF Len(inner.v) = 1 THEN Append(inner.v, Last(inner.v[1].c)) ELSE inner.v)

ReadsAll(rules, gs, q, ts, r) ==
    IF ~r.ok \/ gs = <<>> THEN r
    ELSE LET s == Reads(rules, Head(gs), q, ts, r.i)
         IN IF s.ok THEN ReadsAll(rules, Tail(gs), q, ts, Done(s.i, r.v \o s.v)) ELSE Failed

ReadsMany(rules, g, q, ts, r) ==
    LET a == Taken(g.alts, q, ts, r.i)
        s == Reads(rules, g.alts[a].g, q, ts, r.i)
    IN  CASE a = 0 -> r
          [] ~s.ok -> Failed
          [] OTHER -> ReadsMany(rules, g, q, ts, Done(s.i, r.v \o s.v))

Grows(rules, g, q, ts, r) ==
    LET a == IF r.ok THEN Taken(g.alts, q, ts, r.i) ELSE 0
        s == Reads(rules, g.alts[a].g, q, ts, r.i)
        larger == Done(s.i, <<Tree(g.alts[a].k, r.v \o s.v)>>)
    IN  CASE a = 0   -> r
          [] ~s.ok   -> Failed
          [] g.again -> Grows(rules, g, q, ts, larger)
          [] OTHER   -> larger
=============================================================================
