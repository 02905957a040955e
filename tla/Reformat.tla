------------------------------- MODULE Reformat -------------------------------
(***************************************************************************)
(* `jwc fmt` on a file (cmd/mod.rs), and what it owes the author: the file   *)
(* it leaves says what the file it found said.                              *)
(***************************************************************************)
EXTENDS Formatter

VARIABLE file

RECURSIVE Inserts(_)
Inserts(n) == (IF n.k = "insert" /\ n.c # <<>> THEN {n} ELSE {}) \cup UNION {Inserts(m) : m \in Range(n.c)}
\* Any of its inserts may be too long for a line: a name may have any length.
Widths(text) == LET tree == Parse(text) IN IF tree = <<>> THEN {{}} ELSE SUBSET Inserts(tree[1])

ReformatInit(files) == file \in files /\ wide \in Widths(file)
\* A file that does not parse is left alone.
JwcFmt ==
    LET tree == Parse(file) IN
    /\ tree # <<>>
    /\ file' = FormatProgram(tree[1])
    /\ wide' \in Widths(file')

ReformatTypeOK == (\A j \in DOMAIN file : file[j] \in STRING) /\ \A n \in wide : n.k = "insert"

(***************************************************************************)
(* The trees the printer has no text for.  Names that are statement words   *)
(* (`return`, `let`) at the head of an expression are left out of the files. *)
(***************************************************************************)
Postfixes == <<"or throw", "catch", "with", "cookie">>
IsQuery(n) == n.k \in {"select", "insert", "update", "delete"} /\ n.c # <<>>
\* Printed at the precedence of a name, and read at the lowest.
Unwrapped(n) == IsQuery(n) \/ (n.k \in Range(Postfixes) /\ n.c # <<>>)
Operands(n) ==
    CASE n.k \in Binary \cup {"??"} -> {1, 2}
      [] n.k = "? :" -> 1..3
      [] n.k \in {"!", "neg", "field", "index", "call", "cast", "in", "not in"} -> {1}
      [] OTHER -> {}
OperandLoose(n) == \E j \in Operands(n) : Unwrapped(n.c[j])
\* Postfix forms are read in one order; only a cookie repeats.
PostfixLoose(n) ==
    \E i, j \in DOMAIN Postfixes :
        /\ n.k = Postfixes[i] /\ n.c[1].k = Postfixes[j]
        /\ IF n.k = "cookie" THEN i < j ELSE i <= j
Membership == {"in", "not in", "exists", "not exists"}
CompareLoose(n) == n.k \in Compares /\ n.c[1].c # <<>> /\ n.c[1].k \in Compares \cup Membership

EndsIn(text, back, t) == Len(text) > back /\ text[Len(text) - back] = t
\* `a.b ? x : y` reads `b?`, and `b? : y` does not.
NullableLoose(n) ==
    \/ n.k = "? :" /\ (EndsIn(Wrap(n.c[1], 3), 1, ".") \/ EndsIn(Wrap(n.c[2], 2), 0, "?"))
    \/ n.k = "unique" /\ Len(n.c) = 3 /\ n.c[3].k = "some" /\ EndsIn(Clausal("where", n.c[2]), 0, "?")

\* How a query's last clause ends: in an expression, or in a list of them.
JoinEnding(j) ==
    LET r == j.c[5].c[1] IN
    CASE j.c[5].k = "none"    -> {"open"}
      [] r.k = "group"        -> {}
      [] r.c[4].k = "some"    -> {"open"}
      [] r.c[3].c # <<>>      -> {"listed"}
      [] OTHER                -> {}
SelectEnding(c) ==
    CASE c[11].k = "some"                      -> {}
      [] c[9].k = "some" \/ c[10].k = "some"   -> {"open"}
      [] c[8].k = "some"                       -> {"listed"}
      [] c[7].k = "some"                       -> {}
      [] c[6].k = "some"                       -> {"open"}
      [] c[5].c # <<>>                         -> {"open", "listed"}
      [] c[4].k = "some"                       -> {"open"}
      [] c[3].c # <<>>                         -> JoinEnding(Last(c[3].c))
      [] OTHER                                 -> {}
WriteEnding(cs, head) ==
    CASE cs[4].k = "yes"   -> {}
      [] cs[3].c # <<>>    -> {"listed"}
      [] cs[2].k = "some"  -> {}
      [] cs[1].k = "some"  -> {"open"}
      [] OTHER             -> head
Ending(q) ==
    CASE q.k = "select" -> SelectEnding(q.c)
      [] q.k = "update" -> WriteEnding(SubSeq(q.c, 4, 7), {"open", "listed"})
      [] q.k = "delete" -> WriteEnding(SubSeq(q.c, 3, 6), {})
      [] q.c[4].k = "some" /\ q.c[5].k = "none" /\ q.c[6].k = "no" /\ q.c[4].c[2].k = "some" -> {"open", "listed"}
      [] OTHER -> {}
\* What follows a query is read as more of it.
Value(n) ==
    CASE n.k \in {":", "arg", "computed"} /\ n.c # <<>> -> n.c[2]
      [] n.k = "param" /\ n.c # <<>> /\ Last(n.c).k = "some" -> Last(n.c).c[1]
      [] OTHER -> n
Holders == {"where", "having", "group", "limit", "key", "page", "left", "inner", "one", "many", "update", "delete"}
QueryLoose(n) ==
    \/ n.k \in {"or throw", "catch"} /\ IsQuery(n.c[1]) /\ "open" \in Ending(n.c[1])
    \/ n.k \in {"list", "shape"} /\ \E j \in 1..(Len(n.c) - 1) :
            IsQuery(Value(n.c[j])) /\ "listed" \in Ending(Value(n.c[j]))
    \/ n.k \in Holders /\ \E m \in Range(n.c) : IsQuery(m) \/ (m.k = "some" /\ IsQuery(m.c[1]))
    \/ n.k \in {"=", "=?"} /\ IsQuery(n.c[2])
    \/ n.k = "call" /\ n.c[3].k = "some" /\ IsQuery(Last(n.c[2].c))

Starts(n, word) == n.k = "some" /\ Head(ExprText(n.c[1])) = word
ClauseLoose(n) ==
    \/ n.k = "select" /\ n.c[9].k = "some" /\ n.c[10].k = "some"
    \/ n.k = "group" /\ Len(n.c) = 3 /\ (n.c[1].k = "some" \/ n.c[2].c # <<>> \/ n.c[3].k = "some")
    \/ n.k \in {"left", "inner"} /\ Starts(n.c[4], "exists")
    \/ /\ n.k = "select" /\ n.c[3].c # <<>> /\ n.c[4].k = "some"
       /\ Last(n.c[3].c).c[4].k = "none" /\ Last(n.c[3].c).c[5].k = "none"
       /\ ~Starts(Inner(n.c[4]), "exists")
    \/ n.k = "computed" /\ Head(ExprText(n.c[2])) = "{"
KeyLoose(n) == n.k \in {":", "="} /\ ~IsWord(n.c[1].k) /\ n.c[1].k \notin Spaced

\* A statement prints the write it ends in clause by clause.
RECURSIVE Peeled(_)
Peeled(n) == IF n.k \in {"or throw", "catch"} /\ n.c # <<>> THEN Peeled(n.c[1]) ELSE n
WriteLoose(q) ==
    \/ /\ q.k = "insert" /\ Broken(q)
       /\ \/ q.c[6].k = "yes" /\ (q.c[4].k = "some" \/ q.c[5].k = "some")
          \/ \E e \in Range(q.c[3].c) : e.k = "=" /\ e.c[1].k \in Spaced
    \/ q.k = "update" /\ WriteTailText(SubSeq(q.c, 4, 7)) = <<>>
    \/ q.k = "delete" /\ WriteTailText(SubSeq(q.c, 3, 6)) = <<>>
Ended(n) == LET v == Last(n.c) IN IF v.k = "some" THEN v.c[1] ELSE v
StatementLoose(n) ==
    \/ n.k \in {"let", "assign", "return", "expr", "const"} /\ IsQuery(Peeled(Ended(n))) /\ WriteLoose(Peeled(Ended(n)))
    \/ n.k = "expr" /\ LET text == ExprText(n.c[1]) IN Len(text) > 1 /\ text[1] = "-" /\ text[2] = "-"

RECURSIVE Loose(_)
Loose(n) ==
    /\ n.c # <<>>
    /\ \/ OperandLoose(n) \/ PostfixLoose(n) \/ CompareLoose(n) \/ NullableLoose(n)
       \/ QueryLoose(n) \/ ClauseLoose(n) \/ KeyLoose(n) \/ StatementLoose(n)
       \/ \E m \in Range(n.c) : Loose(m)

\* `jwc fmt` leaves a file that reads as the one it found, unless that has a
\* part the printer has no text for.
FormatKeepsProgram ==
    [][LET tree == Parse(file) IN tree # <<>> /\ ~Loose(tree[1]) => Parse(file') = tree]_file
=============================================================================
