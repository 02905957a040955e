------------------------------- MODULE MCSyntax -------------------------------
(***************************************************************************)
(* Small files: every form of expression and query as the operand of every   *)
(* other, bare and in parentheses, and each statement and declaration.       *)
(***************************************************************************)
EXTENDS Reformat

P(e) == <<"(">> \o e \o <<")">>
Table3 == <<"A", ".", "b", ".", "c">>
From == <<"select", "t", "from">> \o Table3
Joined1 == <<"left", "join">> \o Table3 \o <<"j", "on", "a">>
OfTable == <<"update", "t", "of">> \o Table3 \o <<"set", "n", "=", "1">>
FromTable == <<"delete", "t", "from">> \o Table3
IntoTable == <<"insert", "t", "into">> \o Table3 \o <<"{", "n", "=", "1", "}">>
Arm1 == <<"catch", "E", "(", "e", ")", "{", "return", ";", "}">>

Selects == {From \o q : q \in {
    <<>>, <<"where", "a">>, <<"first">>, <<"where", "a", "first">>, <<"limit", "1">>, <<"orderby", "a">>,
    <<"orderby", "a", "desc", "nulls", "last", ",", "b", "limit", "2">>, <<"page", "after", "a", "size", "1", "max", "2">>,
    <<"page", "size", "1", "limit", "2">>, <<"group", "by", "a", ",", "b">>, <<"group", "by", "a", "having", "b">>,
    <<"as", "{", "t", ".", "n", ",", "m", ":", "a", ",", "o", ":", "{", "n", "}", "}">>,
    <<"as", "{", "m", ":", "(", "{", "k", ":", "a", "}", ")", ".", "k", "}">>,
    <<"as", "{", "n", ",", "}", "orderby", "a">>, <<"orderby", "a", "as", "{", "n", "}">>,
    <<"where", "a", "where", "b">>, <<"limit", "1", "first">>}}
    \cup {From \o Joined1 \o q : q \in {
    <<>>, <<"where", "a">>, <<"as", "one", "n">>, <<"as", "many", "n", "under", "m", "orderby", "b", "limit", "2">>,
    <<"as", "many", "n", "orderby", "b", "asc">>, <<"as", "group">>, <<"as", "group", "limit", "1">>, <<"as", "one", "n", "where", "b">>,
    <<"where", "(", "exists", "(", "a", ")", ")">>, <<"where", "exists", "(", "a", ")">>,
    <<"where", "exists", "(", "a", ")", "where", "b">>, <<"inner", "join">> \o Table3 \o <<"on", "b", "as", "one", "n">>}}
Writes == {OfTable \o w : w \in {<<>>, <<",", "m", "=?", "2">>, <<",", "...", "@x", "except", "(", "n", ")">>,
    <<"where", "a">>, <<"where", "a", "as", "{", "n", "}">>, <<"where", "a", "orderby", "b", "first">>, <<"orderby", "b">>}}
    \cup {FromTable \o w : w \in {<<>>, <<"where", "a">>, <<"first">>, <<"as", "{", "n", "}">>}}
    \cup {IntoTable \o w : w \in {<<>>, <<"buffered">>, <<"as", "{", "n", "}">>, <<"as", "{", "n", "}", "buffered">>,
    <<"on", "conflict", "do", "nothing">>, <<"on", "conflict", "(", "n", ")", "do", "update", "set", "n", "=", "2">>,
    <<"on", "conflict", "do", "nothing", "buffered">>}}
    \cup {<<"insert", "t", "into">> \o Table3 \o <<"{", "'a-b'", "=", "1", "}">> \o w :
              w \in {<<>>, <<"buffered">>, <<"as", "{", "n", "}">>}}
    \cup {<<"insert", "t", "into">> \o Table3 \o <<"{", "'a-b'", ":", "1", ",", "n", "=", "2", ",", "...", "@x", "}">> \o w :
              w \in {<<>>, <<"buffered">>, <<"on", "conflict", "do", "nothing">>}}
    \cup {<<"insert", "into">> \o Table3 \o <<"{", "}">>}
Queries1 == Selects \cup Writes

Atoms == {
    <<"a">>, <<"@x">>, <<"1">>, <<"'s'">>, <<"f", "(", ")">>, <<"count", "(", "a", "where", "b", ")">>, <<"a", ".", "b">>,
    <<"a", "[", "1", "]">>, <<"exists", "(", "a", ")">>, <<"{", "}">>, <<"[", "a", ",", "b", "]">>,
    <<"{", "k", ":", "a", ",", "'a-b'", ":", "1", ",", "...", "a", ",", "}">>, <<"{", "'a.b'", "=", "1", "}">>}
Forms == {
    <<"a", ".", "b", "?">>, <<"a", "as", "T">>, <<"-", "a">>, <<"a", "*", "b">>, <<"a", "-", "b">>, <<"a", "==", "b">>, <<"a", "ilike", "b">>,
    <<"a", "in", "(", "1", ",", "2", ")">>, <<"a", "not", "in", "(", ")">>, <<"not", "exists", "(", "a", ")">>, <<"not", "a", ".", "b">>,
    <<"a", "and", "b">>, <<"a", "or", "b">>, <<"a", "?", "b", ":", "c">>, <<"a", "??", "b">>, <<"a", "or", "throw", "E", "(", "b", ",", "1", ")">>,
    <<"a">> \o Arm1, <<"a", "with", "{", "'a-b'", ":", "1", "}">>, <<"a", "cookie", "(", "1", ")", "cookie", "(", "2", ")">>,
    <<"a", "or", "throw", "E">> \o Arm1}
Askings == {From, From \o <<"where", "a">>, From \o <<"orderby", "a", "first">>, OfTable, FromTable, IntoTable}
Operands1 == Atoms \cup Forms \cup Askings \cup {P(e) : e \in Forms \cup Askings}
Fillers == Operands1 \cup Queries1

\* A form, and the operand put into it.
Around == {
    <<<<"-">>, <<>>>>, <<<<"!">>, <<>>>>, <<<<>>, <<".", "d">>>>, <<<<>>, <<"(", "d", ")">>>>, <<<<>>, <<"[", "d", "]">>>>,
    <<<<>>, <<"as", "T">>>>, <<<<"f", "(">>, <<",", "d", ")">>>>, <<<<"f", "(">>, <<"where", "d", ")">>>>,
    <<<<"[">>, <<",", "d", "]">>>>, <<<<"{", "k", ":">>, <<",", "m", ":", "d", "}">>>>,
    <<<<>>, <<"in", "(", "d", ")">>>>, <<<<"d", "not", "in", "(">>, <<",", "d", ")">>>>,
    <<<<>>, <<"?", "d", ":", "d">>>>, <<<<"d", "?">>, <<":", "d">>>>, <<<<"d", "?", "d", ":">>, <<>>>>,
    <<<<>>, <<"or", "throw", "E">>>>, <<<<>>, Arm1>>, <<<<>>, <<"with", "{", "k", ":", "d", "}">>>>, <<<<>>, <<"cookie", "(", "d", ")">>>>,
    <<From \o <<"where">>, <<"orderby", "d">>>>, <<From \o <<"orderby">>, <<"desc">>>>, <<From \o <<"limit">>, <<>>>>,
    <<From \o <<"as", "{", "m", ":">>, <<",", "n", "}">>>>, <<From \o <<"left", "join">> \o Table3 \o <<"on">>, <<"as", "one", "n">>>>,
    <<<<"update", "t", "of">> \o Table3 \o <<"set", "n", "=">>, <<"where", "d">>>>}
    \cup {<<<<>>, <<op, "d">>>> : op \in {"*", "-", "<", "and", "or", "??"}}
    \cup {<<<<"d", op>>, <<>>>> : op \in {"*", "-", "<", "and", "or", "??"}}
Nested == {w[1] \o e \o w[2] : w \in Around, e \in Operands1}

InTest(s) == <<"test", "'s'", "{">> \o s \o <<"}">>
Bound1(e) == InTest(<<"let", "v", "=">> \o e \o <<";">>)
Done1(e) == InTest(e \o <<";">>)
Kept(e) == <<"const", "K", "=">> \o e \o <<";">>

Statements == {
    <<"let", "v", ":", "int", "[", "]", "?", "=", "1", ";">>, <<"@x", "=", "1", ";">>, <<"a", "-=", "b", "-", "c", ";">>,
    <<"@x", "*=", "b", "+", "c", ";">>, <<"a", ".", "b", ".", "c", "=", "1", ";">>, <<"context", ".", "k", "=", "1", ";">>,
    <<"context", ".", "k", ".", "m", "=", "1", ";">>, <<"if", "(", "a", ")", "{", "b", ";", "}">>,
    <<"if", "(", "a", ")", "{", "}", "else", "if", "(", "b", ")", "{", "}", "else", "{", "c", ";", "}">>,
    <<"for", "(", "let", "i", "in", "a", ")", "{", "break", ";", "continue", ";", "}">>, <<"for", "(", "i", "in", "a", ")", "{", "}">>,
    <<"while", "(", "a", ")", "{", "return", "b", ";", "}">>, <<"return", ";">>, <<"throw", "E", ";">>, <<"throw", "E", "(", "1", ")", ";">>,
    <<"dispatch", "J", "(", "k", ":", "1", ",", "m", ":", "a", ")", ";">>, <<"transaction", "{", "a", ";", "}">>,
    <<"assert", "a", "==", "b", ";">>, <<"assert", "fails", "{", "}">>, <<"assert", "fails", "E", "{", "}", "with", "'s'", ";">>,
    <<"-", "-", "a", ";">>, <<"-", "(", "-", "a", ")", ";">>, <<"break", "+", "1", ";">>, <<"validate", ";">>, <<"return", "validate", ";">>}
Declarations == {
    <<"namespace", "A", ".", "b", ";", "import", "C", ";">>, <<"database", "A", ":", "pg", ";">>,
    <<"database", "A", ":", "pg", "{", "init", "(", ")", "{", "url", "=", "env", "(", "'s'", ")", ";", "}", "}">>,
    <<"database", "A", ":", "pg", "{", "}">>, <<"schema", "b", "of", "A", "as", "'s'", ";">>,
    <<"table", "T", "of", "A", ".", "b", "as", "'s'", "was", "'s'", "{", "index", "on", "(", "n", "desc", "nulls", "first", ")",
      "where", "a", "using", "gin", ";", "n", "int", "primary", "key", ",", "identity", ";", "}">>,
    <<"table", "T", "of", "A", ".", "b", "{", "foreign", "key", "(", "n", ")", "references">> \o Table3 \o
        <<"(", "m", ")", "on", "update", "set", "null", "on", "delete", "no", "action", "on", "update", "cascade", ";",
          "unique", "(", "n", ",", "m", ")", "where", "a", ":", "'s'", ";", "check", "(", "a", ")", ":", "'s'", ";", "}">>,
    <<"table", "T", "of", "A", ".", "b", "{", "unique", "(", "n", ")", "where", "a", ".", "b", "?", ":", "'s'", ";", "}">>,
    <<"table", "T", "of", "A", ".", "b", "{", "unique", "(", "n", ")", "where", "(", "a", ".", "b", "?", ")", ":", "'s'", ";", "}">>,
    <<"table", "T", "of", "A", ".", "b", "{", "n", "numeric", "(", "2", ",", "1", ")", "default", "f", "(", ")", "on", "update", "a",
      "private", ",", "server", "min", "(", "1", ")", ":", "'s'", ",", "unique", ":", "'s'", "as", "'s'", ";",
      "primary", "key", "(", "n", ")", ";", "}">>,
    <<"enum", "K", "of", "A", ".", "b", "as", "'s'", "{", "p", ",", "q", ",", "}">>, <<"enum", "K", "{", "}">>,
    <<"view", "V", "of", "A", ".", "b", "{">> \o From \o <<"first", ";", "}">>,
    <<"class", "C", "{", "n", "text", "?", ",", "email", ",", "transient", "max", "(", "2", ")", ";", "m", "A", ".", "b", ";", "}">>,
    <<"error", "E", "(", "k", ":", "int", ")", "=", "404", ":", "'s'", ";">>, <<"error", "E", "=", "2", ";">>,
    <<"service", "S", "{", "function", "f", "(", "k", ":", "{", "p", ":", "int", "}", "=", "1", ")", ":", "T", "raises", "(", "E", ",", "F", ")", "{", "}", "}">>,
    <<"function", "f", "(", ")", "->", "T", "{", "}">>, <<"job", "J", "(", ")", "every", "'30s'", "retries", "2", "{", "}">>,
    <<"job", "J", "(", "k", ":", "int", ")", "backoff", "'30s'", "retries", "2", "{", "}">>,
    <<"job", "J", "(", "k", ":", "int", ")", "every", "'30s'", "{", "}">>, <<"job", "J", "(", ")", "retries", "404", "{", "}">>,
    <<"middleware", "M", "(", "@x", ":", "int", ")", "requires", "N", ",", "O", "provides", "k", ":", "int", "{", "a", ";", "after", "{", "b", ";", "}",
      "c", ";", "}">>,
    <<"routes", "'s'", "use", "M", ",", "N", "{", "socket", "'s'", "{", "on", "close", "{", "}", "on", "message", "(", "m", ")", "{", "}", "}",
      "route", "GET", "'s'", "use", "M", "{", "return", "a", ";", "}", "}">>,
    <<"route", "POST", "'s'", "{", "}">>, <<"route", "FETCH", "'s'", "{", "}">>, <<"socket", "'s'", "{", "on", "open", "{", "}", "}">>, <<"socket", "'s'", "{", "}">>,
    <<"errorHandler", "(", "e", ")", "{", "catch", "E", "(", "x", ")", "{", "}", "catch", "(", "x", ")", "{", "}", "}">>,
    <<"server", "{", "port", "=", "1", ";", "tls", "{", "cert", "=", "'s'", ";", "}", "}">>,
    <<"static", "'s'", "from", "'s'", "cache", "2", ";">>, <<"static", "'s'", "from", "'s'", ";">>}

SmallFiles == {Bound1(e) : e \in Nested} \cup {Done1(e) : e \in Fillers} \cup {Kept(e) : e \in Queries1}
    \cup {InTest(s) : s \in Statements} \cup Declarations
=============================================================================
