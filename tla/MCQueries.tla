----------------------------- MODULE MCQueries -----------------------------
(***************************************************************************)
(* Queries of orgs, their owner (one), their members (many) and the         *)
(* members' accounts, on databases with ties, nulls and rows that match     *)
(* nothing.                                                                 *)
(***************************************************************************)
EXTENDS Paging

Shows(c) == [as |-> c, is |-> "column", col |-> c]
Nested(as, shape) == [as |-> as, is |-> "nested", shape |-> shape]
CountOf(as, e, distinct, where) == [as |-> as, is |-> "count", e |-> e, distinct |-> distinct, where |-> where]
Key(c, desc) == [col |-> c, desc |-> desc, nulls |-> "default"]
JoinOf(kind, table, binder, on, where, as, name, under, orderby, limit) ==
    [kind |-> kind, table |-> table, binder |-> binder, on |-> on, where |-> where, as |-> as,
     name |-> name, under |-> under, orderby |-> orderby, limit |-> limit]

Owner(kind) == JoinOf(kind, "accounts", "A", Cmp("=", Col("A", "id"), Col("O", "owner")), True, "one", "owner", NoName, <<>>, NoLimit)
Members(where, order, limit) ==
    JoinOf("left", "members", "M", Cmp("=", Col("M", "org"), Col("O", "id")), where, "many", "members", NoName, order, limit)
Account(kind, under) ==
    JoinOf(kind, "accounts", "B", Cmp("=", Col("B", "id"), Col("M", "account")), True, "one", "account", under, <<>>, NoLimit)
Counted(kind, b) == JoinOf(kind, "members", b, Cmp("=", Col(b, "org"), Col("O", "id")), True, "group", NoName, NoName, <<>>, NoLimit)
ByRole == <<Key(Col("M", "role"), TRUE)>>

OfOrgs(joins, where, shape, order, bound) ==
    [table |-> "orgs", binder |-> "O", joins |-> joins, where |-> where, groupby |-> <<>>,
     shape |-> shape, orderby |-> order, bound |-> bound]

OrgShown == <<Shows("id"), Shows("rank")>>
OwnerShown == Nested("owner", <<Shows("id"), Shows("name")>>)
MembersShown(inner) == Nested("members", <<Shows("id")>> \o inner)
AccountShown == Nested("account", <<Shows("name")>>)

Rank == Col("O", "rank")
Wheres == {True, Cmp("=", Rank, Value(1)), No(Cmp("=", Col("O", "note"), Value(1))), IfGiven(Rank, Null),
           Exists("members", "X", Both(Cmp("=", Col("X", "org"), Col("O", "id")), Cmp("=", Col("X", "role"), Value(1))))}
OwnerWheres == {Cmp("=", Col("A", "name"), Value(1)), OneOf(Col("A", "name"), {1}), IsNull(Col("owner", "name")),
                Either(IsNull(Col("O", "note")), Cmp("=", Col("A", "name"), Value(1)))}
Orders == {<<>>, <<Key(Rank, FALSE)>>, <<Key(Rank, TRUE), Key(Col("O", "id"), FALSE)>>, <<Key(Col("O", "note"), FALSE)>>}
Bounds == {Unbounded, Limit(1), First, Page(0, 2), Page(3, 2)}

Flat == {OfOrgs(<<>>, w, OrgShown, o, b) : w \in Wheres \cup {Cmp("=", Col("O", "id"), Value(2))}, o \in Orders, b \in Bounds}
Owned == {OfOrgs(<<Owner(k)>>, w, s, o, b) : k \in {"left", "inner"}, w \in OwnerWheres \cup {True},
             s \in {OrgShown, OrgShown \o <<OwnerShown>>}, o \in {<<Key(Rank, FALSE)>>, <<Key(Col("owner", "name"), FALSE)>>, <<Key(Col("owner", "id"), FALSE)>>,
                   <<Key(Rank, TRUE), Key(Col("A", "code"), TRUE)>>},
             b \in {Unbounded, Limit(1), Page(1, 2)}}
HeadOf(kind) == JoinOf(kind, "accounts", "G", Cmp("=", Col("G", "id"), Col("A", "name")), True, "one", "head", "owner", <<>>, NoLimit)
Chained == {OfOrgs(<<Owner(j), HeadOf(k)>>, w, OrgShown \o <<Nested("owner", <<Shows("id")>> \o s)>>, <<Key(Rank, FALSE), Key(Col("O", "id"), FALSE)>>, b) :
              j \in {"left", "inner"}, k \in {"left", "inner"}, s \in {<<>>, <<Nested("head", <<Shows("code")>>)>>},
              w \in {True, Cmp("=", Col("G", "code"), Value(2))}, b \in {Unbounded, Page(1, 2)}}
Listed == {OfOrgs(<<Members(w, ByRole, l)>>, v, OrgShown \o <<MembersShown(<<>>)>>, o, b) :
              w \in {True, Cmp("=", Col("M", "role"), Value(1))}, l \in {NoLimit, 1}, v \in {True, Cmp("=", Rank, Value(1))},
              o \in Orders, b \in Bounds}
Deep == {OfOrgs(<<Owner(j), Members(True, ByRole, NoLimit), Account(k, u)>>, w, OrgShown \o <<OwnerShown, MembersShown(<<AccountShown>>)>>, <<Key(Rank, FALSE), Key(Col("O", "id"), TRUE)>>, b) :
              j \in {"left", "inner"}, k \in {"left", "inner"}, u \in {NoName, "members", "M", "owner"}, w \in {True, Cmp("=", Col("A", "name"), Value(1))},
              b \in {Unbounded, Page(1, 2)}}
Peers(l) == JoinOf("left", "members", "P", Cmp("=", Col("P", "role"), Col("M", "role")), True, "many", "peers", NoName, <<Key(Col("P", "id"), TRUE)>>, l)
Roles(w) == JoinOf("left", "members", "R", Cmp("=", Col("R", "account"), Col("A", "id")), w, "many", "roles", NoName, <<Key(Col("R", "role"), FALSE)>>, NoLimit)
Hung == {OfOrgs(<<Owner(j), Roles(w), Members(True, ByRole, l), Peers(1)>>, v,
             OrgShown \o <<Nested("owner", <<Shows("id"), Nested("roles", <<Shows("org")>>)>>), MembersShown(<<Nested("peers", <<Shows("id")>>)>>)>>, <<Key(Col("O", "id"), TRUE)>>, b) :
              j \in {"left", "inner"}, w \in {True, Cmp(">", Col("R", "org"), Value(1))}, l \in {NoLimit, 1}, v \in {True, Cmp("=", Col("A", "name"), Value(1))},
              b \in {Unbounded, Page(1, 2)}}
Grouped == {[OfOrgs(js, w, <<Shows("id"), CountOf("n", Col("M", "id"), d, f)>>, <<Key(Col("O", "id"), FALSE)>>, b) EXCEPT !.groupby = <<Col("O", "id")>>] :
              js \in {<<Counted("left", "M")>>, <<Counted("inner", "M")>>, <<Counted("left", "M"), Counted("left", "X")>>},
              w \in {True, Cmp("=", Rank, Value(1))}, d \in BOOLEAN, f \in {True, Cmp("=", Col("M", "role"), Value(1))},
              b \in {Unbounded, Limit(1)}}
Totals == {OfOrgs(<<>>, w, <<CountOf("n", Col("O", "note"), d, True)>>, <<>>, b) : w \in Wheres, d \in BOOLEAN, b \in {Unbounded, First}}
SmallQueries == Flat \cup Owned \cup Chained \cup Listed \cup Deep \cup Hung \cup Grouped \cup Totals

Org(id, rank, note, owner) == [id |-> id, rank |-> rank, note |-> note, owner |-> owner]
SmallDatabases ==
    [orgs : {{}, {Org(1, 1, 1, Null), Org(2, 1, Null, 1), Org(3, 2, 2, 2)},
                 {Org(1, 2, 1, 1), Org(2, 1, 2, 2)}, {Org(1, 1, Null, 2), Org(2, 1, 1, 2), Org(3, 1, Null, 1)}},
     accounts : {{[id |-> 1, name |-> 1, code |-> 2], [id |-> 2, name |-> Null, code |-> 2]}},
     members : {{}, {[id |-> 1, org |-> 1, role |-> 1, account |-> 1], [id |-> 2, org |-> 1, role |-> 2, account |-> Null],
                     [id |-> 3, org |-> 2, role |-> 1, account |-> 2]},
                    {[id |-> 1, org |-> 3, role |-> 1, account |-> 1], [id |-> 2, org |-> 3, role |-> 1, account |-> 1]}}]
SmallFresh == [orgs |-> {Org(4, 1, 1, 1)}]
SmallHeaps == {<<1, 2, 3, 4>>, <<4, 3, 2, 1>>}
SmallNullable == {<<"orgs", "note">>, <<"orgs", "owner">>, <<"members", "account">>, <<"accounts", "name">>}

Plainest == OfOrgs(<<>>, True, OrgShown, <<>>, Unbounded)
=============================================================================
