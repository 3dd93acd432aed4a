----------------------------- MODULE MCWebAdmin -----------------------------
(***************************************************************************)
(* Instances of WebAdmin: the tables and the requests that meet.           *)
(***************************************************************************)
EXTENDS WebAdmin, TLC

CONSTANTS r1, r2, r3, r4, r5

MCLinks == {Link(TRUE, p, b) : p \in BOOLEAN, b \in {None, Garbled, "b3"}}

Page(v, script, message, canonical, embedded, names) ==
    [verify |-> v, script |-> script, message |-> message, canonical |-> canonical,
     embedded |-> embedded, names |-> names]
Visit(opens, loads, closes, final, page) ==
    [opens |-> opens, loads |-> loads, closes |-> closes, final |-> final, page |-> page]
PlainPage == Page(FALSE, "b3", NoLink, <<>>, Link(TRUE, TRUE, "b2"), <<None, "author">>)

\* Addresses a visit may end at, and pages it may show.
MCVisits ==
    {Visit(o, l, c, Link(TRUE, TRUE, None), PlainPage) : o \in BOOLEAN, l \in BOOLEAN, c \in BOOLEAN}
    \cup {Visit(TRUE, TRUE, TRUE, Link(s, p, b), Page(v, x, NoLink, <<>>, Link(TRUE, TRUE, "b2"), <<None>>)) :
             s \in BOOLEAN, p \in BOOLEAN, b \in {None, Garbled, "b1"}, v \in BOOLEAN, x \in {None, "b3"}}
    \cup {Visit(TRUE, TRUE, TRUE, Link(TRUE, TRUE, None),
                Page(FALSE, x, Link(TRUE, p, m), <<Link(s, TRUE, h), Link(TRUE, TRUE, n)>>,
                     Link(TRUE, TRUE, "b2"), <<None>>)) :
             x \in {None, Garbled}, p \in BOOLEAN, m \in {None, Garbled, "b3"}, s \in BOOLEAN,
             h \in {"b1", Garbled}, n \in {None, "b3"}}

Idle ==
    [kind |-> "idle", cookie |-> Boot, csrf |-> Boot, after |-> {}, from |-> None,
     bundle |-> Bundle({}, <<>>, <<>>), malformed |-> FALSE, resolve |-> FALSE, link |-> NoLink, row |-> NoSource,
     src |-> "s1", acct |-> "a1", patch |-> <<>>, gate |-> "ready", on |-> TRUE, token |-> None,
     key |-> "peer", right |-> FALSE, sections |-> {}]

Src(s, b, l, a) ==
    [id |-> s, book |-> b, look |-> l, pace |-> "hourly", account |-> a, enabled |-> TRUE]
Acc(a, on) == [id |-> a, name |-> "imported", enabled |-> on]
Row(b, a, g) ==
    [there |-> TRUE, book |-> b, look |-> "old", pace |-> "hourly", account |-> a,
     enabled |-> TRUE, gate |-> g, rev |-> 0, held |-> g # "ready"]
Account(state, disabled) == [state |-> state, name |-> "stored", disabled |-> disabled]

Db(a1, a2, lost, s1, s2) ==
    [accounts |-> "a1" :> a1 @@ "a2" :> a2, lapsed |-> lost,
     sources |-> "s1" :> s1 @@ "s2" :> s2 @@ "s3" :> NoSource @@ "s4" :> NoSource]

Databases ==
    {Db(Account("enrolled", FALSE), NoAccount, {}, Row("b1", "a1", "ready"), Row("b2", "a2", "risk_controlled")),
     Db(Account("enrolled", TRUE), Account("setup_required", FALSE), {},
        Row("b1", "a1", "authentication_required"), Row("b2", "a2", "authentication_required")),
     Db(Account("enrolled", FALSE), Account("enrolled", FALSE), {"a2"},
        Row("b1", None, "ready"), NoSource)}

BundleSeq ==
    <<Bundle({"accounts", "sources"}, <<Acc("a1", TRUE), Acc("a2", TRUE)>>,
            <<Src("s1", "b1", "new", "a1"), Src("s3", "b3", "new", "a2")>>),
     Bundle({"accounts", "sources"}, <<Acc("a2", TRUE), Acc("a1", FALSE)>>,
            <<Src("s2", "b2", "old", "a1"), Src("s1", "b3", "old", "a1")>>),
     Bundle({"sources"}, <<>>, <<Src("s1", "b3", "old", "a2"), Src("s2", "b1", "new", None)>>),
     Bundle({"sources"}, <<>>, <<Src("s2", "b2", "new", "a2"), Src("s1", "b1", "old", "a1")>>),
     Bundle({"sources"}, <<>>, <<Src("s1", "b3", "old", None), Src("s2", "b3", "old", None)>>),
     Bundle({"accounts"}, <<Acc("a1", TRUE)>>, <<>>)>>
Bundles == ToSet(BundleSeq)

Import(b) == [Idle EXCEPT !.kind = "import", !.bundle = b]

ByLink(l) ==
    [Idle EXCEPT !.kind = "create_source", !.src = "s4", !.resolve = TRUE, !.link = l,
                 !.row = [Row(None, None, "ready") EXCEPT !.look = None]]

Operations ==
    {[Idle EXCEPT !.kind = "create_source", !.src = "s4", !.row = Row("b3", "a1", "ready")],
     [Idle EXCEPT !.kind = "create_source", !.src = "s4", !.row = Row(Blank, None, "ready")],
     [Idle EXCEPT !.kind = "update_source", !.patch = "look" :> "newer"],
     [Idle EXCEPT !.kind = "update_source", !.patch = "book" :> "b3" @@ "look" :> Blank],
     [Idle EXCEPT !.kind = "update_source", !.src = "s2", !.patch = "book" :> "b1"],
     [Idle EXCEPT !.kind = "delete_source", !.src = "s1"],
     [Idle EXCEPT !.kind = "set_enabled", !.on = FALSE],
     [Idle EXCEPT !.kind = "set_gate", !.src = "s2"],
     [Idle EXCEPT !.kind = "close_gate", !.gate = "risk_controlled"],
     [Idle EXCEPT !.kind = "lapse"],
     [Idle EXCEPT !.kind = "provision", !.acct = "a2"],
     [Idle EXCEPT !.kind = "replace", !.acct = "a2"],
     [Idle EXCEPT !.kind = "complete_qr", !.acct = "a2"],
     [Idle EXCEPT !.kind = "set_account_enabled"],
     [Idle EXCEPT !.kind = "set_account_enabled", !.on = FALSE],
     [Idle EXCEPT !.kind = "delete_account"]}

Asks(a, b, c, d, e) == r1 :> a @@ r2 :> b @@ r3 :> c @@ r4 :> d @@ r5 :> e

Load(db, asks, t, f) ==
    [accounts |-> db.accounts, lapsed |-> db.lapsed, sources |-> db.sources,
     asks |-> asks, ticks |-> t, faults |-> f]

\* Two imports at once; the requests are alike, so one order of each pair.
TwoImports ==
    UNION {{Load(db, Asks(Import(BundleSeq[i]), Import(BundleSeq[j]), Idle, Idle, Idle), 0, 1) :
            db \in Databases, j \in i .. Len(BundleSeq)} : i \in DOMAIN BundleSeq}

\* A preview, then its import, among other requests.
PreviewThenImport ==
    {Load(db, Asks([Import(b) EXCEPT !.kind = "preview"], [Import(b) EXCEPT !.after = {r1}], o, Idle, Idle), 0, 0) :
        db \in Databases, b \in Bundles, o \in Operations}

\* Two sources of which only an article is known.
Resolving ==
    {Load(db, Asks(ByLink(l), [ByLink(m) EXCEPT !.src = "s3"], Idle, Idle, Idle), 0, 0) :
        db \in Databases, l \in MCLinks, m \in {Link(TRUE, TRUE, None)}}

\* An import among two other requests.
ImportAmong ==
    {Load(db, Asks(Import(b), o, n, Idle, Idle), 0, 0) :
        db \in Databases, b \in Bundles, o \in Operations,
        n \in {[Idle EXCEPT !.kind = "close_gate", !.src = "s2", !.gate = "authentication_required"]}}

\* Two imports and a login, each of which may wait for the next.
Circle ==
    {Load(db, Asks(Import(BundleSeq[4]), Import(BundleSeq[1]), [Idle EXCEPT !.kind = k, !.acct = "a2"],
                   Idle, Idle), 0, 0) :
        db \in Databases, k \in {"replace", "complete_qr"}}

\* An edit, an export, and the import of its file.
ExportThenImport ==
    {Load(db, Asks(o, [Idle EXCEPT !.kind = "export", !.sections = {"sources", "accounts"}],
                   [Idle EXCEPT !.kind = "import", !.from = r2, !.after = {r2}], Idle, Idle), 0, 0) :
        db \in Databases, o \in Operations}

\* Two tokens, a deletion, an import that brings the source back, a reader.
TokensAndReaders ==
    {Load(db, Asks([Idle EXCEPT !.kind = "issue_feed_token"],
                   [Idle EXCEPT !.kind = "issue_feed_token", !.after = {r1}],
                   [Idle EXCEPT !.kind = "delete_source"],
                   [Import(Bundle({"sources"}, <<>>, <<Src("s1", "b1", "old", None)>>)) EXCEPT !.after = {r3}],
                   [Idle EXCEPT !.kind = "feed", !.token = t]), 0, 0) :
        db \in Databases, t \in {r1, r2}}

Guess(right) == [Idle EXCEPT !.kind = "login", !.right = right]

\* Guesses of one client while time passes and the process may restart.
Guessing ==
    {Load(db, Asks(Guess(FALSE), Guess(FALSE), Guess(FALSE), Guess(FALSE), Guess(right)), 4, f) :
        db \in {CHOOSE db \in Databases : TRUE}, right \in BOOLEAN, f \in 0 .. 1}

Call(k, c, x) ==
    [Idle EXCEPT !.kind = k, !.cookie = c, !.csrf = x, !.after = {r1},
                 !.patch = "look" :> "newer", !.sections = {"sources"}]

\* A login and requests with its session, another's, none and a stale one.
Visits ==
    {Load(db, Asks(Guess(right), Call("update_source", c, x), Call(k, c, x), Idle, Idle), 3,
          IF right THEN 1 ELSE 0) :
        db \in {CHOOSE db \in Databases : TRUE}, right \in BOOLEAN,
        c \in {r1, Boot, "forged"}, x \in {r1, Boot},
        k \in {"page", "get_source", "list_sync_runs", "export", "logout"}}

\* An unreadable request, and two reads.
Reading ==
    {Load(db, Asks([Call("get_account", Boot, Boot) EXCEPT !.malformed = TRUE, !.after = {}],
                   Call("get_account", Boot, Boot), Call("list_sync_runs", Boot, Boot), Idle, Idle), 0, 1) :
        db \in Databases}

MCWorkloads ==
    TwoImports \cup PreviewThenImport \cup Resolving \cup ImportAmong \cup Circle
        \cup ExportThenImport \cup TokensAndReaders \cup Guessing \cup Visits \cup Reading
=============================================================================
