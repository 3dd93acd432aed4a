-------------------------- MODULE MCArticleArchive --------------------------
(* One article, its three kinds of jobs and a handful of pages. *)
EXTENDS ArticleArchive

MCKind == [w \in Workers |-> w]

Url(n) == [name |-> n, scheme |-> "https", host |-> "domain", user |-> FALSE, port |-> 0,
           signed |-> FALSE, frag |-> FALSE, assets |-> FALSE]
A == Url("a")
B == [Url("b") EXCEPT !.assets = TRUE, !.port = 443]
S == [Url("s") EXCEPT !.signed = TRUE]
X == [Url("x") EXCEPT !.host = "private"]
J == [Url("j") EXCEPT !.scheme = "data"]

Page(text, imgs, author) == [text |-> text, imgs |-> imgs, author |-> author, title |-> 1, published |-> 0]

\* Two images one of them twice, an edit with one image, unusable images, an
\* empty page. None says when it was published: a cover alone is not enough.
MCPages ==
    {Page(1, << <<J, A>>, <<B>>, <<A>> >>, 1), Page(2, << <<A>> >>, 0),
     Page(2, << <<X>>, <<S>>, <<J>> >>, 0), [Page(0, <<>>, 0) EXCEPT !.title = 0]}

Text(form, safe, under) == [form |-> form, safe |-> safe, under |-> under]
Good == Text("absolute", TRUE, TRUE)
Foreign == Text("absolute", FALSE, TRUE)
Profile == Text("path", TRUE, FALSE)
Bare == Text("bare", TRUE, FALSE)

Object(id, title, url) == [NoObject EXCEPT !.id = id, !.title = title, !.url = url]
Timed(o) == [o EXCEPT !.time = 1]
Entry(o) == [self |-> o, nested |-> FALSE, review |-> NoObject, mp |-> NoObject]
Wrapped(o, mp) == [self |-> NoObject, nested |-> TRUE, review |-> o, mp |-> mp]
Group(time, sub) == [time |-> time, sub |-> sub]
Answer == [object |-> TRUE, code |-> "none", cover |-> FALSE, self |-> NoObject, data |-> Absent, reviews |-> Absent]
Data(items) == [Answer EXCEPT !.data = Section("array", items)]
Reviews(groups) == [Answer EXCEPT !.reviews = Section("array", groups)]
Cover(o) == [Answer EXCEPT !.cover = TRUE, !.self = o]

\* The entries a list is made of: one that becomes the article, ones without id
\* or title, with a link that is refused, with the link in an older field.
MCEntries ==
    {Entry(Timed(Object(1, 1, t))) : t \in {Good, Foreign, Profile, NoText}}
    \cup {Entry(Object(i, j, Foreign)) : i \in {0, 1}, j \in {0}}
    \cup {Wrapped(Object(1, 0, NoText), Timed(Object(0, 1, t))) : t \in {Good, NoText}}
    \cup {Entry(Timed([Object(1, 1, NoText) EXCEPT !.original = t])) : t \in {Bare, Profile}}

MCLists ==
    {Data(<<e, f>>) : e \in MCEntries, f \in MCEntries}
    \cup {Reviews(<<Group(g, Section(k, <<e>>)), Group(1, Section("array", <<Entry(Object(1, 1, Good))>>))>>) :
             g \in {0, 1}, k \in {"array", "wrong"}, e \in {x \in MCEntries : x.self.time = 1}}
    \cup {Reviews(<<Group(1, Absent)>>), Answer, [Answer EXCEPT !.object = FALSE], [Answer EXCEPT !.data.kind = "wrong"]}
    \cup {[Data(<<Entry(Timed(Object(1, 1, Good)))>>) EXCEPT !.code = c] :
             c \in {"0", "-2012", "-2041", "-2010", "-1", "garbled"}}
    \cup {Cover([Object(1, j, t) EXCEPT !.tail = b]) :
             j \in {0, 1}, t \in {Good, Foreign, NoText}, b \in {Bare, Profile, NoText}}

Ok(n) == [sent |-> "ok", hops |-> <<>>, status |-> TRUE, media |-> TRUE, declared |-> FALSE,
          size |-> n, magic |-> TRUE, broken |-> FALSE]
MCResponses ==
    {Ok(1), Ok(2), [Ok(3) EXCEPT !.declared = TRUE], Ok(3), [Ok(2) EXCEPT !.broken = TRUE],
     [Ok(1) EXCEPT !.hops = <<S>>], [Ok(1) EXCEPT !.hops = <<A, X>>, !.status = FALSE],
     [Ok(1) EXCEPT !.sent = "late"]}
=============================================================================
