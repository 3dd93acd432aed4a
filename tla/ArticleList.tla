----------------------------- MODULE ArticleList -----------------------------
(***************************************************************************)
(* What an answer of the WeRead list endpoint says about articles          *)
(* (acquisition/weread.rs, parse_article_list_body and below), as          *)
(* operators.                                                              *)
(*                                                                         *)
(* A JSON object is the record of the fields the code asks for: id, title, *)
(* summary, name, pic and time are values, 0 for an absent, blank or       *)
(* ill-typed one; url and original are link texts, tail the link text at   *)
(* the end of the id.  A link text has a form ("none", "absolute", "path", *)
(* "query" or "bare"), is safe when VerifiedWechatArticleUrl accepts what  *)
(* the text is completed to, and under when its path is below /s.          *)
(*                                                                         *)
(* An answer: object (it is a JSON object), code (the text of its error    *)
(* code, "none", or "garbled"), cover (it has a reviewId itself), self,    *)
(* data and reviews, each a section: absent, of the wrong type, or an      *)
(* array of entries, or of groups that have a time and a section.  What is *)
(* no object in an array is skipped and left out here.                     *)
(***************************************************************************)
EXTENDS Naturals, Sequences, SequencesExt

NoText == [form |-> "none", safe |-> FALSE, under |-> FALSE]
NoObject ==
    [id |-> 0, title |-> 0, summary |-> 0, name |-> 0, pic |-> 0, time |-> 0,
     url |-> NoText, original |-> NoText, tail |-> NoText]
Section(kind, items) == [kind |-> kind, items |-> items]
Absent == Section("absent", <<>>)

\* first_text: the first object that has the value.
first_text(values) ==
    LET present == SelectSeq(values, LAMBDA v : v # 0) IN IF present = <<>> THEN 0 ELSE Head(present)
first_link(texts) ==
    LET present == SelectSeq(texts, LAMBDA t : t.form # "none")
    IN IF present = <<>> THEN NoText ELSE Head(present)

\* verify_article_url: "none", "verified" or "refused".  A path, a query or a
\* bare id is completed to a link of the article host; a bare id is escaped.
verify_article_url(text) ==
    IF text.form = "none" THEN "none"
    ELSE IF /\ text.form = "bare" \/ text.safe
            /\ text.form \in {"query", "bare"} \/ text.under
    THEN "verified" ELSE "refused"

\* originalId speaks only when no object has a link.
article_url(objects) ==
    LET url == first_link([k \in DOMAIN objects |-> objects[k].url])
    IN verify_article_url(IF url.form # "none" THEN url
                          ELSE first_link([k \in DOMAIN objects |-> objects[k].original]))

Reference(id, link, title, author, published) ==
    [id |-> id, link |-> link, title |-> title, author |-> author, published |-> published]
Parsed(error, refs) == [error |-> error, refs |-> refs]
Refused(error) == Parsed(error, <<>>)

cover_article_url(o) == verify_article_url(o.tail)

\* The link of a cover is its own or the one its id ends with; the id's is
\* verified also when it is not needed.
parse_cover_entry(o) ==
    LET own == article_url(<<o>>)
        cover == cover_article_url(o)
    IN IF o.id = 0 \/ o.title = 0 THEN Parsed("none", <<>>)
       ELSE IF "refused" \in {own, cover} THEN Refused("InvalidArticleUrl")
       ELSE Parsed("none", <<Reference(o.id, IF own # "none" THEN own ELSE cover, o.title, o.name, 0)>>)

\* An entry: self, nested (it has a review object), review, mp (the review's mpInfo).
Review(e) == IF e.nested THEN e.review ELSE e.self
parse_entry(e, group) ==
    LET id == first_text(<<Review(e).id, e.self.id>>)
        title == first_text(<<Review(e).title, e.mp.title>>)
        link == article_url(<<e.mp, Review(e)>>)
    IN IF id = 0 \/ title = 0 THEN Parsed("none", <<>>)
       ELSE IF link = "refused" THEN Refused("InvalidArticleUrl")
       ELSE Parsed("none", <<Reference(id, link, title, e.mp.name, first_text(<<e.mp.time, Review(e).time, group>>))>>)

\* Errors end the parse; what was read before them is dropped.
Then(before, next) ==
    IF before.error # "none" THEN before
    ELSE IF next.error # "none" THEN Refused(next.error)
    ELSE Parsed("none", before.refs \o next.refs)

parse_entries(entries, group) ==
    FoldLeft(LAMBDA acc, e : Then(acc, parse_entry(e, group)), Parsed("none", <<>>), entries)

response_error(code) ==
    IF code \in {"none", "0"} THEN "none"
    ELSE IF code = "-2012" THEN "AuthenticationExpired"
    ELSE IF code \in {"-2041", "-2010"} THEN "RiskControlled"
    ELSE "UnexpectedResponse"

ParseGroup(g) ==
    IF g.sub.kind = "absent" THEN Parsed("none", <<>>)
    ELSE IF g.sub.kind = "wrong" THEN Refused("UnexpectedResponse")
    ELSE parse_entries(g.sub.items, g.time)

parse_article_list_payload(p) ==
    IF ~p.object THEN Refused("UnexpectedResponse")
    ELSE IF response_error(p.code) # "none" THEN Refused(response_error(p.code))
    ELSE IF p.cover THEN parse_cover_entry(p.self)
    ELSE IF p.data.kind = "array" THEN parse_entries(p.data.items, 0)
    ELSE IF p.data.kind = "wrong" \/ p.reviews.kind # "array" THEN Refused("UnexpectedResponse")
    ELSE FoldLeft(LAMBDA acc, g : Then(acc, ParseGroup(g)), Parsed("none", <<>>), p.reviews.items)

-----------------------------------------------------------------------------
(* What the answer amounts to, without the order in which it is read.      *)

\* The entries of the envelope that is read, each with the time of its group.
Entries(p) ==
    IF p.data.kind = "array" THEN [k \in DOMAIN p.data.items |-> <<p.data.items[k], 0>>]
    ELSE FlattenSeq([k \in DOMAIN p.reviews.items |->
             LET g == p.reviews.items[k] IN [j \in DOMAIN g.sub.items |-> <<g.sub.items[j], g.time>>]])
Usable(e) == (Review(e).id # 0 \/ e.self.id # 0) /\ (Review(e).title # 0 \/ e.mp.title # 0)
Links(e) == LET own == {t \in {e.mp.url, Review(e).url} : t.form # "none"}
            IN IF own # {} THEN own ELSE {t \in {e.mp.original, Review(e).original} : t.form # "none"}

\* An answer that reports an error yields no article, whatever else it holds.
\* Otherwise every entry with an id and a title becomes one article, in order,
\* and the others are passed by without a look at their links; one unusable link of
\* a usable entry refuses the whole list, so that no unverified link reaches a
\* browser (parse_article_list_payload).
ListReadWhole(p) ==
    LET r == parse_article_list_payload(p)
        usable == SelectSeq(Entries(p), LAMBDA x : Usable(x[1]))
    IN /\ \A k \in DOMAIN r.refs : r.refs[k].link # "refused" /\ r.refs[k].id # 0 /\ r.refs[k].title # 0
       /\ p.code \notin {"none", "0"} => r.error # "none"
       /\ r.error # "none" => r.refs = <<>>
       /\ r.error = "none" /\ ~p.cover =>
            /\ Len(r.refs) = Len(usable)
            /\ \A k \in DOMAIN usable :
                  /\ r.refs[k].id \in {Review(usable[k][1]).id, usable[k][1].self.id}
                  /\ \/ Links(usable[k][1]) = {} /\ r.refs[k].link = "none"
                     \/ \E t \in Links(usable[k][1]) : verify_article_url(t) = "verified"
                  /\ r.refs[k].published = 0 => usable[k][2] = 0
       /\ p.object /\ p.code \in {"none", "0"} /\ ~p.cover /\ r.error = "InvalidArticleUrl" =>
            \E k \in DOMAIN usable : \E t \in Links(usable[k][1]) : verify_article_url(t) = "refused"
=============================================================================
