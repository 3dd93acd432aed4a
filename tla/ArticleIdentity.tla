-------------------------- MODULE ArticleIdentity --------------------------
(***************************************************************************)
(* Which public account an article belongs to (acquisition/identity.rs):   *)
(* from the article's link alone when it names the account, or from the    *)
(* page a browser is shown after redirects.                                *)
(*                                                                         *)
(* A biz value is the account it decodes to, Garbled when it does not      *)
(* decode to a number, or None.  A link is safe (the article host, HTTPS,  *)
(* nothing signed), public (a path under /s) and carries a biz value.      *)
(***************************************************************************)
EXTENDS Sequences, SequencesExt

CONSTANTS
    Books,       \* public accounts, as WeRead book ids
    PageVisits   \* what a browser may find behind a link

None == "none"
Garbled == "garbled"
Link(safe, public, biz) == [safe |-> safe, public |-> public, biz |-> biz]
NoLink == Link(FALSE, FALSE, None)

Found(book, name, method) == [error |-> None, book |-> book, name |-> name, method |-> method]
Failed(error) == [error |-> error, book |-> None, name |-> None, method |-> None]

decode_biz(v) == IF v \in Books THEN v ELSE None

biz_from_verified_url(url) == IF url.public THEN url.biz ELSE None
biz_from_string_url(link) == IF link.safe /\ link.public THEN link.biz ELSE None

resolve_from_url(url) ==
    LET biz == biz_from_verified_url(url) IN
    IF ~url.public THEN Failed("InvalidArticleUrl")
    ELSE IF biz = None THEN Failed("MissingIdentity")
    ELSE IF decode_biz(biz) = None THEN Failed("InvalidBiz")
    ELSE Found(decode_biz(biz), None, "UrlQuery")


is_structural_verification_page(page) == page.verify

first_metadata_value(values) ==
    LET some == {i \in DOMAIN values : values[i] # None}
    IN  IF some = {} THEN None ELSE values[Min(some)]

\* What the page says, in the order it is believed; an article link in the
\* body counts only where nothing else speaks.
Candidates(final, page) ==
    LET canonical == first_metadata_value([i \in DOMAIN page.canonical |-> biz_from_string_url(page.canonical[i])])
        own == <<[biz |-> biz_from_verified_url(final), method |-> "RedirectUrl"],
                 [biz |-> page.script, method |-> "HtmlBiz"],
                 [biz |-> biz_from_string_url(page.message), method |-> "HtmlMessageLink"],
                 [biz |-> canonical, method |-> "HtmlCanonical"]>>
    IN  IF \E i \in 1 .. 4 : own[i].biz # None THEN own
        ELSE <<[biz |-> biz_from_string_url(page.embedded), method |-> "HtmlEmbeddedUrl"]>>

extract_identity_from_html(url, final, page) ==
    LET said == Candidates(final, page)
        good == {i \in DOMAIN said : decode_biz(said[i].biz) # None}
    IN  IF ~url.public THEN Failed("InvalidArticleUrl")
        ELSE IF ~final.public THEN Failed("UnsafeRedirect")
        ELSE IF is_structural_verification_page(page) THEN Failed("VerificationRequired")
        ELSE IF \A i \in DOMAIN said : said[i].biz = None THEN Failed("MissingIdentity")
        ELSE IF good = {} THEN Failed("InvalidBiz")
        ELSE Found(decode_biz(said[Min(good)].biz), first_metadata_value(page.names), said[Min(good)].method)

\* A visit: whether the browser opens, loads and closes, where it ends, what
\* it shows.
resolve_without_cleanup(url, visit) ==
    IF ~visit.loads THEN Failed("Browser")
    ELSE IF ~visit.final.safe THEN Failed("UnsafeRedirect")
    ELSE extract_identity_from_html(url, visit.final, visit.page)

WebDriverIdentityResolver(url, visit) ==
    LET found == resolve_without_cleanup(url, visit)
    IN  IF found.error = None /\ ~visit.closes THEN Failed("Browser") ELSE found

resolve(url, visit) ==
    LET direct == resolve_from_url(url) IN
    IF direct.error # "MissingIdentity" THEN direct
    ELSE IF ~visit.opens THEN Failed("Browser")
    ELSE WebDriverIdentityResolver(url, visit)
=============================================================================
