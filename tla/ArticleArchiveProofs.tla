------------------------ MODULE ArticleArchiveProofs ------------------------
(***************************************************************************)
(* Proofs about ArticleArchive: what is stored for an article stays        *)
(* consistent whichever of the jobs writes and in whatever order, and the  *)
(* steps that write it never take it back.                                 *)
(*                                                                         *)
(* The first part is about the operators on pages and HTML, the second     *)
(* about the transaction that stores an observation, the third shows that  *)
(* ArticleInv is inductive, and the last that every step is one the action *)
(* properties allow.                                                       *)
(***************************************************************************)
EXTENDS ArticleArchive, FiniteSetTheorems, WellFoundedInduction, TLAPS

-----------------------------------------------------------------------------
(* Sets of numbers: the least one, and InOrder, which lists them all. *)

\* A set of numbers that is not empty has a least one.
LEMMA LeastIn ==
    ASSUME NEW S \in SUBSET Nat, S # {}
    PROVE  \E n \in S : \A m \in S : n <= m
<1> DEFINE R == {p \in Nat \X Nat : p[1] < p[2]}
<1>1. IsWellFoundedOn(R, Nat)
  BY NatLessThanWellFounded DEF OpToRel
<1> HIDE DEF R
<1>2. PICK n \in S : \A m \in S : ~(<<m, n>> \in R)
  BY <1>1, WFMin
<1>3. \A m \in S : ~(m < n)
  BY <1>2 DEF R
<1> QED
  BY <1>3

\* InOrder lists every number of a finite set, and nothing else.
LEMMA InOrderLists ==
    ASSUME NEW S \in SUBSET Nat, IsFiniteSet(S)
    PROVE  /\ Cardinality(S) \in Nat
           /\ \A i \in S : \E n \in 1 .. Cardinality(S) : InOrder(S)[n] = i
<1> DEFINE Up(n) == {j \in S : j <= n}
<1>0. Cardinality(S) \in Nat
  BY FS_CardinalityType
<1>1. \A n \in S : /\ IsFiniteSet(Up(n)) /\ Up(n) # {}
                   /\ Cardinality(Up(n)) \in Nat /\ Cardinality(Up(n)) <= Cardinality(S)
  <2> TAKE n \in S
  <2>1. Up(n) \subseteq S /\ n \in Up(n)
    OBVIOUS
  <2> QED
    BY <2>1, FS_Subset, FS_CardinalityType
<1>2. \A n, m \in S : n < m => Cardinality(Up(n)) < Cardinality(Up(m))
  <2> TAKE n, m \in S
  <2> HAVE n < m
  <2>1. Up(n) \subseteq Up(m) /\ m \in Up(m) /\ m \notin Up(n)
    <3>1. \A j \in S : j \in Nat /\ (j <= n => j <= m)
      OBVIOUS
    <3>2. m <= m /\ ~(m <= n)
      OBVIOUS
    <3> QED
      BY <3>1, <3>2
  <2>2. Up(n) # Up(m)
    BY <2>1
  <2> QED
    BY <1>1, <2>1, <2>2, FS_Subset
<1>3. ASSUME NEW i \in S PROVE \E n \in 1 .. Cardinality(S) : InOrder(S)[n] = i
  <2> DEFINE n == Cardinality(Up(i))
             kth == CHOOSE k \in S : Cardinality({j \in S : j <= k}) = n
  <2>1. n \in 1 .. Cardinality(S)
    BY <1>1, FS_EmptySet, FS_CardinalityType
  <2>2. \A k \in S : Cardinality(Up(k)) = n => k = i
    BY <1>1, <1>2
  <2>3. kth \in S /\ Cardinality(Up(kth)) = n
    OBVIOUS
  <2>4. kth = i
    BY <2>2, <2>3
  <2>5. InOrder(S)[n] = kth
    BY <2>1 DEF InOrder
  <2> QED
    BY <2>1, <2>4, <2>5
<1> QED
  BY <1>0, <1>3

-----------------------------------------------------------------------------
(* Rows as records: what an update of some fields leaves of the others. *)

Row(t, a, p, h, x, v) == [title |-> t, author |-> a, published |-> p, html |-> h, hash |-> x, version |-> v]
HasFields(r) == r = Row(r.title, r.author, r.published, r.html, r.hash, r.version)

LEMMA RowFields ==
    ASSUME NEW t, NEW a, NEW p, NEW h, NEW x, NEW v
    PROVE  LET r == Row(t, a, p, h, x, v) IN
           /\ HasFields(r) /\ r.title = t /\ r.author = a /\ r.published = p
           /\ r.html = h /\ r.hash = x /\ r.version = v
BY DEF Row, HasFields

LEMMA RowUpdated ==
    ASSUME NEW r, HasFields(r), NEW x
    PROVE  /\ [r EXCEPT !.author = x] = Row(r.title, x, r.published, r.html, r.hash, r.version)
           /\ [r EXCEPT !.html = x] = Row(r.title, r.author, r.published, x, r.hash, r.version)
           /\ [r EXCEPT !.hash = x] = Row(r.title, r.author, r.published, r.html, x, r.version)
           /\ [r EXCEPT !.version = x] = Row(r.title, r.author, r.published, r.html, r.hash, x)
<1> DEFINE T == {r.title}
           A == {r.author, x}
           P == {r.published}
           H == {r.html, x}
           X == {r.hash, x}
           V == {r.version, x}
<1>1. r \in [title : T, author : A, published : P, html : H, hash : X, version : V]
  BY DEF HasFields, Row
<1>2. x \in A /\ x \in H /\ x \in X /\ x \in V
  OBVIOUS
<1> HIDE DEF T, A, P, H, X, V
<1>3. [r EXCEPT !.author = x] = Row(r.title, x, r.published, r.html, r.hash, r.version)
  BY ONLY <1>1, <1>2 DEF Row
<1>4. [r EXCEPT !.html = x] = Row(r.title, r.author, r.published, x, r.hash, r.version)
  BY ONLY <1>1, <1>2 DEF Row
<1>5. [r EXCEPT !.hash = x] = Row(r.title, r.author, r.published, r.html, x, r.version)
  BY ONLY <1>1, <1>2 DEF Row
<1>6. [r EXCEPT !.version = x] = Row(r.title, r.author, r.published, r.html, r.hash, x)
  BY ONLY <1>1, <1>2 DEF Row
<1> QED
  BY <1>3, <1>4, <1>5, <1>6

LEMMA HtmlUpdated ==
    ASSUME NEW r, HasFields(r), NEW h, NEW x
    PROVE  [r EXCEPT !.html = h, !.hash = x] = Row(r.title, r.author, r.published, h, x, r.version)
<1> DEFINE q == [r EXCEPT !.html = h]
<1>1. q = Row(r.title, r.author, r.published, h, r.hash, r.version)
  BY RowUpdated
<1>2. [r EXCEPT !.html = h, !.hash = x] = [q EXCEPT !.hash = x]
  OBVIOUS
<1> HIDE DEF q
<1>3. /\ HasFields(q) /\ q.title = r.title /\ q.author = r.author /\ q.published = r.published
      /\ q.html = h /\ q.version = r.version
  BY <1>1, RowFields
<1>4. [q EXCEPT !.hash = x] = Row(q.title, q.author, q.published, q.html, x, q.version)
  BY <1>3, RowUpdated
<1> QED
  BY <1>2, <1>3, <1>4

LEMMA AuthorAndHtmlUpdated ==
    ASSUME NEW r, HasFields(r), NEW a, NEW h, NEW x
    PROVE  [r EXCEPT !.author = a, !.html = h, !.hash = x] = Row(r.title, a, r.published, h, x, r.version)
<1> DEFINE q == [r EXCEPT !.author = a]
<1>1. q = Row(r.title, a, r.published, r.html, r.hash, r.version)
  BY RowUpdated
<1>2. [r EXCEPT !.author = a, !.html = h, !.hash = x] = [q EXCEPT !.html = h, !.hash = x]
  OBVIOUS
<1> HIDE DEF q
<1>3. /\ HasFields(q) /\ q.title = r.title /\ q.author = a /\ q.published = r.published /\ q.version = r.version
  BY <1>1, RowFields
<1>4. [q EXCEPT !.html = h, !.hash = x] = Row(q.title, q.author, q.published, h, x, q.version)
  BY <1>3, HtmlUpdated
<1> QED
  BY <1>2, <1>3, <1>4

LEMMA RowHasFields ==
    ASSUME NEW r, IsRow(r)
    PROVE  HasFields(r)
BY DEF IsRow, HasFields, Row

-----------------------------------------------------------------------------
(* Pages and HTML. *)

\* The URL the sanitizer takes for the k-th image of a page.
UrlAt(page, k) == image_source(page.imgs[k])

\* A sanitized page shows external images only, and each is among the assets
\* to fetch.
LEMMA SanitizedPage ==
    ASSUME NEW page \in Pages
    PROVE  LET s == sanitize(page) IN
           /\ s.html = [text |-> s.html.text, imgs |-> s.html.imgs]
           /\ s.external \in Seq(PageUrls)
           /\ \A i \in s.html.imgs :
                 i = [url |-> i.url, asset |-> 0] /\ \E k \in 1 .. Len(s.external) : s.external[k] = i.url
<1> DEFINE s == sanitize(page)
           first == {k \in Shown(page) : \A j \in Shown(page) : UrlAt(page, j) = UrlAt(page, k) => k <= j}
           usable == {i \in Shown(page) : ~has_provider_signature(UrlAt(page, i))}
           shown == {[url |-> UrlAt(page, k), asset |-> 0] : k \in usable}
           listed == [n \in 1 .. Cardinality(first) |-> UrlAt(page, InOrder(first)[n])]
<1>1. s = [html |-> [text |-> page.text, imgs |-> shown], external |-> listed]
  BY DEF sanitize, UrlAt
<1>2. Shown(page) \subseteq Nat /\ IsFiniteSet(Shown(page))
  <2>1. Len(page.imgs) \in Nat
    BY ArticleConstants
  <2>2. Shown(page) \subseteq 1 .. Len(page.imgs)
    BY DEF Shown
  <2>3. IsFiniteSet(1 .. Len(page.imgs))
    BY <2>1, FS_Interval
  <2> QED
    BY <2>1, <2>2, <2>3, FS_Subset
<1>3. first \subseteq Nat /\ IsFiniteSet(first)
  <2>1. first \subseteq Shown(page)
    OBVIOUS
  <2> QED
    BY <1>2, <2>1, FS_Subset
<1>4. \A k \in Shown(page) : \E n \in first : UrlAt(page, n) = UrlAt(page, k)
  <2> TAKE k \in Shown(page)
  <2> DEFINE same == {j \in Shown(page) : UrlAt(page, j) = UrlAt(page, k)}
  <2>1. same \in SUBSET Nat /\ same # {}
    BY <1>2
  <2>2. PICK n \in same : \A m \in same : n <= m
    <3> HIDE DEF same
    <3> QED
      BY <2>1, LeastIn
  <2>3. n \in first
    BY <2>2
  <2> QED
    BY <2>2, <2>3
<1> HIDE DEF first
<1>5. /\ Cardinality(first) \in Nat
      /\ \A i \in first : \E n \in 1 .. Cardinality(first) : InOrder(first)[n] = i
  BY <1>3, InOrderLists
<1>6. DOMAIN listed = 1 .. Cardinality(first) /\ Len(listed) = Cardinality(first)
  <2>1. listed \in Seq({listed[n] : n \in 1 .. Cardinality(first)})
    BY <1>5
  <2> QED
    BY <1>5, <2>1
<1>7. \A k \in Shown(page) : \E n \in 1 .. Len(listed) : listed[n] = UrlAt(page, k)
  BY <1>4, <1>5, <1>6
<1>8. listed \in Seq(PageUrls)
  <2>1. \A n \in 1 .. Cardinality(first) : listed[n] \in ToSet(listed)
    BY <1>6 DEF ToSet
  <2>2. ToSet(s.external) \subseteq PageUrls
    BY DEF PageUrls
  <2>3. s.external = listed
    BY <1>1
  <2>4. \A n \in 1 .. Cardinality(first) : listed[n] \in PageUrls
    BY <2>1, <2>2, <2>3
  <2> QED
    BY <1>5, <2>4
<1> HIDE DEF listed
<1>9. \A i \in shown : i = [url |-> i.url, asset |-> 0] /\ \E k \in 1 .. Len(listed) : listed[k] = i.url
  BY <1>7
<1> HIDE DEF shown
<1>10. s.html = [text |-> page.text, imgs |-> shown] /\ s.external = listed
  BY <1>1
<1> HIDE DEF s
<1>11. s.html.imgs = shown /\ s.html.text = page.text
  BY <1>10
<1> QED
  BY <1>8, <1>9, <1>10, <1>11 DEF s

\* Rewriting makes local exactly the images that were stored, and leaves empty
\* HTML empty.
LEMMA RewrittenHtml ==
    ASSUME NEW html, html = [text |-> html.text, imgs |-> html.imgs],
           \A i \in html.imgs : i = [url |-> i.url, asset |-> 0],
           NEW stored, \A s \in stored : s = [url |-> s.url, asset |-> s.asset]
    PROVE  LET r == Rewrite(html, stored) IN
           /\ r = [text |-> r.text, imgs |-> r.imgs]
           /\ r = EmptyHtml <=> html = EmptyHtml
           /\ \A i \in LocalImages(r) : [url |-> i.url, asset |-> i.asset] \in stored
           /\ (\A i \in html.imgs : \E s \in stored : s.url = i.url) /\ (\A s \in stored : s.asset # 0)
                 => LocalImages(r) = r.imgs
<1> DEFINE of(i) == {s \in stored : s.url = i.url}
           one(i) == CHOOSE s \in of(i) : TRUE
           new(i) == [url |-> i.url, asset |-> IF of(i) = {} THEN i.asset ELSE one(i).asset]
           r == Rewrite(html, stored)
           images == {new(i) : i \in html.imgs}
<1>1. r = [text |-> html.text, imgs |-> images]
  BY DEF Rewrite
<1>2. \A i \in html.imgs : of(i) # {} => one(i) \in stored /\ one(i).url = i.url
  OBVIOUS
<1>3. \A i \in html.imgs : of(i) = {} => new(i) = [url |-> i.url, asset |-> 0]
  OBVIOUS
<1>4. \A i \in html.imgs : of(i) # {} => new(i) \in stored /\ new(i) = one(i)
  BY <1>2
<1> HIDE DEF new, one
<1>5. \A n \in images : n.asset # 0 => n \in stored /\ n = [url |-> n.url, asset |-> n.asset]
  BY <1>3, <1>4
<1>6. (\A i \in html.imgs : of(i) # {}) /\ (\A s \in stored : s.asset # 0) => \A n \in images : n.asset # 0
  BY <1>4
<1>7. images = {} <=> html.imgs = {}
  OBVIOUS
<1> HIDE DEF images, r
<1>8. r.imgs = images /\ r.text = html.text
  BY <1>1
<1>9. r = EmptyHtml <=> html = EmptyHtml
  BY <1>1, <1>7 DEF EmptyHtml
<1>10. \A i \in LocalImages(r) : [url |-> i.url, asset |-> i.asset] \in stored
  BY <1>5, <1>8 DEF LocalImages
<1>11. ASSUME \A i \in html.imgs : \E s \in stored : s.url = i.url, \A s \in stored : s.asset # 0
       PROVE  LocalImages(r) = r.imgs
  BY <1>6, <1>8, <1>11 DEF LocalImages
<1> QED
  BY <1>1, <1>8, <1>9, <1>10, <1>11 DEF r

\* Only empty HTML has no hash.
LEMMA HashOfHtml ==
    ASSUME NEW html
    PROVE  Hash(html) = <<>> <=> html = EmptyHtml
BY DEF Hash

-----------------------------------------------------------------------------
(* The transaction. *)

\* What a worker brings to its transaction, as ArticleInv describes it.
LEMMA Brought ==
    ASSUME ArticleInv, NEW w \in Workers, work[w].pc \in {"assets", "persist"}
    PROVE  /\ IsObservation(work[w]) /\ IsRow(work[w].new)
           /\ work[w].new.hash = Hash(work[w].new.html)
           /\ \A i \in work[w].new.html.imgs :
                 i = [url |-> i.url, asset |-> 0] /\ \E k \in 1 .. Len(work[w].external) : work[w].external[k] = i.url
           /\ \A k \in 1 .. Len(work[w].fetched) : work[w].fetched[k].asset # 0
           /\ LocalImages(work[w].new.html) = {}
<1>1. IsObservation(work[w]) /\ IsRow(work[w].new)
  BY DEF ArticleInv, TypeOK, IsObservation
<1>2. /\ work[w].new.hash = Hash(work[w].new.html)
      /\ \A i \in work[w].new.html.imgs :
            i = [url |-> i.url, asset |-> 0] /\ \E k \in 1 .. Len(work[w].external) : work[w].external[k] = i.url
      /\ \A k \in 1 .. Len(work[w].fetched) : work[w].fetched[k].asset # 0
  BY DEF ArticleInv, PageAsSanitized
<1> QED
  BY <1>1, <1>2 DEF LocalImages

\* A complete set of assets has one for every image of the page.
LEMMA CompleteCoversPage ==
    ASSUME ArticleInv, NEW w \in Workers, work[w].pc \in {"assets", "persist"},
           complete_asset_set(work[w].external, work[w].fetched)
    PROVE  \A i \in work[w].new.html.imgs : \E s \in Assets(work[w].fetched) : s.url = i.url
<1> DEFINE external == work[w].external
           fetched == work[w].fetched
           at(k) == {j \in 1 .. Len(fetched) : fetched[j].occ = k /\ fetched[j].url = external[k]}
<1>1. \A k \in 1 .. Len(external) : at(k) # {}
  <2>1. \A k \in 1 .. Len(external) : Cardinality(at(k)) = 1
    BY DEF complete_asset_set
  <2>2. Cardinality({}) = 0
    BY FS_EmptySet
  <2> QED
    BY <2>1, <2>2
<1>2. \A k \in 1 .. Len(external) : \E s \in Assets(fetched) : s.url = external[k]
  <2> TAKE k \in 1 .. Len(external)
  <2>1. PICK n \in 1 .. Len(fetched) : fetched[n].url = external[k]
    BY <1>1
  <2>2. [url |-> fetched[n].url, asset |-> fetched[n].asset] \in Assets(fetched)
    BY DEF Assets
  <2> QED
    BY <2>1, <2>2
<1> QED
  BY <1>2, Brought

\* What the transaction of a synchronization or a backfill stores after it dealt
\* with the images.
LEMMA KeptImages ==
    ASSUME ArticleInv, NEW w \in Workers, work[w].pc = "persist", NEW stored \in BOOLEAN
    PROVE  LET new == work[w].new
               kept == WithImages(work[w], stored)
           IN /\ IsRow(kept.new) /\ kept.new.version = new.version
              /\ kept.new.hash = Hash(kept.new.html)
              /\ kept.new.html = EmptyHtml => kept.links = links
              /\ ~(emptied /\ kept.links = links) =>
                    \A i \in LocalImages(kept.new.html) : [url |-> i.url, asset |-> i.asset] \in kept.links
              /\ caching /\ article # NoArticle /\ LocalImages(article.html) # {}
                    => \/ kept.new.html \in {EmptyHtml, article.html}
                       \/ LocalImages(kept.new.html) = kept.new.html.imgs
<1> DEFINE j == work[w]
           new == work[w].new
           kept == WithImages(work[w], stored)
           incomplete == ~complete_asset_set(j.external, j.fetched)
           preserved == [new EXCEPT !.html = article.html, !.hash = article.hash]
           cached == article # NoArticle /\ MentionsAssets(article.html)
           assets == Assets(j.fetched)
           local == Rewrite(new.html, assets)
           Good(k) ==
              /\ IsRow(k.new) /\ k.new.version = new.version
              /\ k.new.hash = Hash(k.new.html)
              /\ k.new.html = EmptyHtml => k.links = links
              /\ ~(emptied /\ k.links = links) =>
                    \A i \in LocalImages(k.new.html) : [url |-> i.url, asset |-> i.asset] \in k.links
              /\ caching /\ article # NoArticle /\ LocalImages(article.html) # {}
                    => \/ k.new.html \in {EmptyHtml, article.html}
                       \/ LocalImages(k.new.html) = k.new.html.imgs
<1>1. /\ IsRow(new) /\ new.hash = Hash(new.html) /\ LocalImages(new.html) = {}
      /\ \A i \in new.html.imgs : i = [url |-> i.url, asset |-> 0]
      /\ \A k \in 1 .. Len(j.fetched) : j.fetched[k].asset # 0
  BY Brought
<1>2. article # NoArticle =>
         /\ IsRow(article) /\ article.hash = Hash(article.html)
         /\ ~emptied => \A i \in LocalImages(article.html) : [url |-> i.url, asset |-> i.asset] \in links
  BY DEF ArticleInv, TypeOK, LocalImagesLinked, HashDescribesHtml
<1>3. article # NoArticle /\ LocalImages(article.html) # {} => cached
  BY DEF LocalImages, MentionsAssets
<1>4. /\ \A s \in assets : s = [url |-> s.url, asset |-> s.asset]
      /\ \A s \in assets : s.asset # 0
  BY <1>1 DEF Assets
<1>5. new.html = [text |-> new.html.text, imgs |-> new.html.imgs]
  BY <1>1 DEF IsRow
<1>6. /\ local = [text |-> local.text, imgs |-> local.imgs]
      /\ local = EmptyHtml <=> new.html = EmptyHtml
      /\ \A i \in LocalImages(local) : [url |-> i.url, asset |-> i.asset] \in assets
      /\ (\A i \in new.html.imgs : \E s \in assets : s.url = i.url) => LocalImages(local) = local.imgs
  <2> HIDE DEF assets, new
  <2> QED
    BY <1>1, <1>4, <1>5, RewrittenHtml
<1>7. ~incomplete => LocalImages(local) = local.imgs
  BY <1>6, CompleteCoversPage
<1>8. kept =
        IF ~caching THEN [links |-> links, new |-> new]
        ELSE IF incomplete /\ cached THEN [links |-> links, new |-> preserved]
        ELSE IF new.html = EmptyHtml THEN [links |-> links, new |-> new]
        ELSE IF stored THEN [links |-> assets,
                             new |-> [new EXCEPT !.html = local, !.hash = IF local # new.html THEN Hash(local) ELSE @]]
        ELSE IF cached THEN [links |-> links, new |-> preserved]
        ELSE [links |-> {}, new |-> new]
  BY DEF WithImages
<1> DEFINE stored_new == Row(new.title, new.author, new.published, local, Hash(local), new.version)
           preserved_new == Row(new.title, new.author, new.published, article.html, article.hash, new.version)
<1>9. [new EXCEPT !.html = local, !.hash = IF local # new.html THEN Hash(local) ELSE @] = stored_new
  <2>1. local = new.html => new.hash = Hash(local)
    BY <1>1
  <2> HIDE DEF local, new
  <2>2. [new EXCEPT !.html = local, !.hash = IF local # new.html THEN Hash(local) ELSE @]
          = [new EXCEPT !.html = local, !.hash = Hash(local)]
    BY <2>1
  <2> QED
    BY <1>1, <2>2, HtmlUpdated, RowHasFields
<1>10. preserved = preserved_new
  <2> HIDE DEF new
  <2> QED
    BY <1>1, HtmlUpdated, RowHasFields
<1> HIDE DEF j, new, kept, incomplete, preserved, assets, local
<1>11. new.version \in 1 .. seq
  BY <1>1 DEF IsRow
<1>12. CASE kept = [links |-> links, new |-> preserved] /\ cached
  <2>1. kept.new = preserved_new /\ kept.links = links
    BY <1>10, <1>12
  <2>2. IsRow(preserved_new)
    BY <1>2, <1>11, <1>12 DEF IsRow, Row
  <2>3. Good(kept)
    BY <1>2, <1>12, <2>1, <2>2, RowFields
  <2> QED
    BY <2>3 DEF kept, new
<1>13. CASE kept = [links |-> links, new |-> new] /\ (~caching \/ new.html = EmptyHtml)
  <2>1. Good(kept)
    BY <1>1, <1>13
  <2> QED
    BY <2>1 DEF kept, new
<1>14. CASE kept = [links |-> assets, new |-> stored_new] /\ new.html # EmptyHtml /\ (incomplete => ~cached)
  <2>1. IsRow(stored_new)
    BY <1>6, <1>11 DEF IsRow, Row
  <2>2. Good(kept)
    BY <1>3, <1>6, <1>7, <1>14, <2>1, RowFields
  <2> QED
    BY <2>2 DEF kept, new
<1>15. CASE kept = [links |-> {}, new |-> new] /\ ~cached /\ new.html # EmptyHtml
  <2>1. Good(kept)
    BY <1>1, <1>3, <1>15
  <2> QED
    BY <2>1 DEF kept, new
<1> QED
  <2> HIDE DEF cached, stored_new, preserved_new
  <2> QED
    BY <1>8, <1>9, <1>12, <1>13, <1>14, <1>15

\* What the transaction of a refresh stores: its page with every image local.
LEMMA KeptByRefresh ==
    ASSUME ArticleInv, NEW w \in Workers, work[w].pc = "persist", Kind[w] = "refresh"
    PROVE  LET new == work[w].new
               kept == Refreshed(work[w])
           IN /\ IsRow(kept.new) /\ kept.new.version = new.version
              /\ kept.new.hash = Hash(kept.new.html)
              /\ kept.new.html = EmptyHtml <=> new.html = EmptyHtml
              /\ \A i \in LocalImages(kept.new.html) : [url |-> i.url, asset |-> i.asset] \in kept.links
              /\ LocalImages(kept.new.html) = kept.new.html.imgs
<1> DEFINE j == work[w]
           new == work[w].new
           kept == Refreshed(work[w])
           assets == Assets(j.fetched)
           local == Rewrite(new.html, assets)
           stored_new == Row(new.title, new.author, new.published, local, Hash(local), new.version)
<1>1. /\ IsRow(new) /\ new.hash = Hash(new.html)
      /\ \A i \in new.html.imgs : i = [url |-> i.url, asset |-> 0]
      /\ \A k \in 1 .. Len(j.fetched) : j.fetched[k].asset # 0
  BY Brought
<1>2. /\ \A s \in assets : s = [url |-> s.url, asset |-> s.asset]
      /\ \A s \in assets : s.asset # 0
  BY <1>1 DEF Assets
<1>3. new.html = [text |-> new.html.text, imgs |-> new.html.imgs] /\ new.version \in 1 .. seq
  BY <1>1 DEF IsRow
<1>4. \A i \in new.html.imgs : \E s \in assets : s.url = i.url
  <2>1. complete_asset_set(j.external, j.fetched)
    BY DEF ArticleInv, RefreshesWhole
  <2> QED
    BY <2>1, CompleteCoversPage
<1>5. /\ local = [text |-> local.text, imgs |-> local.imgs]
      /\ local = EmptyHtml <=> new.html = EmptyHtml
      /\ \A i \in LocalImages(local) : [url |-> i.url, asset |-> i.asset] \in assets
      /\ LocalImages(local) = local.imgs
  <2> HIDE DEF assets, new
  <2> QED
    BY <1>1, <1>2, <1>3, <1>4, RewrittenHtml
<1>6. kept = [links |-> assets,
              new |-> [new EXCEPT !.html = local, !.hash = IF local # new.html THEN Hash(local) ELSE @]]
  BY DEF Refreshed
<1>7. [new EXCEPT !.html = local, !.hash = IF local # new.html THEN Hash(local) ELSE @] = stored_new
  <2>1. local = new.html => new.hash = Hash(local)
    BY <1>1
  <2> HIDE DEF local, new
  <2>2. [new EXCEPT !.html = local, !.hash = IF local # new.html THEN Hash(local) ELSE @]
          = [new EXCEPT !.html = local, !.hash = Hash(local)]
    BY <2>1
  <2> QED
    BY <1>1, <2>2, HtmlUpdated, RowHasFields
<1> HIDE DEF j, new, kept, assets, local
<1>8. kept.new = stored_new /\ kept.links = assets
  BY <1>6, <1>7
<1>9. IsRow(stored_new)
  BY <1>3, <1>5 DEF IsRow, Row
<1> QED
  BY <1>5, <1>8, <1>9, RowFields DEF kept, new

\* Either way: where the HTML is kept, so are the links, but for a refresh.
LEMMA KeptEither ==
    ASSUME ArticleInv, NEW w \in Workers, work[w].pc = "persist", NEW stored \in BOOLEAN
    PROVE  LET new == work[w].new
               kept == Kept(w, stored)
               lost == IF Kind[w] = "refresh" THEN new.html = EmptyHtml ELSE emptied /\ kept.links = links
           IN /\ IsRow(kept.new) /\ kept.new.version = new.version
              /\ kept.new.hash = Hash(kept.new.html)
              /\ kept.new.html = EmptyHtml /\ ~lost => kept.links = links /\ ~emptied
              /\ ~lost => \A i \in LocalImages(kept.new.html) : [url |-> i.url, asset |-> i.asset] \in kept.links
              /\ caching /\ article # NoArticle /\ LocalImages(article.html) # {}
                    => \/ kept.new.html \in {EmptyHtml, article.html}
                       \/ LocalImages(kept.new.html) = kept.new.html.imgs
<1>1. CASE Kind[w] = "refresh"
  <2>1. Kept(w, stored) = Refreshed(work[w])
    BY <1>1 DEF Kept
  <2> QED
    BY <1>1, <2>1, KeptByRefresh
<1>2. CASE Kind[w] # "refresh"
  <2>1. Kept(w, stored) = WithImages(work[w], stored)
    BY <1>2 DEF Kept
  <2> QED
    BY <1>2, <2>1, KeptImages
<1> QED
  BY <1>1, <1>2

\* Merging a newer observation into a row: what is known is kept, and the hash
\* goes with the HTML.
LEMMA MergedRow ==
    ASSUME IsRow(article), article.hash = Hash(article.html),
           NEW incoming, IsRow(incoming), incoming.hash = Hash(incoming.html)
    PROVE  LET m == merge_observation(article, incoming) IN
           /\ IsRow(m) /\ m.version = incoming.version
           /\ m.html = IF incoming.html = EmptyHtml THEN article.html ELSE incoming.html
           /\ m.hash = Hash(m.html)
           /\ article.author # 0 => m.author # 0
<1> DEFINE html == IF incoming.html = EmptyHtml THEN article.html ELSE incoming.html
           author == IF incoming.author # 0 THEN incoming.author ELSE article.author
           hash == IF incoming.hash # <<>> THEN incoming.hash
                   ELSE IF html = article.html THEN article.hash ELSE <<>>
           m == merge_observation(article, incoming)
<1>1. m = [incoming EXCEPT !.author = author, !.html = html, !.hash = hash]
  BY DEF merge_observation
<1>2. hash = Hash(html)
  BY HashOfHtml
<1>3. html = [text |-> html.text, imgs |-> html.imgs]
  BY DEF IsRow
<1>4. incoming.version \in 1 .. seq /\ HasFields(incoming)
  BY RowHasFields DEF IsRow
<1>5. author = 0 => article.author = 0
  OBVIOUS
<1> HIDE DEF author, html, hash, m
<1>6. m = Row(incoming.title, author, incoming.published, html, hash, incoming.version)
  BY <1>1, <1>4, AuthorAndHtmlUpdated
<1>7. HasFields(m) /\ m.version = incoming.version /\ m.html = html /\ m.hash = hash /\ m.author = author
  BY <1>6, RowFields
<1>8. IsRow(m)
  BY <1>3, <1>4, <1>7 DEF IsRow, HasFields, Row
<1> QED
  BY <1>2, <1>5, <1>7, <1>8 DEF m, html

\* A first observation is a change that readers see.
LEMMA FirstIsVisible ==
    ASSUME NEW row, IsRow(row)
    PROVE  feed_visible_change(NoArticle, row) /\ row # NoArticle
<1>1. [row EXCEPT !.version = 0] = Row(row.title, row.author, row.published, row.html, row.hash, 0)
  BY RowHasFields, RowUpdated
<1>2. DOMAIN [NoArticle EXCEPT !.version = 0] = {"version"}
  BY DEF NoArticle
<1>3. "title" \in DOMAIN [row EXCEPT !.version = 0]
  BY <1>1 DEF Row
<1>4. row # NoArticle
  BY DEF IsRow, NoArticle
<1> QED
  BY <1>2, <1>3, <1>4 DEF feed_visible_change

\* A transaction that stores its observation.
Stores(w, stored) ==
    /\ Persist(w, stored)
    /\ ~(Superseded(w, work[w].new.version) \/ (Kind[w] = "refresh" /\ ~stored))

\* What such a transaction leaves: a newer row that lost nothing, whose hash and
\* links go with its HTML, and a revision if readers see a difference.
LEMMA StoredObservation ==
    ASSUME ArticleInv, NEW w \in Workers, NEW stored \in BOOLEAN, Stores(w, stored)
    PROVE  /\ IsRow(article') /\ article' # NoArticle
           /\ article'.version = work[w].new.version /\ article'.version > article.version
           /\ article'.hash = Hash(article'.html)
           /\ emptied' \in BOOLEAN
           /\ ~emptied' => \A i \in LocalImages(article'.html) : [url |-> i.url, asset |-> i.asset] \in links'
           /\ article # NoArticle =>
                 /\ article.author # 0 => article'.author # 0
                 /\ article.html # EmptyHtml => article'.html # EmptyHtml
                 /\ caching /\ LocalImages(article.html) # {} /\ article'.html # article.html
                       => LocalImages(article'.html) = article'.html.imgs
           /\ source' = Published(feed_visible_change(article, article'))
<1> DEFINE new == work[w].new
           kept == Kept(w, stored)
           lost == IF Kind[w] = "refresh" THEN new.html = EmptyHtml ELSE emptied /\ kept.links = links
           incoming == kept.new
<1>1. work[w].pc = "persist"
  BY DEF Stores, Persist
<1>2. /\ article' = upsert(incoming).row /\ links' = kept.links /\ source' = Published(upsert(incoming).changed)
      /\ emptied' = lost
  BY DEF Stores, Persist
<1>3. /\ IsRow(incoming) /\ incoming.version = new.version
      /\ incoming.hash = Hash(incoming.html)
      /\ incoming.html = EmptyHtml /\ ~lost => kept.links = links /\ ~emptied
      /\ ~lost => \A i \in LocalImages(incoming.html) : [url |-> i.url, asset |-> i.asset] \in kept.links
      /\ caching /\ article # NoArticle /\ LocalImages(article.html) # {}
            => \/ incoming.html \in {EmptyHtml, article.html}
               \/ LocalImages(incoming.html) = incoming.html.imgs
  BY <1>1, KeptEither
<1>4. /\ seq \in Nat
      /\ article = NoArticle \/ IsRow(article)
      /\ article # NoArticle => article.hash = Hash(article.html)
      /\ article # NoArticle /\ ~emptied =>
            \A i \in LocalImages(article.html) : [url |-> i.url, asset |-> i.asset] \in links
  BY ArticleConstants DEF ArticleInv, TypeOK, LocalImagesLinked, HashDescribesHtml
<1>0. lost \in BOOLEAN
  BY Zenon
<1>5. new.version > article.version
  <2>1. new.version # article.version
    BY <1>1 DEF ArticleInv, VersionsDistinct, Observing, VersionOf
  <2>2. new.version \in Nat \ {0}
    BY <1>3, <1>4 DEF IsRow
  <2>3. CASE article = NoArticle
    BY <2>2, <2>3 DEF NoArticle
  <2>4. CASE article # NoArticle
    <3>1. article.version \in Nat
      BY <1>4, <2>4 DEF IsRow
    <3>2. ~(article.version > new.version)
      BY <2>2, <2>4, <3>1 DEF Stores, Superseded
    <3> QED
      BY <2>1, <2>2, <3>1, <3>2
  <2> QED
    BY <2>3, <2>4
<1> HIDE DEF new, kept, lost, incoming
<1>6. CASE article = NoArticle
  <2>1. article' = incoming /\ source' = Published(TRUE)
    BY <1>2, <1>6 DEF upsert
  <2>2. feed_visible_change(article, article') /\ article' # NoArticle
    BY <1>3, <1>6, <2>1, FirstIsVisible
  <2>3. source' = Published(feed_visible_change(article, article'))
    BY <2>1, <2>2 DEF Published
  <2>4. article'.version = new.version /\ article'.version > article.version
    BY <1>3, <1>5, <2>1
  <2>5. IsRow(article')
    BY <1>3, <2>1
  <2>6. article'.hash = Hash(article'.html)
    BY <1>3, <2>1
  <2>7. ~emptied' => \A i \in LocalImages(article'.html) : [url |-> i.url, asset |-> i.asset] \in links'
    BY <1>2, <1>3, <2>1
  <2> QED
    BY <1>0, <1>2, <1>6, <2>2, <2>3, <2>4, <2>5, <2>6, <2>7 DEF new
<1>7. CASE article # NoArticle
  <2> DEFINE merged == merge_observation(article, incoming)
  <2>1. IsRow(article) /\ article.version \in Nat /\ incoming.version \in Nat
    BY <1>3, <1>4, <1>7 DEF IsRow
  <2>2. ~(incoming.version < article.version)
    BY <1>3, <1>5, <2>1
  <2>3. article' = merged /\ source' = Published(feed_visible_change(article, merged))
    BY <1>2, <1>7, <2>2 DEF upsert
  <2>4. /\ IsRow(merged) /\ merged.version = incoming.version
        /\ merged.html = IF incoming.html = EmptyHtml THEN article.html ELSE incoming.html
        /\ merged.hash = Hash(merged.html)
        /\ article.author # 0 => merged.author # 0
    BY <1>3, <1>4, <1>7, <2>1, MergedRow
  <2>5. source' = Published(feed_visible_change(article, article'))
    BY <2>3
  <2> HIDE DEF merged
  <2>6. merged # NoArticle
    BY <2>4, FirstIsVisible
  <2>7. merged.version = new.version /\ merged.version > article.version
    BY <1>3, <1>5, <2>4
  <2>8. ~emptied' => \A i \in LocalImages(merged.html) : [url |-> i.url, asset |-> i.asset] \in links'
    BY <1>2, <1>3, <1>4, <1>7, <2>4
  <2>9. article.html # EmptyHtml => merged.html # EmptyHtml
    BY <2>4
  <2>10. caching /\ LocalImages(article.html) # {} /\ merged.html # article.html
            => LocalImages(merged.html) = merged.html.imgs
    BY <1>3, <1>7, <2>4
  <2> QED
    BY <1>0, <1>2, <2>3, <2>4, <2>5, <2>6, <2>7, <2>8, <2>9, <2>10 DEF new
<1> QED
  BY <1>6, <1>7

-----------------------------------------------------------------------------
(* Jobs that hold an observation, as records. *)

Job(pc, n, b, new, e, f) == [pc |-> pc, next |-> n, bytes |-> b, new |-> new, external |-> e, fetched |-> f]
IsJob(j) == j = Job(j.pc, j.next, j.bytes, j.new, j.external, j.fetched)

LEMMA JobFields ==
    ASSUME NEW pc, NEW n, NEW b, NEW new, NEW e, NEW f
    PROVE  LET j == Job(pc, n, b, new, e, f) IN
           /\ IsJob(j) /\ j.pc = pc /\ j.next = n /\ j.bytes = b
           /\ j.new = new /\ j.external = e /\ j.fetched = f
BY DEF Job, IsJob

LEMMA JobUpdated ==
    ASSUME NEW j, IsJob(j), NEW x
    PROVE  /\ [j EXCEPT !.pc = x] = Job(x, j.next, j.bytes, j.new, j.external, j.fetched)
           /\ [j EXCEPT !.next = x] = Job(j.pc, x, j.bytes, j.new, j.external, j.fetched)
           /\ [j EXCEPT !.bytes = x] = Job(j.pc, j.next, x, j.new, j.external, j.fetched)
           /\ [j EXCEPT !.fetched = x] = Job(j.pc, j.next, j.bytes, j.new, j.external, x)
<1> DEFINE P == {j.pc, x}
           N == {j.next, x}
           B == {j.bytes, x}
           A == {j.new}
           E == {j.external}
           F == {j.fetched, x}
<1>1. j \in [pc : P, next : N, bytes : B, new : A, external : E, fetched : F]
  BY DEF IsJob, Job
<1>2. x \in P /\ x \in N /\ x \in B /\ x \in F
  OBVIOUS
<1> HIDE DEF P, N, B, A, E, F
<1>3. [j EXCEPT !.pc = x] = Job(x, j.next, j.bytes, j.new, j.external, j.fetched)
  BY ONLY <1>1, <1>2 DEF Job
<1>4. [j EXCEPT !.next = x] = Job(j.pc, x, j.bytes, j.new, j.external, j.fetched)
  BY ONLY <1>1, <1>2 DEF Job
<1>5. [j EXCEPT !.bytes = x] = Job(j.pc, j.next, x, j.new, j.external, j.fetched)
  BY ONLY <1>1, <1>2 DEF Job
<1>6. [j EXCEPT !.fetched = x] = Job(j.pc, j.next, j.bytes, j.new, j.external, x)
  BY ONLY <1>1, <1>2 DEF Job
<1> QED
  BY <1>3, <1>4, <1>5, <1>6

\* What FetchAsset and AssetsFetched make of a job.
Progressed(j, n, b, f) == [j EXCEPT !.next = n, !.bytes = b, !.fetched = f]
Handed(j) == [j EXCEPT !.pc = "persist", !.next = 1, !.bytes = 0]
HandedDropped(j) == [j EXCEPT !.pc = "persist", !.next = 1, !.bytes = 0, !.fetched = <<>>]

LEMMA ProgressedJob ==
    ASSUME NEW j, IsJob(j), NEW n, NEW b, NEW f
    PROVE  Progressed(j, n, b, f) = Job(j.pc, n, b, j.new, j.external, f)
<1> DEFINE q == [j EXCEPT !.next = n]
           p == [q EXCEPT !.bytes = b]
<1>1. Progressed(j, n, b, f) = [p EXCEPT !.fetched = f]
  BY DEF Progressed
<1>2. q = Job(j.pc, n, j.bytes, j.new, j.external, j.fetched)
  BY JobUpdated
<1> HIDE DEF q
<1>3. IsJob(q) /\ q.pc = j.pc /\ q.next = n /\ q.new = j.new /\ q.external = j.external /\ q.fetched = j.fetched
  BY <1>2, JobFields
<1>4. p = Job(j.pc, n, b, j.new, j.external, j.fetched)
  <2>1. p = Job(q.pc, q.next, b, q.new, q.external, q.fetched)
    BY <1>3, JobUpdated
  <2> QED
    BY <1>3, <2>1
<1> HIDE DEF p
<1>5. IsJob(p) /\ p.pc = j.pc /\ p.next = n /\ p.bytes = b /\ p.new = j.new /\ p.external = j.external
  BY <1>4, JobFields
<1>6. [p EXCEPT !.fetched = f] = Job(j.pc, n, b, j.new, j.external, f)
  <2>1. [p EXCEPT !.fetched = f] = Job(p.pc, p.next, p.bytes, p.new, p.external, f)
    BY <1>5, JobUpdated
  <2> QED
    BY <1>5, <2>1
<1> QED
  BY <1>1, <1>6

LEMMA HandedJob ==
    ASSUME NEW j, IsJob(j)
    PROVE  /\ Handed(j) = Job("persist", 1, 0, j.new, j.external, j.fetched)
           /\ HandedDropped(j) = Job("persist", 1, 0, j.new, j.external, <<>>)
<1> DEFINE pc == "persist"
           n == 1
           b == 0
           f == <<>>
           o == [j EXCEPT !.pc = pc]
           q == [o EXCEPT !.next = n]
           p == [q EXCEPT !.bytes = b]
<1>1. Handed(j) = p /\ HandedDropped(j) = [p EXCEPT !.fetched = f]
  BY DEF Handed, HandedDropped
<1>2. o = Job(pc, j.next, j.bytes, j.new, j.external, j.fetched)
  BY JobUpdated
<1> HIDE DEF o, pc, n, b, f
<1>3. IsJob(o) /\ o.pc = pc /\ o.bytes = j.bytes /\ o.new = j.new /\ o.external = j.external /\ o.fetched = j.fetched
  BY <1>2, JobFields
<1>4. q = Job(o.pc, n, o.bytes, o.new, o.external, o.fetched)
  BY <1>3, JobUpdated
<1> HIDE DEF q
<1>5. IsJob(q) /\ q.pc = pc /\ q.next = n /\ q.new = j.new /\ q.external = j.external /\ q.fetched = j.fetched
  BY <1>3, <1>4, JobFields
<1>6. p = Job(q.pc, q.next, b, q.new, q.external, q.fetched)
  BY <1>5, JobUpdated
<1> HIDE DEF p
<1>7. /\ IsJob(p) /\ p.pc = pc /\ p.next = n /\ p.bytes = b
      /\ p.new = j.new /\ p.external = j.external /\ p.fetched = j.fetched
  BY <1>5, <1>6, JobFields
<1>8. [p EXCEPT !.fetched = f] = Job(p.pc, p.next, p.bytes, p.new, p.external, f)
  BY <1>7, JobUpdated
<1>9. p = Job(pc, n, b, j.new, j.external, j.fetched)
  BY <1>5, <1>6
<1> QED
  BY <1>1, <1>7, <1>8, <1>9 DEF pc, n, b, f

-----------------------------------------------------------------------------
(* ArticleInv is inductive. *)

\* What PageAsSanitized says of one job.
AsSanitized(j) ==
    /\ j.new.hash = Hash(j.new.html)
    /\ \A i \in j.new.html.imgs :
          i = [url |-> i.url, asset |-> 0] /\ \E k \in 1 .. Len(j.external) : j.external[k] = i.url
    /\ \A k \in 1 .. Len(j.fetched) : j.fetched[k].asset # 0

\* The versions that were handed out are at most seq.
LEMMA VersionsUsed ==
    ASSUME ArticleInv
    PROVE  /\ seq \in Nat /\ article.version \in 0 .. seq
           /\ \A v \in Workers : Observing(v) => VersionOf(v) \in 1 .. seq
<1>1. seq \in Nat
  BY ArticleConstants DEF ArticleInv, TypeOK
<1>2. article.version \in 0 .. seq
  <2>1. CASE article = NoArticle
    BY <1>1, <2>1 DEF NoArticle
  <2>2. CASE article # NoArticle
    BY <1>1, <2>2 DEF ArticleInv, TypeOK, IsRow
  <2> QED
    BY <2>1, <2>2
<1>3. ASSUME NEW v \in Workers, Observing(v) PROVE VersionOf(v) \in 1 .. seq
  <2>1. CASE work[v].pc = "page"
    BY <2>1 DEF ArticleInv, TypeOK, VersionOf
  <2>2. CASE work[v].pc \in {"assets", "persist"}
    <3>1. IsRow(work[v].new)
      BY <2>2, Brought
    <3> QED
      BY <2>2, <3>1 DEF VersionOf, IsRow
  <2> QED
    BY <1>3, <2>1, <2>2 DEF Observing
<1> QED
  BY <1>1, <1>2, <1>3

\* A step of a job that leaves the stored article alone: its version is new, or
\* the one it had.
LEMMA JobMoves ==
    ASSUME ArticleInv, NEW w \in Workers, NEW j, work' = [work EXCEPT ![w] = j],
           UNCHANGED <<article, links, source, caching, emptied>>, queued' \in BOOLEAN,
           seq' \in 0 .. MaxVer, seq' >= seq,
           j.pc \in {"idle", "allocate", "page", "assets", "persist"},
           j.pc = "page" => j.version = seq + 1 /\ seq' = seq + 1,
           j.pc \in {"assets", "persist"} =>
              IsObservation(j) /\ AsSanitized(j) /\ Observing(w) /\ j.new.version = VersionOf(w),
           Kind[w] = "refresh" /\ j.pc # "idle" =>
              caching /\ (j.pc = "persist" => complete_asset_set(j.external, j.fetched))
    PROVE  ArticleInv'
<1>1. /\ seq \in Nat /\ seq' \in Nat /\ article.version \in 0 .. seq
      /\ \A v \in Workers : Observing(v) => VersionOf(v) \in 1 .. seq
  BY VersionsUsed, ArticleConstants
<1>2. \A v \in Workers : work'[v] = IF v = w THEN j ELSE work[v]
  BY DEF ArticleInv, TypeOK
<1>3. work' = [v \in Workers |-> work'[v]]
  BY DEF ArticleInv, TypeOK
<1>4. \A v \in Workers : Observing(v)' =>
         \/ Observing(v) /\ VersionOf(v)' = VersionOf(v)
         \/ v = w /\ VersionOf(v)' = seq + 1
  <2> TAKE v \in Workers
  <2> HAVE Observing(v)'
  <2>1. CASE v # w
    BY <1>2, <2>1 DEF Observing, VersionOf
  <2>2. CASE v = w
    <3>1. work'[v] = j
      BY <1>2, <2>2
    <3>2. CASE j.pc = "page"
      BY <2>2, <3>1, <3>2 DEF VersionOf
    <3>3. CASE j.pc \in {"assets", "persist"}
      <4>1. VersionOf(v)' = j.new.version
        BY <3>1, <3>3 DEF VersionOf
      <4> QED
        BY <2>2, <3>3, <4>1
    <3> QED
      BY <3>1, <3>2, <3>3 DEF Observing
  <2> QED
    BY <2>1, <2>2
<1>5. TypeOK'
  <2>1. article' = NoArticle \/ IsRow(article)'
    BY <1>1 DEF ArticleInv, TypeOK, IsRow
  <2>2. ASSUME NEW v \in Workers
        PROVE  /\ work'[v].pc \in {"idle", "allocate", "page", "assets", "persist"}
               /\ work'[v].pc = "page" => work'[v].version \in 1 .. seq'
    <3>1. CASE v # w
      BY <1>1, <1>2, <3>1 DEF ArticleInv, TypeOK
    <3>2. CASE v = w
      BY <1>1, <1>2, <3>2
    <3> QED
      BY <3>1, <3>2
  <2>3. ASSUME NEW v \in Workers, work'[v].pc \in {"assets", "persist"}
        PROVE  IsObservation(work[v])'
    <3> DEFINE k == work'[v]
    <3>1. IsObservation(k)
      BY <1>2, <2>3 DEF ArticleInv, TypeOK
    <3> HIDE DEF k
    <3>2. k.new.version \in 1 .. seq'
      BY <1>1, <3>1 DEF IsObservation, IsRow
    <3>3. /\ k = [pc |-> k.pc, next |-> k.next, bytes |-> k.bytes, new |-> k.new,
                  external |-> k.external, fetched |-> k.fetched]
          /\ k.next \in Nat \ {0} /\ k.external \in Seq(PageUrls) /\ k.fetched \in Seq(Fetched)
      BY <3>1 DEF IsObservation
    <3>4. /\ k.new = [title |-> k.new.title, author |-> k.new.author, published |-> k.new.published,
                      html |-> k.new.html, hash |-> k.new.hash, version |-> k.new.version]
          /\ k.new.html = [text |-> k.new.html.text, imgs |-> k.new.html.imgs]
      BY <3>1 DEF IsObservation, IsRow
    <3> QED
      BY <3>2, <3>3, <3>4 DEF k, IsObservation, IsRow
  <2>4. /\ caching' \in BOOLEAN /\ emptied' \in BOOLEAN
        /\ source' \in [present : BOOLEAN, revision : Nat, rebuild : Nat]
    BY DEF ArticleInv, TypeOK
  <2> QED
    BY <1>3, <2>1, <2>2, <2>3, <2>4 DEF TypeOK
<1>6. VersionsDistinct'
  <2> SUFFICES ASSUME NEW v \in Workers, Observing(v)'
               PROVE  /\ VersionOf(v)' # article.version
                      /\ \A u \in Workers \ {v} : Observing(u)' => VersionOf(u)' # VersionOf(v)'
    BY DEF VersionsDistinct
  <2>1. VersionOf(v)' # article.version
    BY <1>1, <1>4 DEF ArticleInv, VersionsDistinct
  <2>2. ASSUME NEW u \in Workers \ {v}, Observing(u)' PROVE VersionOf(u)' # VersionOf(v)'
    <3>1. CASE Observing(u) /\ Observing(v) /\ VersionOf(u)' = VersionOf(u) /\ VersionOf(v)' = VersionOf(v)
      BY <3>1 DEF ArticleInv, VersionsDistinct
    <3>2. CASE Observing(u) /\ VersionOf(u)' = VersionOf(u) /\ VersionOf(v)' = seq + 1
      BY <1>1, <3>2
    <3>3. CASE Observing(v) /\ VersionOf(v)' = VersionOf(v) /\ VersionOf(u)' = seq + 1
      BY <1>1, <3>3
    <3> QED
      BY <1>4, <2>2, <3>1, <3>2, <3>3
  <2> QED
    BY <2>1, <2>2
<1>7. PageAsSanitized'
  <2> SUFFICES ASSUME NEW v \in Workers, work'[v].pc \in {"assets", "persist"}
               PROVE  AsSanitized(work'[v])
    BY DEF PageAsSanitized, AsSanitized
  <2>1. CASE v = w
    BY <1>2, <2>1
  <2>2. CASE v # w
    BY <1>2, <2>2 DEF ArticleInv, PageAsSanitized, AsSanitized
  <2> QED
    BY <2>1, <2>2
<1>8. RebuildEnqueued' /\ LocalImagesLinked' /\ HashDescribesHtml'
  BY DEF ArticleInv, RebuildEnqueued, LocalImagesLinked, HashDescribesHtml
<1>9. RefreshesWhole'
  BY <1>2 DEF ArticleInv, RefreshesWhole
<1> QED
  BY <1>5, <1>6, <1>7, <1>8, <1>9 DEF ArticleInv

LEMMA InitialArticle ==
    ASSUME Init
    PROVE  ArticleInv
<1>1. \A w \in Workers : work[w] = Idle /\ work[w].pc = "idle"
  BY DEF Init, Idle
<1>2. TypeOK
  <2>1. queued \in BOOLEAN /\ caching \in BOOLEAN /\ emptied \in BOOLEAN
    BY Zenon DEF Init
  <2> QED
    BY <1>1, <2>1, ArticleConstants DEF Init, TypeOK
<1>3. VersionsDistinct /\ PageAsSanitized /\ RefreshesWhole
  BY <1>1 DEF VersionsDistinct, PageAsSanitized, RefreshesWhole, Observing
<1>4. RebuildEnqueued /\ LocalImagesLinked /\ HashDescribesHtml
  BY DEF Init, RebuildEnqueued, LocalImagesLinked, HashDescribesHtml
<1> QED
  BY <1>2, <1>3, <1>4 DEF ArticleInv

\* A job that is given back, or that has nothing yet.
LEMMA GivesBack ==
    ASSUME ArticleInv, NEW w \in Workers, Give(w), UNCHANGED <<article, links, source, caching, emptied>>,
           queued' \in BOOLEAN, seq' \in 0 .. MaxVer, seq' >= seq
    PROVE  ArticleInv'
<1>1. work' = [work EXCEPT ![w] = Idle] /\ Idle.pc = "idle"
  BY DEF Give, Set, Idle
<1> QED
  BY <1>1, JobMoves

LEMMA SeqStays ==
    ASSUME ArticleInv, seq' = seq
    PROVE  seq' \in 0 .. MaxVer /\ seq' >= seq
BY ArticleConstants DEF ArticleInv, TypeOK

LEMMA StartKeeps ==
    ASSUME ArticleInv, NEW w \in Workers, Start(w)
    PROVE  ArticleInv'
<1>1. PICK ref : work' = [work EXCEPT ![w] = [pc |-> "allocate", ref |-> ref]]
  BY DEF Start, Set
<1> DEFINE j == [pc |-> "allocate", ref |-> ref]
<1>2. j.pc = "allocate" /\ work' = [work EXCEPT ![w] = j]
  BY <1>1
<1> HIDE DEF j
<1>3. UNCHANGED <<article, links, source, seq, queued, caching, emptied>>
  BY DEF Start
<1>4. queued' \in BOOLEAN /\ (Kind[w] = "refresh" => caching)
  BY <1>3 DEF Start, ArticleInv, TypeOK
<1> QED
  BY <1>2, <1>3, <1>4, SeqStays, JobMoves

LEMMA AllocateKeeps ==
    ASSUME ArticleInv, NEW w \in Workers, Allocate(w)
    PROVE  ArticleInv'
<1>1. seq \in Nat /\ seq' = seq + 1 /\ seq < MaxVer /\ seq' \in 0 .. MaxVer /\ seq' >= seq
  BY ArticleConstants DEF ArticleInv, TypeOK, Allocate
<1>2. UNCHANGED <<article, links, source, queued, caching, emptied>> /\ queued' \in BOOLEAN
  BY DEF Allocate, ArticleInv, TypeOK
<1>0. Kind[w] = "refresh" => caching
  BY DEF Allocate, ArticleInv, RefreshesWhole
<1>3. CASE Give(w)
  BY <1>1, <1>2, <1>3, GivesBack
<1>4. CASE ~(Kind[w] = "refresh" /\ article = NoArticle)
  <2>1. PICK ref : work' = [work EXCEPT ![w] = [pc |-> "page", version |-> seq + 1, ref |-> ref]]
    BY <1>4 DEF Allocate, Set
  <2> DEFINE j == [pc |-> "page", version |-> seq + 1, ref |-> ref]
  <2>2. j.pc = "page" /\ j.version = seq + 1 /\ work' = [work EXCEPT ![w] = j]
    BY <2>1
  <2> HIDE DEF j
  <2> QED
    BY <1>0, <1>1, <1>2, <2>2, JobMoves
<1> QED
  BY <1>3, <1>4 DEF Allocate

LEMMA FailureLeavesFlag ==
    ASSUME ArticleInv, NEW w \in Workers, NEW t \in BOOLEAN, NEW q \in AfterFailure(w, t)
    PROVE  q \in BOOLEAN
BY DEF AfterFailure, ArticleInv, TypeOK

LEMMA ObservePageKeeps ==
    ASSUME ArticleInv, NEW w \in Workers, NEW page \in Pages, ObservePage(w, page)
    PROVE  ArticleInv'
<1>1. UNCHANGED <<article, links, source, seq, caching, emptied>> /\ work[w].pc = "page"
  BY DEF ObservePage
<1>2. CASE Give(w) /\ queued' \in AfterFailure(w, Kind[w] = "sync")
  <2>1. queued' \in BOOLEAN
    BY <1>2, FailureLeavesFlag
  <2> QED
    BY <1>1, <1>2, <2>1, GivesBack, SeqStays
<1>3. CASE ~(Give(w) /\ queued' \in AfterFailure(w, Kind[w] = "sync"))
  <2> DEFINE s == sanitize(page)
             ref == work[w].ref
             version == work[w].version
             new == prepare_article(ref, page, version)
             pc == IF caching /\ s.external # <<>> THEN "assets" ELSE "persist"
             j == [pc |-> pc, next |-> 1, bytes |-> 0, new |-> new, external |-> s.external, fetched |-> <<>>]
  <2>1. work' = [work EXCEPT ![w] = j] /\ UNCHANGED queued
    BY <1>3 DEF ObservePage, Set
  <2>2. queued' \in BOOLEAN
    BY <2>1 DEF ArticleInv, TypeOK
  <2>3. /\ s.html = [text |-> s.html.text, imgs |-> s.html.imgs]
        /\ s.external \in Seq(PageUrls)
        /\ \A i \in s.html.imgs :
              i = [url |-> i.url, asset |-> 0] /\ \E k \in 1 .. Len(s.external) : s.external[k] = i.url
    BY SanitizedPage
  <2>4. version \in 1 .. seq /\ VersionOf(w) = version /\ Observing(w)
    BY <1>1 DEF ArticleInv, TypeOK, VersionOf, Observing
  <2>5. new = Row(preferred_text(page.title, ref.title), preferred_text(page.author, ref.author),
                  preferred_text(page.published, ref.published), s.html, Hash(s.html), version)
    BY DEF prepare_article, Row
  <2>6. pc \in {"assets", "persist"}
    OBVIOUS
  <2> HIDE DEF s, ref, version, new, pc
  <2>7. HasFields(new) /\ new.html = s.html /\ new.hash = Hash(s.html) /\ new.version = version
    BY <2>5, RowFields
  <2>8. IsRow(new)
    BY <2>3, <2>4, <2>7 DEF HasFields, Row, IsRow
  <2>9. j = Job(pc, 1, 0, new, s.external, <<>>)
    BY DEF Job
  <2> HIDE DEF j
  <2>10. /\ IsJob(j) /\ j.pc = pc /\ j.next = 1 /\ j.new = new
         /\ j.external = s.external /\ j.fetched = <<>>
    BY <2>9, JobFields
  <2>11. IsObservation(j)
    BY <2>3, <2>8, <2>10 DEF IsObservation, IsJob, Job
  <2>12. AsSanitized(j)
    BY <2>3, <2>7, <2>10 DEF AsSanitized
  <2>13. j.pc \in {"assets", "persist"} /\ j.new.version = VersionOf(w)
    BY <2>4, <2>6, <2>7, <2>10
  <2>14. Kind[w] = "refresh" => caching /\ (j.pc = "persist" => complete_asset_set(j.external, j.fetched))
    <3>1. Kind[w] = "refresh" => caching
      BY <1>1 DEF ArticleInv, RefreshesWhole
    <3>2. caching /\ pc = "persist" => s.external = <<>>
      BY DEF pc
    <3>3. complete_asset_set(<<>>, <<>>)
      BY DEF complete_asset_set
    <3> QED
      BY <2>10, <3>1, <3>2, <3>3
  <2> QED
    BY <1>1, <2>1, <2>2, <2>4, <2>11, <2>12, <2>13, <2>14, SeqStays, JobMoves
<1> QED
  BY <1>2, <1>3

\* A body that is kept has bytes.
LEMMA KeptHasBytes ==
    ASSUME NEW u, NEW r, NEW n, fetch_asset(u, r, n).kept
    PROVE  r.size # 0
<1> DEFINE limit == Least(MaxAsset, MaxFetch - n)
           skip == [stop |-> FALSE, counted |-> 0, kept |-> FALSE]
           body == read_body(r, limit)
           taken == [stop |-> FALSE, counted |-> body.counted, kept |-> body.kept /\ signature_matches(r)]
<1>1. fetch_asset(u, r, n) \in {skip, [skip EXCEPT !.stop = TRUE], taken}
  BY DEF fetch_asset
<1>2. ~skip.kept /\ ~[skip EXCEPT !.stop = TRUE].kept
  OBVIOUS
<1>3. taken.kept => body.kept
  OBVIOUS
<1>4. body.kept => 0 < r.size
  BY DEF read_body
<1>5. ~(0 < 0)
  OBVIOUS
<1> QED
  BY <1>1, <1>2, <1>3, <1>4, <1>5

LEMMA FetchAssetKeeps ==
    ASSUME ArticleInv, NEW w \in Workers, NEW r \in Responses, FetchAsset(w, r)
    PROVE  ArticleInv'
<1> DEFINE j == work[w]
           u == j.external[j.next]
           res == fetch_asset(u, r, j.bytes)
           n == IF res.stop THEN Len(j.external) + 1 ELSE j.next + 1
           b == j.bytes + res.counted
           one == [url |-> u, occ |-> j.next, asset |-> r.size]
           f == IF res.kept THEN Append(j.fetched, one) ELSE j.fetched
           k == Progressed(j, n, b, f)
<1>1. work' = [work EXCEPT ![w] = k] /\ j.pc = "assets" /\ ~AssetsDone(w)
      /\ UNCHANGED <<article, links, source, seq, queued, caching, emptied>>
  BY DEF FetchAsset, Set, Progressed
<1>2. IsObservation(j) /\ AsSanitized(j)
  BY <1>1, Brought DEF AsSanitized
<1>3. /\ IsJob(j) /\ j.next \in Nat \ {0} /\ j.external \in Seq(PageUrls) /\ j.fetched \in Seq(Fetched)
      /\ IsRow(j.new)
  BY <1>2 DEF IsObservation, IsJob, Job
<1>4. VersionOf(w) = j.new.version /\ Observing(w)
  BY <1>1 DEF VersionOf, Observing
<1>5. ~(j.next > Len(j.external))
  BY <1>1 DEF AssetsDone
<1>6. res.kept => r.size # 0
  BY KeptHasBytes
<1> HIDE DEF j
<1>7. u \in PageUrls
  BY <1>3, <1>5
<1> HIDE DEF u, res
<1>8. one \in Fetched /\ one.asset = r.size
  BY <1>3, <1>7 DEF Fetched
<1>9. n \in Nat \ {0}
  BY <1>3
<1> HIDE DEF one, n, b
<1>10. f \in Seq(Fetched) /\ \A i \in 1 .. Len(f) : f[i].asset # 0
  <2>1. \A i \in 1 .. Len(j.fetched) : j.fetched[i].asset # 0
    BY <1>2 DEF AsSanitized
  <2>2. CASE res.kept
    BY <1>3, <1>6, <1>8, <2>1, <2>2
  <2>3. CASE ~res.kept
    BY <1>3, <2>1, <2>3
  <2> QED
    BY <2>2, <2>3
<1> HIDE DEF f, k
<1>11. k = Job(j.pc, n, b, j.new, j.external, f)
  BY <1>3, ProgressedJob DEF k
<1>12. /\ IsJob(k) /\ k.pc = j.pc /\ k.next = n /\ k.new = j.new /\ k.external = j.external /\ k.fetched = f
  BY <1>11, JobFields
<1>13. IsObservation(k)
  BY <1>3, <1>9, <1>10, <1>12 DEF IsObservation, IsJob, Job
<1>14. AsSanitized(k)
  BY <1>2, <1>10, <1>12 DEF AsSanitized
<1>15. queued' \in BOOLEAN
  BY <1>1 DEF ArticleInv, TypeOK
<1>16. k.pc = "assets" /\ (Kind[w] = "refresh" => caching)
  BY <1>1, <1>12 DEF ArticleInv, RefreshesWhole, j
<1> QED
  BY <1>1, <1>4, <1>12, <1>13, <1>14, <1>15, <1>16, SeqStays, JobMoves

LEMMA AssetsFetchedKeeps ==
    ASSUME ArticleInv, NEW w \in Workers, AssetsFetched(w)
    PROVE  ArticleInv'
<1> DEFINE j == work[w]
<1>1. j.pc = "assets" /\ UNCHANGED <<article, links, source, seq, queued, caching, emptied>>
  BY DEF AssetsFetched
<1>2. queued' \in BOOLEAN
  BY <1>1 DEF ArticleInv, TypeOK
<1>3. IsObservation(j) /\ AsSanitized(j) /\ VersionOf(w) = j.new.version /\ Observing(w)
  BY <1>1, Brought DEF AsSanitized, VersionOf, Observing
<1>4. \/ Give(w)
      \/ /\ work' = [work EXCEPT ![w] = Handed(j)]
         /\ Kind[w] = "refresh" => complete_asset_set(j.external, j.fetched)
      \/ work' = [work EXCEPT ![w] = HandedDropped(j)] /\ Kind[w] # "refresh"
  BY DEF AssetsFetched, Set, Handed, HandedDropped
<1>0. Kind[w] = "refresh" => caching
  BY <1>1 DEF ArticleInv, RefreshesWhole
<1> HIDE DEF j
<1>5. /\ IsJob(j) /\ j.external \in Seq(PageUrls) /\ j.fetched \in Seq(Fetched) /\ IsRow(j.new)
  BY <1>3 DEF IsObservation, IsJob, Job
<1>6. ASSUME NEW f \in {j.fetched, <<>>}
      PROVE  LET k == Job("persist", 1, 0, j.new, j.external, f) IN
             k.pc = "persist" /\ IsObservation(k) /\ AsSanitized(k) /\ k.new.version = VersionOf(w)
  <2> DEFINE k == Job("persist", 1, 0, j.new, j.external, f)
  <2>1. IsJob(k) /\ k.pc = "persist" /\ k.next = 1 /\ k.new = j.new /\ k.external = j.external /\ k.fetched = f
    BY JobFields
  <2> HIDE DEF k
  <2>2. f \in Seq(Fetched)
    <3>1. <<>> \in Seq(Fetched)
      OBVIOUS
    <3> QED
      BY <1>5, <3>1
  <2>3. IsObservation(k)
    BY <1>5, <2>1, <2>2 DEF IsObservation, IsJob, Job
  <2>4. AsSanitized(k)
    BY <1>3, <2>1 DEF AsSanitized
  <2> QED
    BY <1>3, <2>1, <2>3, <2>4 DEF k
<1>7. CASE Give(w)
  BY <1>1, <1>2, <1>7, GivesBack, SeqStays
<1>8. ASSUME NEW f \in {j.fetched, <<>>}, work' = [work EXCEPT ![w] = Job("persist", 1, 0, j.new, j.external, f)],
             Kind[w] = "refresh" => complete_asset_set(j.external, f)
      PROVE  ArticleInv'
  <2> DEFINE k == Job("persist", 1, 0, j.new, j.external, f)
  <2>1. k.pc = "persist" /\ IsObservation(k) /\ AsSanitized(k) /\ k.new.version = VersionOf(w)
    BY <1>6
  <2>2. work' = [work EXCEPT ![w] = k]
    BY <1>8
  <2>3. k.external = j.external /\ k.fetched = f
    BY JobFields
  <2> HIDE DEF k
  <2> QED
    BY <1>0, <1>1, <1>2, <1>3, <1>8, <2>1, <2>2, <2>3, SeqStays, JobMoves
<1> QED
  BY <1>4, <1>5, <1>7, <1>8, HandedJob

-----------------------------------------------------------------------------
(* The steps that change what is stored. *)

\* The rest of a transaction: the worker is done, and whoever else observes has
\* a version of its own.
LEMMA WorkersAfterPersist ==
    ASSUME ArticleInv, NEW w \in Workers, Give(w), UNCHANGED <<seq, caching>>,
           article' = NoArticle \/ IsRow(article'), Observing(w),
           article'.version \in {article.version, VersionOf(w)}, emptied' \in BOOLEAN,
           queued' \in BOOLEAN, source' \in [present : BOOLEAN, revision : Nat, rebuild : Nat]
    PROVE  TypeOK' /\ VersionsDistinct' /\ PageAsSanitized' /\ RefreshesWhole'
<1>1. \A v \in Workers : work'[v] = IF v = w THEN Idle ELSE work[v]
  BY DEF ArticleInv, TypeOK, Give, Set
<1>2. work' = [v \in Workers |-> work'[v]]
  BY DEF ArticleInv, TypeOK, Give, Set
<1>3. Idle.pc = "idle"
  BY DEF Idle
<1>4. \A v \in Workers : Observing(v)' => Observing(v) /\ v # w /\ VersionOf(v)' = VersionOf(v)
  BY <1>1, <1>3 DEF Observing, VersionOf
<1>5. \A v \in Workers :
         /\ work'[v].pc \in {"idle", "allocate", "page", "assets", "persist"}
         /\ work'[v].pc = "page" => work'[v].version \in 1 .. seq
         /\ work'[v].pc \in {"assets", "persist"} => IsObservation(work'[v])
  BY <1>1, <1>3 DEF ArticleInv, TypeOK
<1>6. TypeOK'
  <2>1. article' = NoArticle \/ IsRow(article)'
    BY DEF IsRow
  <2>2. \A v \in Workers : work'[v].pc \in {"assets", "persist"} => IsObservation(work[v])'
    BY <1>5 DEF IsObservation, IsRow
  <2>3. seq' \in 0 .. MaxVer /\ caching' \in BOOLEAN
    BY DEF ArticleInv, TypeOK
  <2> QED
    BY <1>2, <1>5, <2>1, <2>2, <2>3 DEF TypeOK
<1>7. VersionsDistinct'
  BY <1>4 DEF ArticleInv, VersionsDistinct
<1>8. PageAsSanitized'
  BY <1>1, <1>3 DEF ArticleInv, PageAsSanitized
<1>9. RefreshesWhole'
  BY <1>1, <1>3 DEF ArticleInv, RefreshesWhole
<1> QED
  BY <1>6, <1>7, <1>8, <1>9

\* The two outcomes of a transaction that ends.
LEMMA PersistOutcomes ==
    ASSUME ArticleInv, NEW w \in Workers, NEW stored \in BOOLEAN, Persist(w, stored)
    PROVE  Stores(w, stored) \/ UNCHANGED <<article, links, source, emptied>>
BY DEF Persist, Stores

\* A published change raises the revision and enqueues its rebuild.
LEMMA PublishedSource ==
    ASSUME ArticleInv, NEW changed \in BOOLEAN, source' = Published(changed)
    PROVE  /\ source' \in [present : BOOLEAN, revision : Nat, rebuild : Nat]
           /\ source'.rebuild = source'.revision
           /\ changed <=> source'.revision > source.revision
<1>1. source \in [present : BOOLEAN, revision : Nat, rebuild : Nat] /\ source.rebuild = source.revision
  BY DEF ArticleInv, TypeOK, RebuildEnqueued
<1>2. CASE changed
  <2>1. source' = [source EXCEPT !.revision = @ + 1, !.rebuild = source.revision + 1]
    BY <1>2 DEF Published
  <2>2. source.revision \in Nat /\ source.revision + 1 \in Nat /\ source.revision + 1 > source.revision
    BY <1>1
  <2> DEFINE n == source.revision + 1
  <2>3. source' = [source EXCEPT !.revision = n, !.rebuild = n]
    BY <2>1
  <2>4. n \in Nat /\ n > source.revision
    BY <2>2
  <2> HIDE DEF n
  <2>5. source' \in [present : BOOLEAN, revision : Nat, rebuild : Nat]
    BY <1>1, <2>3, <2>4
  <2>6. source'.revision = n /\ source'.rebuild = n
    BY <1>1, <2>3, <2>4
  <2> QED
    BY <1>2, <2>4, <2>5, <2>6
<1>3. CASE ~changed
  BY <1>1, <1>3 DEF Published
<1> QED
  BY <1>2, <1>3

LEMMA PersistKeeps ==
    ASSUME ArticleInv, NEW w \in Workers, NEW stored \in BOOLEAN, Persist(w, stored)
    PROVE  ArticleInv'
<1>1. /\ work[w].pc = "persist" /\ Give(w) /\ UNCHANGED <<seq, caching>>
      /\ queued' = (queued /\ Kind[w] # "backfill")
  BY DEF Persist
<1>2. Observing(w) /\ VersionOf(w) = work[w].new.version
  BY <1>1 DEF Observing, VersionOf
<1>3. queued' \in BOOLEAN
  BY <1>1 DEF ArticleInv, TypeOK
<1>4. CASE UNCHANGED <<article, links, source, emptied>>
  BY <1>1, <1>3, <1>4, GivesBack, SeqStays
<1>5. CASE Stores(w, stored)
  <2>1. /\ IsRow(article') /\ article'.version = work[w].new.version
        /\ article'.hash = Hash(article'.html)
        /\ emptied' \in BOOLEAN
        /\ ~emptied' => \A i \in LocalImages(article'.html) : [url |-> i.url, asset |-> i.asset] \in links'
        /\ source' = Published(feed_visible_change(article, article'))
    BY <1>5, StoredObservation
  <2>2. feed_visible_change(article, article') \in BOOLEAN
    BY DEF feed_visible_change
  <2>3. /\ source' \in [present : BOOLEAN, revision : Nat, rebuild : Nat]
        /\ source'.rebuild = source'.revision
    BY <2>1, <2>2, PublishedSource
  <2>4. TypeOK' /\ VersionsDistinct' /\ PageAsSanitized' /\ RefreshesWhole'
    BY <1>1, <1>2, <1>3, <2>1, <2>3, WorkersAfterPersist
  <2>5. RebuildEnqueued' /\ LocalImagesLinked' /\ HashDescribesHtml'
    BY <2>1, <2>3 DEF RebuildEnqueued, LocalImagesLinked, HashDescribesHtml
  <2> QED
    BY <2>4, <2>5 DEF ArticleInv
<1> QED
  BY <1>4, <1>5, PersistOutcomes

LEMMA DeleteSourceKeeps ==
    ASSUME ArticleInv, DeleteSource
    PROVE  ArticleInv'
<1>1. /\ article' = NoArticle /\ links' = {} /\ queued' = FALSE /\ emptied' = FALSE
      /\ UNCHANGED <<seq, work, caching>> /\ source' = [source EXCEPT !.present = FALSE]
  BY DEF DeleteSource
<1>2. /\ source' \in [present : BOOLEAN, revision : Nat, rebuild : Nat]
      /\ source'.rebuild = source.rebuild /\ source'.revision = source.revision
  BY <1>1 DEF ArticleInv, TypeOK
<1>3. TypeOK'
  BY <1>1, <1>2 DEF ArticleInv, TypeOK, IsObservation, IsRow
<1>4. VersionsDistinct'
  <2>1. \A v \in Workers : Observing(v) => VersionOf(v) # 0
    BY VersionsUsed
  <2>2. article'.version = 0
    BY <1>1 DEF NoArticle
  <2>3. \A v \in Workers : /\ Observing(v)' = Observing(v) /\ VersionOf(v)' = VersionOf(v)
    BY <1>1 DEF Observing, VersionOf
  <2> QED
    BY <2>1, <2>2, <2>3 DEF ArticleInv, VersionsDistinct
<1>5. PageAsSanitized' /\ RefreshesWhole'
  BY <1>1 DEF ArticleInv, PageAsSanitized, RefreshesWhole
<1>6. RebuildEnqueued' /\ LocalImagesLinked' /\ HashDescribesHtml'
  BY <1>1, <1>2 DEF ArticleInv, RebuildEnqueued, LocalImagesLinked, HashDescribesHtml
<1> QED
  BY <1>3, <1>4, <1>5, <1>6 DEF ArticleInv

LEMMA RestartKeeps ==
    ASSUME ArticleInv, Restart
    PROVE  ArticleInv'
<1>1. \A w \in Workers : work'[w] = Idle /\ work'[w].pc = "idle"
  BY DEF Restart, Idle
<1>2. TypeOK'
  BY <1>1 DEF ArticleInv, TypeOK, Restart, IsRow
<1>3. VersionsDistinct' /\ PageAsSanitized' /\ RefreshesWhole'
  BY <1>1 DEF VersionsDistinct, PageAsSanitized, RefreshesWhole, Observing
<1>4. RebuildEnqueued' /\ LocalImagesLinked' /\ HashDescribesHtml'
  BY DEF Restart, ArticleInv, RebuildEnqueued, LocalImagesLinked, HashDescribesHtml
<1> QED
  BY <1>2, <1>3, <1>4 DEF ArticleInv

LEMMA ArticleStep ==
    ASSUME ArticleInv, [Next]_vars
    PROVE  ArticleInv'
<1>1. ASSUME NEW w \in Workers, WorkerStep(w) PROVE ArticleInv'
  <2>1. CASE Start(w)
    BY <2>1, StartKeeps
  <2>2. CASE GiveUp(w)
    <3>1. Give(w) /\ UNCHANGED <<article, links, source, seq, caching, emptied>> /\ queued' \in BOOLEAN
      BY <2>2 DEF GiveUp, ArticleInv, TypeOK
    <3> QED
      BY <3>1, GivesBack, SeqStays
  <2>3. CASE Allocate(w)
    BY <2>3, AllocateKeeps
  <2>4. CASE \E page \in Pages : ObservePage(w, page)
    BY <2>4, ObservePageKeeps
  <2>5. CASE \E t \in BOOLEAN : AcquisitionFails(w, t)
    <3>1. Give(w) /\ UNCHANGED <<article, links, source, seq, caching, emptied>> /\ queued' \in BOOLEAN
      BY <2>5, FailureLeavesFlag DEF AcquisitionFails
    <3> QED
      BY <3>1, GivesBack, SeqStays
  <2>6. CASE \E r \in Responses : FetchAsset(w, r)
    BY <2>6, FetchAssetKeeps
  <2>7. CASE AssetsFetched(w)
    BY <2>7, AssetsFetchedKeeps
  <2>8. CASE \E stored \in BOOLEAN : Persist(w, stored)
    BY <2>8, PersistKeeps
  <2>9. CASE PersistFails(w)
    <3>1. Give(w) /\ UNCHANGED <<article, links, source, seq, caching, emptied>> /\ queued' \in BOOLEAN
      BY <2>9 DEF PersistFails, ArticleInv, TypeOK
    <3> QED
      BY <3>1, GivesBack, SeqStays
  <2> QED
    BY <1>1, <2>1, <2>2, <2>3, <2>4, <2>5, <2>6, <2>7, <2>8, <2>9 DEF WorkerStep
<1>2. CASE UNCHANGED vars
  BY <1>2 DEF vars, ArticleInv, TypeOK, IsRow, IsObservation, VersionsDistinct, Observing, VersionOf,
              PageAsSanitized, RefreshesWhole, RebuildEnqueued, LocalImagesLinked, HashDescribesHtml
<1> QED
  BY <1>1, <1>2, DeleteSourceKeeps, RestartKeeps DEF Next

\* The stored article is consistent between transactions, whatever pages come,
\* whichever jobs run and in whatever order their transactions commit: its hash
\* is that of its HTML, and its local images are linked unless a refresh of a
\* page that sanitizes to nothing took their links.
THEOREM ArticleConsistent == Spec => []ArticleInv
<1>1. Init => ArticleInv
  BY InitialArticle
<1>2. ArticleInv /\ [Next]_vars => ArticleInv'
  BY ArticleStep
<1> QED
  BY <1>1, <1>2, PTL DEF Spec

-----------------------------------------------------------------------------
(* What a step may do to the stored article. *)

\* The stored article changes only in a transaction that stores an observation,
\* or with its source.
LEMMA WhatWrites ==
    ASSUME ArticleInv, Next
    PROVE  \/ UNCHANGED <<article, links, source>>
           \/ \E w \in Workers, stored \in BOOLEAN : Stores(w, stored)
           \/ DeleteSource
<1>1. ASSUME NEW w \in Workers, WorkerStep(w)
      PROVE  \/ UNCHANGED <<article, links, source>>
             \/ \E stored \in BOOLEAN : Stores(w, stored)
  <2>1. CASE \E stored \in BOOLEAN : Persist(w, stored)
    BY <2>1, PersistOutcomes
  <2>2. CASE ~\E stored \in BOOLEAN : Persist(w, stored)
    BY <1>1, <2>2 DEF WorkerStep, Start, GiveUp, Allocate, ObservePage, AcquisitionFails, FetchAsset,
                      AssetsFetched, PersistFails
  <2> QED
    BY <2>1, <2>2
<1> QED
  BY <1>1 DEF Next, Restart

\* The bodies of the four action properties.
LEMMA StepMerges ==
    ASSUME ArticleInv, Next
    PROVE  /\ article' # article /\ article # NoArticle /\ article' # NoArticle
                 => article'.version > article.version
           /\ article # NoArticle /\ article' # NoArticle =>
                 /\ article.author # 0 => article'.author # 0
                 /\ article.html # EmptyHtml => article'.html # EmptyHtml
           /\ caching /\ article # NoArticle /\ article' # NoArticle
                 /\ LocalImages(article.html) # {} /\ article'.html # article.html
                 => LocalImages(article'.html) = article'.html.imgs
           /\ source'.present =>
                 (feed_visible_change(article, article') <=> source'.revision > source.revision)
                 /\ source'.rebuild = source'.revision
<1>1. CASE UNCHANGED <<article, links, source>>
  <2>1. ~feed_visible_change(article, article')
    BY <1>1 DEF feed_visible_change
  <2>2. source.revision \in Nat /\ source.rebuild = source.revision
    BY DEF ArticleInv, TypeOK, RebuildEnqueued
  <2> QED
    BY <1>1, <2>1, <2>2
<1>2. CASE \E w \in Workers, stored \in BOOLEAN : Stores(w, stored)
  <2>1. PICK w \in Workers, stored \in BOOLEAN : Stores(w, stored)
    BY <1>2
  <2>2. feed_visible_change(article, article') \in BOOLEAN
    BY DEF feed_visible_change
  <2>3. /\ source'.rebuild = source'.revision
        /\ feed_visible_change(article, article') <=> source'.revision > source.revision
    BY <2>1, <2>2, StoredObservation, PublishedSource
  <2> QED
    BY <2>1, <2>3, StoredObservation
<1>3. CASE DeleteSource
  <2>1. article' = NoArticle /\ ~source'.present
    BY <1>3 DEF DeleteSource, ArticleInv, TypeOK
  <2> QED
    BY <2>1
<1> QED
  BY <1>1, <1>2, <1>3, WhatWrites

\* Observations that commit out of order never take the article back to an older
\* page, nor erase an author or a body.
THEOREM NewerObservationsOnly == Spec => ObservationsMerge
<1>1. ArticleInv /\ [Next]_vars => [article' # article /\ article # NoArticle /\ article' # NoArticle
                                      => article'.version > article.version]_vars
  BY StepMerges
<1>2. ArticleInv /\ [Next]_vars => [article # NoArticle /\ article' # NoArticle =>
                                      /\ article.author # 0 => article'.author # 0
                                      /\ article.html # EmptyHtml => article'.html # EmptyHtml]_vars
  BY StepMerges
<1> QED
  BY <1>1, <1>2, ArticleConsistent, PTL DEF Spec, ObservationsMerge, OnlyNewer, NothingForgotten

\* While images are cached, no failed download, full cache or dropped batch
\* brings external images back into an article that shows local ones.
THEOREM LocalImagesStay == Spec => NeverDowngraded
<1>1. ArticleInv /\ [Next]_vars =>
         [caching /\ article # NoArticle /\ article' # NoArticle
             /\ LocalImages(article.html) # {} /\ article'.html # article.html
             => LocalImages(article'.html) = article'.html.imgs]_vars
  BY StepMerges
<1> QED
  BY <1>1, ArticleConsistent, PTL DEF Spec, NeverDowngraded

\* The transaction that changes what readers see, and no other, raises the feed
\* revision and enqueues the rebuild of that revision.
THEOREM VisibleChangesPublished == Spec => VisibleMeansPublished
<1>1. ArticleInv /\ [Next]_vars =>
         [source'.present =>
             (feed_visible_change(article, article') <=> source'.revision > source.revision)
             /\ source'.rebuild = source'.revision]_vars
  BY StepMerges
<1> QED
  BY <1>1, ArticleConsistent, PTL DEF Spec, VisibleMeansPublished

-----------------------------------------------------------------------------
(* The answers to image requests. *)

\* What is known of a body the archiver keeps.
LEMMA KeptBody ==
    ASSUME NEW u, NEW r, NEW n, fetch_asset(u, r, n).kept
    PROVE  /\ is_safe_asset_url(u) /\ ~has_provider_signature(u) /\ ~fetch_asset(u, r, n).stop
           /\ 0 < r.size /\ r.size <= Least(MaxAsset, MaxFetch - n)
<1> DEFINE limit == Least(MaxAsset, MaxFetch - n)
           skip == [stop |-> FALSE, counted |-> 0, kept |-> FALSE]
           late == [skip EXCEPT !.stop = TRUE]
           body == read_body(r, limit)
           taken == [stop |-> FALSE, counted |-> body.counted, kept |-> body.kept /\ signature_matches(r)]
<1>1. \/ fetch_asset(u, r, n) \in {skip, late}
      \/ fetch_asset(u, r, n) = taken /\ is_safe_asset_url(u) /\ ~has_provider_signature(u)
  BY DEF fetch_asset
<1>2. ~skip.kept /\ ~late.kept
  OBVIOUS
<1>3. ~taken.stop /\ (taken.kept => body.kept)
  OBVIOUS
<1>4. body.kept => 0 < r.size /\ r.size <= limit
  BY DEF read_body
<1> QED
  BY <1>1, <1>2, <1>3, <1>4

\* The bytes of every answer are counted in whole numbers.
LEMMA CountedBytes ==
    ASSUME NEW u, NEW r \in Responses, NEW n
    PROVE  fetch_asset(u, r, n).counted \in Nat
<1> DEFINE limit == Least(MaxAsset, MaxFetch - n)
           skip == [stop |-> FALSE, counted |-> 0, kept |-> FALSE]
           late == [skip EXCEPT !.stop = TRUE]
           body == read_body(r, limit)
           taken == [stop |-> FALSE, counted |-> body.counted, kept |-> body.kept /\ signature_matches(r)]
<1>1. fetch_asset(u, r, n) \in {skip, late, taken}
  BY DEF fetch_asset
<1>2. skip.counted = 0 /\ late.counted = 0
  OBVIOUS
<1>3. taken.counted = body.counted
  OBVIOUS
<1>4. body.counted \in Nat
  BY ArticleConstants DEF read_body
<1> QED
  BY <1>1, <1>2, <1>3, <1>4

\* One job changes: the others are as they were.
LEMMA LimitsMove ==
    ASSUME TypeOK, FetchedWithinLimits, NEW w \in Workers, NEW k, work' = [work EXCEPT ![w] = k],
           k.pc \in {"assets", "persist"} => Limited(k)
    PROVE  FetchedWithinLimits'
<1>1. \A v \in Workers : work'[v] = IF v = w THEN k ELSE work[v]
  BY DEF TypeOK
<1> QED
  BY <1>1 DEF FetchedWithinLimits

LEMMA FetchAssetLimits ==
    ASSUME ArticleInv, FetchedWithinLimits, NEW w \in Workers, NEW r \in Responses, FetchAsset(w, r)
    PROVE  FetchedWithinLimits'
<1> DEFINE j == work[w]
           u == j.external[j.next]
           res == fetch_asset(u, r, j.bytes)
           n == IF res.stop THEN Len(j.external) + 1 ELSE j.next + 1
           b == j.bytes + res.counted
           one == [url |-> u, occ |-> j.next, asset |-> r.size]
           f == IF res.kept THEN Append(j.fetched, one) ELSE j.fetched
           k == Progressed(j, n, b, f)
<1>1. work' = [work EXCEPT ![w] = k] /\ j.pc = "assets" /\ ~AssetsDone(w)
  BY DEF FetchAsset, Set, Progressed
<1>2. /\ IsJob(j) /\ j.next \in Nat \ {0} /\ j.external \in Seq(PageUrls) /\ j.fetched \in Seq(Fetched)
  BY <1>1, Brought DEF IsObservation, IsJob, Job
<1>3. Limited(j) /\ j.bytes \in Nat /\ Len(j.fetched) < j.next
  BY <1>1 DEF FetchedWithinLimits, Limited
<1>4. ~(j.next > Len(j.external)) /\ ~(j.next > MaxCount)
  BY <1>1 DEF AssetsDone
<1>5. res.kept => /\ is_safe_asset_url(u) /\ ~has_provider_signature(u) /\ ~res.stop
                  /\ 0 < r.size /\ r.size <= Least(MaxAsset, MaxFetch - j.bytes)
  BY KeptBody
<1>6. res.counted \in Nat
  BY CountedBytes
<1> HIDE DEF j, res
<1>7. res.kept => one.asset \in 1 .. MaxAsset /\ is_safe_asset_url(one.url) /\ ~one.url.signed /\ one.url = j.external[one.occ]
  <2>1. r.size \in Nat /\ MaxAsset \in Nat /\ MaxFetch - j.bytes \in Int
    BY <1>3, ArticleConstants, FetchPolicy
  <2> DEFINE left == MaxFetch - j.bytes
  <2>2. left \in Int
    BY <2>1
  <2> HIDE DEF left
  <2>3. Least(MaxAsset, left) <= MaxAsset /\ Least(MaxAsset, left) \in Int
    BY <2>1, <2>2 DEF Least
  <2>4. res.kept => r.size \in 1 .. MaxAsset
    BY <1>5, <2>1, <2>3 DEF left
  <2> QED
    BY <1>5, <2>4 DEF has_provider_signature
<1> HIDE DEF u
<1>8. b \in Nat /\ n \in Nat \ {0} /\ n > j.next
  BY <1>2, <1>3, <1>4, <1>6
<1>9. res.kept => n = j.next + 1
  BY <1>5
<1>10. one \in Fetched \/ ~res.kept
  <2>1. j.external[j.next] \in PageUrls
    BY <1>2, <1>4
  <2> QED
    BY <1>2, <2>1 DEF Fetched, u
<1> HIDE DEF one, n, b
<1>11. /\ Len(f) <= MaxCount /\ Len(f) < n
       /\ \A i \in 1 .. Len(f) :
             /\ f[i].asset \in 1 .. MaxAsset
             /\ is_safe_asset_url(f[i].url) /\ ~f[i].url.signed
             /\ f[i].url = j.external[f[i].occ]
  <2>1. /\ Len(j.fetched) \in Nat /\ MaxCount \in Nat
        /\ \A i \in 1 .. Len(j.fetched) :
              /\ j.fetched[i].asset \in 1 .. MaxAsset
              /\ is_safe_asset_url(j.fetched[i].url) /\ ~j.fetched[i].url.signed
              /\ j.fetched[i].url = j.external[j.fetched[i].occ]
    BY <1>2, <1>3, FetchPolicy DEF Limited
  <2>2. CASE res.kept
    <3> DEFINE g == Append(j.fetched, one)
    <3>1. /\ Len(g) = Len(j.fetched) + 1
          /\ \A i \in 1 .. Len(g) : g[i] = IF i <= Len(j.fetched) THEN j.fetched[i] ELSE one
      BY <1>2, <1>10, <2>2
    <3>2. f = g
      BY <2>2
    <3> HIDE DEF f, g
    <3>3. Len(g) <= MaxCount /\ Len(g) < n
      BY <1>2, <1>3, <1>4, <1>9, <2>1, <2>2, <3>1
    <3>4. ASSUME NEW i \in 1 .. Len(g)
          PROVE  /\ g[i].asset \in 1 .. MaxAsset
                 /\ is_safe_asset_url(g[i].url) /\ ~g[i].url.signed
                 /\ g[i].url = j.external[g[i].occ]
      <4>1. CASE i <= Len(j.fetched)
        BY <2>1, <3>1, <4>1
      <4>2. CASE ~(i <= Len(j.fetched))
        BY <1>7, <2>2, <3>1, <4>2
      <4> QED
        BY <4>1, <4>2
    <3> QED
      BY <3>2, <3>3, <3>4
  <2>3. CASE ~res.kept
    <3>1. f = j.fetched
      BY <2>3
    <3>2. Len(j.fetched) <= MaxCount /\ Len(j.fetched) < n
      BY <1>2, <1>3, <1>8, <2>1 DEF Limited
    <3> HIDE DEF f
    <3> QED
      BY <2>1, <3>1, <3>2
  <2> QED
    BY <2>2, <2>3
<1> HIDE DEF f, k
<1>12. k = Job(j.pc, n, b, j.new, j.external, f)
  BY <1>2, ProgressedJob DEF k
<1>13. k.pc = j.pc /\ k.next = n /\ k.bytes = b /\ k.external = j.external /\ k.fetched = f
  BY <1>12, JobFields
<1>14. Limited(k)
  BY <1>8, <1>11, <1>13 DEF Limited
<1> QED
  BY <1>1, <1>14, LimitsMove DEF ArticleInv

LEMMA ObservePageLimits ==
    ASSUME ArticleInv, FetchedWithinLimits, NEW w \in Workers, NEW page \in Pages, ObservePage(w, page)
    PROVE  FetchedWithinLimits'
<1>1. CASE Give(w)
  BY <1>1, LimitsMove DEF Give, Set, Idle, ArticleInv
<1>2. CASE ~Give(w)
  <2> DEFINE s == sanitize(page)
             new == prepare_article(work[w].ref, page, work[w].version)
             pc == IF caching /\ s.external # <<>> THEN "assets" ELSE "persist"
             j == [pc |-> pc, next |-> 1, bytes |-> 0, new |-> new, external |-> s.external, fetched |-> <<>>]
  <2>1. work' = [work EXCEPT ![w] = j]
    BY <1>2 DEF ObservePage, Set
  <2> HIDE DEF pc, new, s
  <2>2. j = Job(pc, 1, 0, new, s.external, <<>>)
    BY DEF Job
  <2> HIDE DEF j
  <2>3. j.next = 1 /\ j.bytes = 0 /\ j.fetched = <<>>
    BY <2>2, JobFields
  <2>4. Limited(j)
    <3>1. Len(j.fetched) = 0 /\ MaxCount \in Nat
      BY <2>3, FetchPolicy
    <3> QED
      BY <2>3, <3>1 DEF Limited
  <2> QED
    BY <2>1, <2>4, LimitsMove DEF ArticleInv
<1> QED
  BY <1>1, <1>2

LEMMA AssetsFetchedLimits ==
    ASSUME ArticleInv, FetchedWithinLimits, NEW w \in Workers, AssetsFetched(w)
    PROVE  FetchedWithinLimits'
<1> DEFINE j == work[w]
<1>1. j.pc = "assets"
  BY DEF AssetsFetched
<1>2. IsJob(j) /\ Limited(j)
  BY <1>1, Brought DEF IsObservation, IsJob, Job, FetchedWithinLimits
<1>3. \/ Give(w)
      \/ work' = [work EXCEPT ![w] = Handed(j)]
      \/ work' = [work EXCEPT ![w] = HandedDropped(j)]
  BY DEF AssetsFetched, Set, Handed, HandedDropped
<1> HIDE DEF j
<1>4. ASSUME NEW f \in {j.fetched, <<>>}, work' = [work EXCEPT ![w] = Job("persist", 1, 0, j.new, j.external, f)]
      PROVE  FetchedWithinLimits'
  <2> DEFINE k == Job("persist", 1, 0, j.new, j.external, f)
  <2>1. k.pc = "persist" /\ k.external = j.external /\ k.fetched = f
    BY JobFields
  <2>2. work' = [work EXCEPT ![w] = k]
    BY <1>4
  <2> HIDE DEF k
  <2>3. Limited(k)
    <3>1. CASE f = j.fetched
      BY <1>2, <2>1, <3>1 DEF Limited
    <3>2. CASE f = <<>>
      <4>1. Len(k.fetched) = 0 /\ MaxCount \in Nat
        BY <2>1, <3>2, FetchPolicy
      <4> QED
        BY <2>1, <4>1 DEF Limited
    <3> QED
      BY <3>1, <3>2
  <2> QED
    BY <2>2, <2>3, LimitsMove DEF ArticleInv
<1>5. CASE Give(w)
  BY <1>5, LimitsMove DEF Give, Set, Idle, ArticleInv
<1> QED
  BY <1>2, <1>3, <1>4, <1>5, HandedJob

LEMMA LimitsStep ==
    ASSUME ArticleInv, FetchedWithinLimits, [Next]_vars
    PROVE  FetchedWithinLimits'
<1>1. ASSUME NEW w \in Workers, WorkerStep(w) PROVE FetchedWithinLimits'
  <2>1. CASE Start(w)
    <3>1. PICK ref : work' = [work EXCEPT ![w] = [pc |-> "allocate", ref |-> ref]]
      BY <2>1 DEF Start, Set
    <3> QED
      BY <3>1, LimitsMove DEF ArticleInv
  <2>2. CASE Allocate(w)
    <3>1. PICK j : work' = [work EXCEPT ![w] = j] /\ j.pc \notin {"assets", "persist"}
      BY <2>2 DEF Allocate, Give, Set, Idle
    <3> QED
      BY <3>1, LimitsMove DEF ArticleInv
  <2>3. CASE \E page \in Pages : ObservePage(w, page)
    BY <2>3, ObservePageLimits
  <2>4. CASE \E r \in Responses : FetchAsset(w, r)
    BY <2>4, FetchAssetLimits
  <2>5. CASE AssetsFetched(w)
    BY <2>5, AssetsFetchedLimits
  <2>6. CASE Give(w)
    BY <2>6, LimitsMove DEF Give, Set, Idle, ArticleInv
  <2> QED
    BY <1>1, <2>1, <2>2, <2>3, <2>4, <2>5, <2>6 DEF WorkerStep, GiveUp, AcquisitionFails, Persist, PersistFails
<1>2. CASE UNCHANGED vars \/ DeleteSource
  BY <1>2 DEF vars, DeleteSource, FetchedWithinLimits
<1>3. CASE Restart
  BY <1>3 DEF Restart, FetchedWithinLimits, Idle
<1> QED
  BY <1>1, <1>2, <1>3 DEF Next

\* For any limits, pages and answers, what a job keeps of an article's images
\* comes from safe unsigned URLs, within the limits on number and size
\* (asset_archive_service.rs, fetch_assets_with_context).
THEOREM FetchesAreLimited == Spec => []FetchedWithinLimits
<1>1. Init => FetchedWithinLimits
  BY DEF Init, FetchedWithinLimits, Idle
<1>2. ArticleInv /\ FetchedWithinLimits /\ [Next]_vars => FetchedWithinLimits'
  BY LimitsStep
<1> QED
  BY <1>1, <1>2, ArticleConsistent, PTL DEF Spec

\* The archiver and a repair judge an answer alike, if nothing was counted before.
LEMMA JudgedAlike ==
    ASSUME NEW u, NEW r \in Responses
    PROVE  fetch_asset(u, r, 0).kept <=> RepairKind(u, r) = "Fetched"
<1> DEFINE limit == Least(MaxAsset, MaxFetch)
           final == FinalUrl(u, r)
           skip == [stop |-> FALSE, counted |-> 0, kept |-> FALSE]
           late == [skip EXCEPT !.stop = TRUE]
           body == read_body(r, limit)
           taken == [stop |-> FALSE, counted |-> body.counted, kept |-> body.kept /\ signature_matches(r)]
           refused == \/ ~is_safe_asset_url(u) \/ has_provider_signature(u) \/ r.sent = "late" \/ r.sent = "error"
                      \/ Stopped(r) \/ ~r.status \/ ~response_media_type(r) \/ (r.declared /\ r.size > limit)
                      \/ ~is_safe_asset_url(final) \/ has_provider_signature(final)
<1>1. MaxFetch - 0 = MaxFetch /\ limit \in Int /\ r.size \in Nat
  BY ArticleConstants, FetchPolicy DEF Least
<1>2. ~skip.kept /\ ~late.kept
  OBVIOUS
<1>3. taken.kept <=> body.kept /\ signature_matches(r)
  OBVIOUS
<1>4. body.kept <=> ~r.broken /\ 0 < r.size /\ r.size <= limit
  BY DEF read_body
<1>5. read_repair_body(r, limit) = "Fetched" <=> ~r.broken /\ 0 < r.size /\ r.size <= limit
  BY <1>1 DEF read_repair_body
<1>6. CASE refused
  <2>1. ~fetch_asset(u, r, 0).kept
    <3>1. fetch_asset(u, r, 0) \in {skip, late}
      BY <1>1, <1>6 DEF fetch_asset
    <3> QED
      BY <1>2, <3>1
  <2>2. RepairKind(u, r) # "Fetched"
    BY <1>6 DEF RepairKind
  <2> QED
    BY <2>1, <2>2
<1>7. CASE ~refused
  <2>1. fetch_asset(u, r, 0) = taken
    BY <1>1, <1>7 DEF fetch_asset
  <2>2. RepairKind(u, r) = "Fetched" <=> read_repair_body(r, limit) = "Fetched" /\ signature_matches(r)
    BY <1>7 DEF RepairKind
  <2> QED
    BY <1>3, <1>4, <1>5, <2>1, <2>2
<1> QED
  BY <1>6, <1>7

\* The archiver keeps the body of an image exactly when a repair would, for any
\* limits and answers (asset_archive_service.rs, fetch_assets_with_context and
\* fetch_asset_for_repair).
THEOREM RepairsAgree == Spec => []RepairAgrees
<1>1. RepairAgrees
  BY JudgedAlike DEF RepairAgrees
<1> QED
  BY <1>1, PTL
=============================================================================
