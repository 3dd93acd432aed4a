----------------------------- MODULE AssetFetch -----------------------------
(***************************************************************************)
(* Sanitizing an article and downloading its images, as operators          *)
(* (archive/sanitizer.rs, archive/url_rewriter.rs, domain/url_policy.rs,   *)
(* application/asset_archive_service.rs).                                  *)
(*                                                                         *)
(* A URL is the record of what the code asks about it:                     *)
(*   scheme, host (its class), user (has user information), port (0 for    *)
(*   none), signed (a provider signature in the query), frag (a fragment), *)
(*   assets (the text "/assets/" occurs in it), name.                      *)
(* HTML is its text, an abstract value with 0 for none that stands for the *)
(* places of its images too, and its images, each with the asset whose     *)
(* local route it shows, 0 for none.                                       *)
(***************************************************************************)
EXTENDS Integers, FiniteSets, Sequences, SequencesExt

CONSTANTS
    MaxCount,     \* AssetCachePolicy::max_count_per_article
    MaxAsset,     \* AssetCachePolicy::max_asset_size_bytes
    MaxFetch,     \* AssetCachePolicy::max_fetch_bytes_per_article
    MaxRedirects  \* AssetCachePolicy::max_redirects

ASSUME FetchPolicy ==
    MaxCount \in Nat \ {0} /\ MaxAsset \in Nat \ {0} /\ MaxFetch \in Nat \ {0} /\ MaxRedirects \in Nat

Least(a, b) == IF a < b THEN a ELSE b

-----------------------------------------------------------------------------
(* URLs. *)

has_provider_signature(u) == u.signed

DefaultPort(u) == \/ u.scheme = "http" /\ u.port = 80
                  \/ u.scheme = "https" /\ u.port = 443

\* Host classes: a public or a non-public address literal, a domain, and the
\* domains that name this machine or its network.
is_private_ip(host) == host = "private"

is_safe_asset_url(u) ==
    /\ u.scheme \in {"http", "https"} /\ ~u.user /\ ~u.frag
    /\ u.port = 0 \/ DefaultPort(u)
    /\ ~is_private_ip(u.host) /\ u.host \notin {"none", "local"}

\* What the sanitizer accepts in an attribute; a default port is written out
\* of the URL, and so is the fragment of an image.
approved_http_url(u) == u.scheme \in {"http", "https"} /\ u.host # "none" /\ ~u.user
Normal(u) == [u EXCEPT !.port = IF DefaultPort(u) THEN 0 ELSE @, !.frag = FALSE]

-----------------------------------------------------------------------------
(* Sanitizing and rewriting. *)

EmptyHtml == [text |-> 0, imgs |-> {}]

\* An image element lists its source attributes in the order they are tried;
\* the first usable one is normalised.
ImageSources(img) == SelectSeq(img, approved_http_url)
image_source(img) == Normal(ImageSources(img)[1])
Shown(page) == {k \in 1 .. Len(page.imgs) : ImageSources(page.imgs[k]) # <<>>}

\* The numbers of a finite set, ascending.
InOrder(S) == [n \in 1 .. Cardinality(S) |-> CHOOSE i \in S : Cardinality({j \in S : j <= i}) = n]

\* The HTML without signed images; the external assets with them, each once, in
\* the order of their first appearance.
sanitize(page) ==
    LET url(k) == image_source(page.imgs[k])
        first == {k \in Shown(page) : \A j \in Shown(page) : url(j) = url(k) => k <= j}
    IN [html |-> [text |-> page.text,
                  imgs |-> {[url |-> url(k), asset |-> 0] :
                               k \in {i \in Shown(page) : ~has_provider_signature(url(i))}}],
        external |-> [n \in 1 .. Cardinality(first) |-> url(InOrder(first)[n])]]

\* rewrite_sanitized_html: every image whose source was stored.
Rewrite(html, stored) ==
    LET of(i) == {s \in stored : s.url = i.url}
    IN [text |-> html.text,
        imgs |-> {[url |-> i.url, asset |-> IF of(i) = {} THEN i.asset ELSE (CHOOSE s \in of(i) : TRUE).asset] :
                     i \in html.imgs}]

LocalImages(html) == {i \in html.imgs : i.asset # 0}

\* html.contains("/assets/"): a local route, or any URL with that text.
MentionsAssets(html) == \E i \in html.imgs : i.asset # 0 \/ i.url.assets

-----------------------------------------------------------------------------
(* A response: sent ("ok", "error", "late": a host that resolves to no public *)
(* address is an error), hops (the URLs it was redirected                     *)
(* through, the last one its final URL, <<>> for none), status (success),     *)
(* media (a supported type), declared (length announced), size, magic (bytes  *)
(* match the type), broken (the body stops early).                            *)

can_follow_redirect(previous, u) == previous <= MaxRedirects /\ is_safe_asset_url(u)

\* The redirects that are followed; the policy stops at the first refused one.
Followed(r) ==
    LET refused == {k \in 1 .. Len(r.hops) : ~can_follow_redirect(k, r.hops[k])}
    IN IF refused = {} THEN Len(r.hops) ELSE (CHOOSE k \in refused : \A j \in refused : k <= j) - 1
Stopped(r) == Followed(r) < Len(r.hops)
FinalUrl(u, r) == IF Followed(r) = 0 THEN u ELSE r.hops[Followed(r)]

\* read_body: bytes counted against the article, and whether the body is kept. A
\* body that is cut off counts whole; the code counts the chunks it has read, up to
\* and with the one that is too much.
read_body(r, limit) ==
    [counted |-> r.size, kept |-> ~r.broken /\ 0 < r.size /\ r.size <= limit]

\* The content type is one of the four image types; the bytes start like it.
response_media_type(r) == r.media
signature_matches(r) == r.magic

\* read_repair_body: "Fetched", or why the body is not kept.
read_repair_body(r, limit) ==
    IF r.size > limit THEN "Budget" ELSE IF r.broken \/ r.size = 0 THEN "BodyRead" ELSE "Fetched"

\* One turn of the loop of fetch_assets_with_context on URL u, fetched bytes
\* already counted: whether the loop stops, the bytes counted, the body kept.
fetch_asset(u, r, fetched) ==
    LET limit == Least(MaxAsset, MaxFetch - fetched)
        final == FinalUrl(u, r)
        body == read_body(r, limit)
        skip == [stop |-> FALSE, counted |-> 0, kept |-> FALSE]
    IN IF ~is_safe_asset_url(u) \/ has_provider_signature(u) THEN skip
       ELSE IF r.sent = "late" THEN [skip EXCEPT !.stop = TRUE]
       ELSE IF \/ r.sent = "error" \/ Stopped(r) \/ ~r.status \/ ~response_media_type(r)
               \/ r.declared /\ r.size > limit
               \/ ~is_safe_asset_url(final) \/ has_provider_signature(final) THEN skip
       ELSE [stop |-> FALSE, counted |-> body.counted, kept |-> body.kept /\ signature_matches(r)]

RepairUnsigned(u, r) ==
    IF ~is_safe_asset_url(u) \/ ~is_safe_asset_url(FinalUrl(u, r)) THEN "UnsafeDestination"
    ELSE IF has_provider_signature(u) THEN "UnsafeDestination"
    ELSE IF r.sent # "ok" \/ Stopped(r) \/ ~r.status THEN "Http"
    ELSE IF r.size > Least(MaxAsset, MaxFetch) THEN "Budget"
    ELSE IF r.broken \/ r.size = 0 THEN "BodyRead"
    ELSE IF ~r.media \/ ~r.magic THEN "MediaValidation" ELSE "Fetched"

\* fetch_asset_for_repair: "Fetched", or the kind of the failure.
RepairKind(u, r) ==
    LET limit == Least(MaxAsset, MaxFetch)
        final == FinalUrl(u, r)
    IN IF ~is_safe_asset_url(u) THEN "UnsafeDestination"
       ELSE IF r.sent = "late" THEN "Budget"
       ELSE IF r.sent = "error" THEN "Transport"
       ELSE IF Stopped(r) THEN IF is_safe_asset_url(r.hops[Followed(r) + 1]) THEN "Redirect" ELSE "UnsafeDestination"
       ELSE IF ~is_safe_asset_url(final) THEN "UnsafeDestination"
       ELSE IF ~r.status THEN "Http"
       ELSE IF has_provider_signature(u) \/ has_provider_signature(final) THEN "UnsafeDestination"
       ELSE IF ~response_media_type(r) THEN "MediaValidation"
       ELSE IF r.declared /\ r.size > limit THEN "Budget"
       ELSE IF read_repair_body(r, limit) # "Fetched" THEN read_repair_body(r, limit)
       ELSE IF ~signature_matches(r) THEN "MediaValidation"
       ELSE "Fetched"
=============================================================================
