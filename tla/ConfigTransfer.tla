--------------------------- MODULE ConfigTransfer ---------------------------
(***************************************************************************)
(* Portable configuration: what a bundle holds, which bundles are          *)
(* accepted, what an export writes, what a preview announces, and what an  *)
(* import makes of a row (application/config_transfer.rs and               *)
(* persistence/repositories/config_transfer_repository.rs), with the rows  *)
(* themselves (domain/source.rs, domain/credentials.rs).                   *)
(*                                                                         *)
(* A source's fields are its book, its look (display name, article URL,    *)
(* item limit: with the book, what readers of its feed see), its pace      *)
(* (interval, priority, attempts), its account and its enabled flag.       *)
(* Blank stands for a value that validation refuses: empty, untrimmed,     *)
(* zero or not a WeChat URL.                                               *)
(***************************************************************************)
EXTENDS Naturals, FiniteSets, ArticleIdentity

CONSTANTS
    Sources,             \* source ids
    Accounts,            \* account ids
    MAX_SECTION_RECORDS  \* records a section may hold

ASSUME TransferBoundAssumption == MAX_SECTION_RECORDS \in Nat

Blank == "blank"
Portable == {"book", "look", "pace", "account", "enabled"}

NoSource ==
    [there |-> FALSE, book |-> Blank, look |-> Blank, pace |-> Blank, account |-> None,
     enabled |-> FALSE, gate |-> "ready", rev |-> 0, held |-> FALSE]
SourceFields == DOMAIN NoSource
Gates == {"ready", "authentication_required", "risk_controlled"}
NoAccount == [state |-> "absent", name |-> Blank, disabled |-> FALSE]

\* Source::validate
ValidSource(row) == Blank \notin {row.book, row.look, row.pace}

FeedVisible(row) == <<row.book, row.look>>

\* Source::apply_update over the fields a patch names; advance_feed_revision.
apply_patch(row, patch) ==
    LET updated == [f \in DOMAIN row |-> IF f \in DOMAIN patch THEN patch[f] ELSE row[f]]
    IN  [updated EXCEPT !.rev = IF FeedVisible(updated) # FeedVisible(row) THEN @ + 1 ELSE @]

\* Source::new
NewSource(fields) ==
    [f \in SourceFields |->
        IF f = "there" THEN TRUE ELSE IF f \in Portable THEN fields[f] ELSE NoSource[f]]

-----------------------------------------------------------------------------
(* Bundles. *)

\* shape: what is wrong before any record is looked at.
Bundle(sections, accts, srcs) ==
    [shape |-> "ok", sections |-> sections, accounts |-> accts, sources |-> srcs]

PortableSource(s, row) ==
    [f \in Portable \cup {"id"} |-> IF f = "id" THEN s ELSE row[f]]
PortableAccount(a, row) == [id |-> a, name |-> row.name, enabled |-> ~row.disabled]

\* ConfigExportSelection::validate
SelectionEmpty(sections) == sections = {}

\* ConfigBundle::serialize_limited; the limit in bytes (MAX_BUNDLE_BYTES) is left
\* out, records have no size here.
serialize_limited(b) == Len(b.sources) <= MAX_SECTION_RECORDS /\ Len(b.accounts) <= MAX_SECTION_RECORDS

ExportBundle(sections, srcs, accts) ==
    LET ids == SetToSeq({s \in Sources : srcs[s].there})
        names == SetToSeq({a \in Accounts : accts[a].state # "absent"})
    IN  Bundle(sections,
               IF "accounts" \in sections
               THEN [i \in DOMAIN names |-> PortableAccount(names[i], accts[names[i]])] ELSE <<>>,
               IF "sources" \in sections
               THEN [i \in DOMAIN ids |-> PortableSource(ids[i], srcs[ids[i]])] ELSE <<>>)

Distinct(records, field) ==
    \A i, j \in DOMAIN records : records[i][field] = records[j][field] => i = j

\* ValidatedConfigBundle::parse_limited and try_from
ValidBundle(b) ==
    /\ b.shape = "ok" /\ b.sections # {}
    /\ Len(b.sources) <= MAX_SECTION_RECORDS /\ Len(b.accounts) <= MAX_SECTION_RECORDS
    /\ Distinct(b.sources, "id") /\ Distinct(b.sources, "book")
    /\ \A i \in DOMAIN b.sources : b.sources[i].id # Blank /\ ValidSource(b.sources[i])
    /\ Distinct(b.accounts, "id")
    /\ \A i \in DOMAIN b.accounts : Blank \notin {b.accounts[i].id, b.accounts[i].name}

Ids(records) == {records[i].id : i \in DOMAIN records}

\* What the tables and a client's file may hold.
IsSource(row) ==
    /\ row = [f \in SourceFields |-> row[f]]
    /\ row.there \in BOOLEAN /\ row.gate \in Gates /\ row.rev \in Nat
    /\ ~row.there => row = NoSource
IsAccount(row) ==
    /\ row = [state |-> row.state, name |-> row.name, disabled |-> row.disabled]
    /\ row.state \in {"absent", "setup_required", "enrolled"} /\ row.disabled \in BOOLEAN
\* Rows pass validation, and the unique index is over their books.
Named(row) == row.state # "absent" => row.name # Blank
GoodRows(rows) ==
    /\ \A s \in Sources : rows[s].there => ValidSource(rows[s])
    /\ \A s, o \in Sources : rows[s].there /\ rows[o].there /\ rows[s].book = rows[o].book => s = o
IsBundle(b) ==
    /\ Len(b.accounts) \in Nat /\ b.accounts = [i \in 1 .. Len(b.accounts) |-> b.accounts[i]]
    /\ Len(b.sources) \in Nat /\ b.sources = [i \in 1 .. Len(b.sources) |-> b.sources[i]]
    /\ \A i \in DOMAIN b.accounts : b.accounts[i].id \in Accounts /\ b.accounts[i].enabled \in BOOLEAN
    /\ \A i \in DOMAIN b.sources :
          b.sources[i].id \in Sources /\ DOMAIN b.sources[i] = Portable \cup {"id"}

-----------------------------------------------------------------------------
(* Previews. *)

Counts ==
    [accounts_created |-> 0, accounts_updated |-> 0, sources_created |-> 0, sources_updated |-> 0,
     account_bindings_preserved |-> 0, account_bindings_cleared |-> 0]

\* preview, first query: the accounts known then, and what the section adds.
preview_accounts(b, known) ==
    [Counts EXCEPT !.accounts_updated = Cardinality(Ids(b.accounts) \cap known),
                   !.accounts_created = Cardinality(Ids(b.accounts) \ known)]

preview_sources_StoredAccounts(b, counts, known, srcs) ==
    LET there == {i \in DOMAIN b.sources : srcs[b.sources[i].id].there}
        bound == {i \in DOMAIN b.sources : b.sources[i].account # None}
        kept == {i \in bound : b.sources[i].account \in known}
    IN  [counts |-> [counts EXCEPT !.sources_updated = Cardinality(there),
                                   !.sources_created = Len(b.sources) - Cardinality(there),
                                   !.account_bindings_preserved = Cardinality(kept),
                                   !.account_bindings_cleared = Cardinality(bound \ kept)],
         conflicts |-> \E i \in DOMAIN b.sources, s \in Sources :
                           s # b.sources[i].id /\ srcs[s].there /\ srcs[s].book = b.sources[i].book]

\* preview, second query: the counts, and whether a conflict is reported.
preview_sources(b, counts, known, srcs) ==
    LET there == {i \in DOMAIN b.sources : srcs[b.sources[i].id].there}
        bound == {i \in DOMAIN b.sources : b.sources[i].account # None}
        kept == {i \in bound : b.sources[i].account \in known \cup Ids(b.accounts)}
    IN  [counts |-> [counts EXCEPT !.sources_updated = Cardinality(there),
                                   !.sources_created = Len(b.sources) - Cardinality(there),
                                   !.account_bindings_preserved = Cardinality(kept),
                                   !.account_bindings_cleared = Cardinality(bound \ kept)],
         conflicts |-> \E i \in DOMAIN b.sources, s \in Sources :
                           s # b.sources[i].id /\ srcs[s].there /\ srcs[s].book = b.sources[i].book]

-----------------------------------------------------------------------------
(* Imports: one row at a time. *)

imported_source_gate_Reopens(existing, usable) ==
    IF usable = "unusable" THEN "authentication_required" ELSE "ready"

\* What an account's binding means to the gate: not bound, usable or not.
imported_source_gate(existing, usable) ==
    CASE existing = "risk_controlled" -> "risk_controlled"
      [] existing # "risk_controlled" /\ usable = "unusable" -> "authentication_required"
      [] OTHER -> "ready"

ResolvedAccount(p, known) == IF p.account \in known THEN p.account ELSE None

\* The existing row, or a new one, after the record p is written over it.
ImportedSource(row, p, known, usable) ==
    LET account == ResolvedAccount(p, known)
        standing == IF account = None THEN "unbound"
                    ELSE IF account \in usable THEN "usable" ELSE "unusable"
        resumes == row.gate = "authentication_required" /\ standing = "usable"
        fields == [p EXCEPT !.account = account]
        written == IF row.there
                   THEN apply_patch(row, [f \in Portable |-> fields[f]])
                   ELSE NewSource(fields)
    IN  [written EXCEPT !.gate = imported_source_gate(row.gate, standing),
                        !.held = @ /\ ~resumes]

ImportedAccount(row, p) ==
    IF row.state = "absent"
    THEN [state |-> "setup_required", name |-> p.name, disabled |-> ~p.enabled]
    ELSE [row EXCEPT !.name = p.name, !.disabled = ~p.enabled]

\* resume_authentication_gated_sources, on one row.
ResumedSource(row) == [row EXCEPT !.gate = "ready", !.held = FALSE]
=============================================================================
