------------------------------ MODULE WebAdmin ------------------------------
(***************************************************************************)
(* The HTTP server's requests over the configuration tables: login and     *)
(* logout, sources, accounts, feed tokens, configuration transfer, feed    *)
(* delivery (web/admin.rs, web/api.rs over application/source_service.rs,  *)
(* feed_token_service.rs, persistence/repositories/source_repository.rs,   *)
(* feed_token_repository.rs, config_transfer_repository.rs).               *)
(*                                                                         *)
(* A request checks its session once, when it arrives, and takes effect    *)
(* after awaits.  An import is one transaction of many statements under    *)
(* READ COMMITTED: tx[r] holds the rows it has locked or written, which no *)
(* other request sees or writes before it ends.  A patch, a login and the  *)
(* switch of an account lock one row first and hold it (at "held") while   *)
(* they wait for a book or for the sources they resume.  Every other       *)
(* request commits in one step, which waits for the rows it needs.         *)
(***************************************************************************)
EXTENDS AdminSessions, ConfigTransfer

CONSTANTS
    Requests,   \* requests that may be sent
    Boot,       \* the name of a session from before the first request
    Workloads   \* what clients send, in which order, over which tables, with which faults

VARIABLES
    accounts,  \* weread_accounts
    lapsed,    \* accounts whose access_expires_at has passed
    sources,   \* sources
    token,     \* feed_tokens: the request that issued a source's token
    req,       \* req[r]: what r asks, where it is, its answer
    tx,        \* tx[r]: the rows an open import of r holds, and its locals
    edits,     \* history: commits so far
    ticks,     \* clock steps left in this workload
    faults     \* failures left in this workload

dbVars == <<accounts, lapsed, sources, token>>
vars == <<sessionVars, dbVars, req, tx, edits, ticks, faults>>

NoTx == [acc |-> <<>>, src |-> <<>>, i |-> 1, usable |-> {}, known |-> {}, counts |-> Counts]
NoResult == [counts |-> Counts, conflicts |-> FALSE, base |-> 0, steady |-> FALSE, file |-> None]

\* Kinds of request, by what is checked when they arrive.
Mutations ==
    {"logout", "create_source", "update_source", "delete_source", "set_enabled", "set_gate",
     "issue_feed_token", "provision", "replace", "complete_qr", "set_account_enabled",
     "delete_account", "preview", "import"}
Reads == {"export", "get_source", "get_account", "list_sync_runs"}
Pages == {"page"}
\* What other parts of the system do to the tables meanwhile.
Background == {"close_gate", "lapse"}
Kinds == Mutations \cup Reads \cup Pages \cup Background \cup {"login", "feed", "idle"}

\* Where a request is: not sent, checked, or in one of its later steps.
Steps == {"new", "act", "resolve", "load", "late", "held", "accounts", "account_write", "states",
          "lock", "write", "commit", "done"}

\* What a client may ask, and what a workload may be.
IsAsk(ask) ==
    /\ ask = [f \in {"kind", "cookie", "csrf", "after", "from", "bundle", "malformed", "resolve", "link",
                       "row", "src", "acct", "patch", "gate", "on", "token", "key", "right", "sections"} |-> ask[f]]
    /\ ask.kind \in Kinds /\ ask.src \in Sources /\ ask.acct \in Accounts /\ ask.key \in Keys
    /\ ask.gate \in Gates /\ ask.on \in BOOLEAN
    /\ DOMAIN ask.row = SourceFields /\ DOMAIN ask.patch \subseteq Portable
    /\ IsBundle(ask.bundle) /\ ask.from \in Requests \cup {None}
IsWorkload(w) ==
    /\ w.accounts = [a \in Accounts |-> w.accounts[a]] /\ \A a \in Accounts : IsAccount(w.accounts[a])
    /\ w.sources = [s \in Sources |-> w.sources[s]] /\ \A s \in Sources : IsSource(w.sources[s])
    /\ GoodRows(w.sources) /\ \A a \in Accounts : Named(w.accounts[a])
    /\ w.lapsed \subseteq Accounts
    /\ \A r \in Requests :
          IsAsk(w.asks[r]) /\ (w.asks[r].from # None => w.asks[w.asks[r].from].kind = "export")

ASSUME WebAssumption ==
    /\ IsFiniteSet(Sources) /\ IsFiniteSet(Accounts)
    /\ None \notin Requests \cup Books \cup Accounts /\ Blank \notin Sources \cup Accounts
    /\ \A w \in Workloads : IsWorkload(w)
    /\ \A visit \in PageVisits :
          DOMAIN visit.page.canonical = 1 .. Len(visit.page.canonical) /\ Len(visit.page.canonical) \in Nat

Ask(r) == req[r].ask
Kind(r) == req[r].ask.kind
Answer(r, reply) == req' = [req EXCEPT ![r] = [@ EXCEPT !.at = "done", !.reply = reply]]
Move(r, at) == req' = [req EXCEPT ![r] = [@ EXCEPT !.at = at]]

TypeOK ==
    /\ \A a \in Accounts : accounts[a].state \in {"absent", "setup_required", "enrolled"}
    /\ \A s \in Sources :
          /\ sources[s].gate \in Gates
          /\ token[s] \in Requests \cup {None}
    /\ \A r \in Requests : req[r].at \in Steps /\ Kind(r) \in Kinds
    /\ \A r \in Requests : req[r].at \in {"new", "done"} => tx[r] = NoTx

Init ==
    \E w \in Workloads :
        /\ accounts = w.accounts /\ lapsed = w.lapsed /\ sources = w.sources
        /\ token = [s \in Sources |-> None]
        /\ req = [r \in Requests |->
                     [ask |-> w.asks[r], reply |-> None, result |-> NoResult,
                      at |-> IF w.asks[r].kind = "idle" THEN "done" ELSE "new"]]
        /\ tx = [r \in Requests |-> NoTx] /\ edits = 0
        /\ ticks = w.ticks /\ faults = w.faults
        /\ SessionsInit(Requests \cup {Boot}, {Boot})

\* The bundle of a request: its own, or the file an export gave the client.
BundleOf(r) == IF Ask(r).from = None THEN Ask(r).bundle ELSE req[Ask(r).from].result.file

\* A client sends a request once the ones it builds on are answered.
Sendable(r) ==
    /\ req[r].at = "new"
    /\ \A q \in Ask(r).after : req[q].at = "done"
    /\ Ask(r).from # None => req[Ask(r).from].reply = "ok"

-----------------------------------------------------------------------------
(* What a client is told of an error. *)

auth_error_response(error) ==
    CASE error = "RateLimited" -> "rate_limited"
      [] error = "InvalidCsrf" -> "forbidden"
      [] OTHER -> "unauthorized"

application_error_response(error) ==
    CASE error = "BookIdConflict" -> "conflict"
      [] error = "NotFound" -> "not_found"
      [] error = "Domain" -> "invalid"
      [] OTHER -> "unavailable"

feed_token_error_response(error) ==
    CASE error = "SourceNotFound" -> "not_found"
      [] error \in {"InvalidSourceId", "InvalidToken"} -> "invalid"
      [] OTHER -> "unavailable"

auth_service_error_response(error) ==
    CASE error \in {"AccountNotFound", "NotFound"} -> "not_found"
      [] error = "Conflict" -> "conflict"
      [] error \in {"Invalid", "Credentials"} -> "invalid"
      [] OTHER -> "unavailable"

\* A statement the unique index refuses is a conflict; storage_error.
config_transfer_error_response(error) ==
    CASE error \in {"Conflict", "UniqueViolation"} -> "conflict"
      [] error = "Validation" -> "invalid"
      [] OTHER -> "unavailable"

identity_error_response(error) == IF error = "Browser" THEN "unavailable" ELSE "invalid"

-----------------------------------------------------------------------------
(* Arrival: the session, the CSRF token, the request itself. *)

\* protected_mutation, authenticate, and the redirect of a page.
Verdict(r) ==
    LET known == authenticate_cookie(Ask(r).cookie)
    IN  CASE Kind(r) \in Mutations \cup Reads /\ ~known -> auth_error_response("InvalidSession")
          [] Kind(r) \in Mutations /\ known /\ ~verify_csrf(Ask(r).cookie, Ask(r).csrf) ->
                auth_error_response("InvalidCsrf")
          [] Kind(r) \in Pages /\ ~known -> "redirect"
          [] OTHER -> "ok"

\* What a handler refuses before it touches the database: an unreadable
\* body, a bad id or value (malformed), a bundle that does not validate.
Malformed(r) ==
    \/ Ask(r).malformed
    \/ Kind(r) \in {"preview", "import"} /\ ~ValidBundle(BundleOf(r))

\* Where the handler goes on.
FirstStep(r) ==
    CASE Kind(r) = "import" -> IF BundleOf(r).accounts # <<>> THEN "accounts" ELSE "states"
      [] Kind(r) = "create_source" /\ Ask(r).resolve -> "resolve"
      [] Kind(r) = "complete_qr" -> "load"
      [] OTHER -> "act"

\* A body that cannot be read is refused by its extractor, before the handler
\* looks for a session; what the handler itself validates is refused after it.
Receive(r) ==
    /\ Sendable(r) /\ Kind(r) \notin {"login", "feed"} \cup Background
    /\ \/ Ask(r).malformed /\ Answer(r, "invalid")
       \/ IF Verdict(r) # "ok" THEN Answer(r, Verdict(r))
          ELSE IF Malformed(r) THEN Answer(r, "invalid")
          ELSE IF Kind(r) \in {"logout", "page"} THEN Answer(r, "ok")
          ELSE Move(r, FirstStep(r))
    /\ UNCHANGED <<sessionVars, dbVars, tx, edits, ticks, faults>>

\* login: no session is needed; the limiter decides.
Login(r) ==
    /\ Sendable(r) /\ Kind(r) = "login"
    /\ \/ LoginRefused(Ask(r).key) /\ Answer(r, auth_error_response("RateLimited"))
       \/ ~Ask(r).right /\ LoginWrong(Ask(r).key) /\ Answer(r, auth_error_response("InvalidCredentials"))
       \/ Ask(r).right /\ LoginRight(Ask(r).key, r) /\ Answer(r, "ok")
    /\ UNCHANGED <<dbVars, tx, edits, ticks, faults>>

-----------------------------------------------------------------------------
(* Rows, locks and waiting. *)

\* A statement of r sees what is committed under what r itself has written.
SourceSeen(r, s) == IF s \in DOMAIN tx[r].src THEN tx[r].src[s] ELSE sources[s]
AccountSeen(r, a) == IF a \in DOMAIN tx[r].acc THEN tx[r].acc[a] ELSE accounts[a]

Usable(row, a) == row.state = "enrolled" /\ ~row.disabled /\ a \notin lapsed

\* The sources that resume_authentication_gated_sources updates for a.
Gated(r, a) ==
    {s \in Sources : /\ SourceSeen(r, s).there /\ SourceSeen(r, s).account = a
                     /\ SourceSeen(r, s).gate = "authentication_required"}

\* The books another open import has written, or taken from a row.
BooksHeld(q) ==
    {tx[q].src[s].book : s \in DOMAIN tx[q].src}
        \cup {sources[s].book : s \in {s \in DOMAIN tx[q].src : sources[s].there}}

Record(r) == IF req[r].at \in {"accounts", "account_write"}
             THEN BundleOf(r).accounts[tx[r].i] ELSE BundleOf(r).sources[tx[r].i]

\* An import resumes the sources of an account that it enables.
ResumesOf(r) ==
    LET p == Record(r) IN
    IF /\ p.id \in DOMAIN tx[r].acc /\ tx[r].acc[p.id].disabled /\ p.enabled
       /\ Usable(ImportedAccount(tx[r].acc[p.id], p), p.id)
    THEN Gated(r, p.id) ELSE {}

\* A login resumes the sources of an account that is not disabled, an
\* administrator those of an account that becomes usable.
ResumedBy(r, a) ==
    IF \/ Kind(r) \in {"replace", "complete_qr"} /\ accounts[a].state # "absent" /\ ~accounts[a].disabled
       \/ /\ Kind(r) = "set_account_enabled" /\ accounts[a].disabled /\ Ask(r).on
          /\ Usable([accounts[a] EXCEPT !.disabled = FALSE], a)
    THEN Gated(r, a) ELSE {}

Known == {a \in Accounts : accounts[a].state # "absent"}
There == {s \in Sources : sources[s].there}

\* The rows and the books that the next statement of r writes or locks.  A
\* SELECT, UPDATE or DELETE passes by a row that is not committed yet; an
\* INSERT waits for it.
Needs(r) ==
    CASE req[r].at = "accounts" -> [acc |-> {Record(r).id} \cap Known, src |-> {}, book |-> {}]
      [] req[r].at = "account_write" -> [acc |-> {Record(r).id}, src |-> ResumesOf(r), book |-> {}]
      [] req[r].at = "lock" -> [acc |-> {}, src |-> {Record(r).id} \cap There, book |-> {}]
      [] req[r].at = "write" -> [acc |-> {}, src |-> {Record(r).id}, book |-> {Record(r).book}]
      [] req[r].at = "act" /\ Kind(r) = "create_source" ->
            [acc |-> {}, src |-> {}, book |-> {Ask(r).row.book}]
      [] req[r].at = "held" /\ Kind(r) = "update_source" ->
            [acc |-> {}, src |-> {Ask(r).src} \cap There,
             book |-> {apply_patch(sources[Ask(r).src], Ask(r).patch).book}]
      [] req[r].at = "held" /\ Kind(r) # "update_source" ->
            [acc |-> {Ask(r).acct} \cap Known, src |-> ResumedBy(r, Ask(r).acct), book |-> {}]
      [] req[r].at # "held" /\ Kind(r) \in {"update_source", "delete_source", "set_enabled", "set_gate",
                                            "issue_feed_token", "close_gate"} ->
            [acc |-> {}, src |-> {Ask(r).src} \cap There, book |-> {}]
      [] req[r].at # "held" /\ (Kind(r) = "provision" \/ (Kind(r) = "complete_qr" /\ ~req[r].result.steady)) ->
            [acc |-> {Ask(r).acct}, src |-> {}, book |-> {}]
      [] req[r].at # "held" /\ (\/ Kind(r) \in {"replace", "set_account_enabled", "delete_account"}
                                \/ Kind(r) = "complete_qr" /\ req[r].result.steady) ->
            [acc |-> {Ask(r).acct} \cap Known, src |-> {}, book |-> {}]
      [] OTHER -> [acc |-> {}, src |-> {}, book |-> {}]

\* The rows that q holds: those of its import, or the one it locked first.
\* A row that is locked but not written keeps nobody from its book: whoever
\* wants that is refused at once.
LockedSources(q) ==
    DOMAIN tx[q].src
        \cup {s \in Sources : req[q].at = "held" /\ Kind(q) = "update_source" /\ s = Ask(q).src}
LockedAccounts(q) ==
    DOMAIN tx[q].acc
        \cup {a \in Accounts : req[q].at = "held" /\ Kind(q) # "update_source" /\ a = Ask(q).acct}

\* The requests that the next statement of r waits for.
Waits(r) ==
    LET n == Needs(r) IN
    {q \in Requests \ {r} : \/ LockedAccounts(q) \cap n.acc # {}
                            \/ LockedSources(q) \cap n.src # {}
                            \/ BooksHeld(q) \cap n.book # {}}

At(r, at, kinds) == req[r].at = at /\ Kind(r) \in kinds /\ Waits(r) = {}

\* Another row has the book: the unique index refuses it.
BookTaken(r, s, b) == \E o \in Sources \ {s} : SourceSeen(r, o).there /\ SourceSeen(r, o).book = b

SourcesResumed(r, a) ==
    [s \in Sources |-> IF s \in ResumedBy(r, a) THEN ResumedSource(sources[s]) ELSE sources[s]]

Committed(r) == Answer(r, "ok") /\ edits' = edits + 1 /\ UNCHANGED <<sessionVars, tx, ticks, faults>>
Refused(r, reply) == Answer(r, reply) /\ UNCHANGED <<sessionVars, dbVars, tx, edits, ticks, faults>>

-----------------------------------------------------------------------------
(* Sources. *)

\* The name the client gave stays.
Identified(ask, found) ==
    LET row == [ask.row EXCEPT !.book = found.book,
                    !.look = IF @ # None THEN @ ELSE IF found.name # None THEN found.name ELSE found.book]
    IN  [ask EXCEPT !.row = row]

\* create_source: the identity is resolved by a browser, or is not found.
ResolveIdentity(r) ==
    /\ req[r].at = "resolve"
    /\ \E visit \in PageVisits : \E found \in {resolve(Ask(r).link, visit)} :
          \/ /\ found.error # None
             /\ Refused(r, identity_error_response(found.error))
          \/ /\ found.error = None
             /\ req' = [req EXCEPT ![r] = [@ EXCEPT !.at = "act", !.ask = Identified(Ask(r), found)]]
             /\ UNCHANGED <<sessionVars, dbVars, tx, edits, ticks, faults>>

\* A new UUID: no row and no open import has it.
Fresh(s) == ~sources[s].there /\ \A q \in Requests : s \notin DOMAIN tx[q].src

\* create.  The first sync of the row is SourceSync's subject.
CreateSource(r) ==
    /\ At(r, "act", {"create_source"}) /\ Fresh(Ask(r).src)
    /\ \/ /\ ~ValidSource(Ask(r).row)
          /\ Refused(r, application_error_response("Domain"))
       \/ /\ ValidSource(Ask(r).row) /\ BookTaken(r, Ask(r).src, Ask(r).row.book)
          /\ Refused(r, application_error_response("BookIdConflict"))
       \/ /\ ValidSource(Ask(r).row) /\ ~BookTaken(r, Ask(r).src, Ask(r).row.book)
          /\ sources' = [sources EXCEPT ![Ask(r).src] = NewSource(Ask(r).row)]
          /\ Committed(r)
          /\ UNCHANGED <<accounts, lapsed, token>>

\* update: SELECT ... FOR UPDATE holds the row that is patched.
SelectSource(r) ==
    /\ At(r, "act", {"update_source"})
    /\ \/ ~sources[Ask(r).src].there /\ Refused(r, application_error_response("NotFound"))
       \/ /\ sources[Ask(r).src].there
          /\ Move(r, "held")
          /\ UNCHANGED <<sessionVars, dbVars, tx, edits, ticks, faults>>

\* update: the row it holds is patched; only the UPDATE waits, for the book.
UpdateSource(r) ==
    /\ req[r].at = "held" /\ Kind(r) = "update_source"
    /\ \E s \in {Ask(r).src} : \E updated \in {apply_patch(sources[s], Ask(r).patch)} :
          \/ ~ValidSource(updated) /\ Refused(r, application_error_response("Domain"))
          \/ /\ Waits(r) = {} /\ ValidSource(updated) /\ BookTaken(r, s, updated.book)
             /\ Refused(r, application_error_response("BookIdConflict"))
          \/ /\ Waits(r) = {} /\ ValidSource(updated) /\ ~BookTaken(r, s, updated.book)
             /\ sources[s].there
             /\ sources' = [sources EXCEPT ![s] = updated]
             /\ Committed(r)
             /\ UNCHANGED <<accounts, lapsed, token>>

DeleteSource_KeepsToken(r) ==
    /\ At(r, "act", {"delete_source"})
    /\ \E s \in {Ask(r).src} :
          \/ ~sources[s].there /\ Refused(r, application_error_response("NotFound"))
          \/ /\ sources[s].there
             /\ sources' = [sources EXCEPT ![s] = NoSource]
             /\ Committed(r)
             /\ UNCHANGED <<accounts, lapsed, token>>

\* delete: the token goes with the row.  Its jobs are SourceSync's subject.
DeleteSource(r) ==
    /\ At(r, "act", {"delete_source"})
    /\ \E s \in {Ask(r).src} :
          \/ ~sources[s].there /\ Refused(r, application_error_response("NotFound"))
          \/ /\ sources[s].there
             /\ sources' = [sources EXCEPT ![s] = NoSource]
             /\ token' = [token EXCEPT ![s] = None]
             /\ Committed(r)
             /\ UNCHANGED <<accounts, lapsed>>

SetField(r, kind, field, value) ==
    /\ At(r, "act", {kind})
    /\ \/ ~sources[Ask(r).src].there /\ Refused(r, application_error_response("NotFound"))
       \/ /\ sources[Ask(r).src].there
          /\ sources' = [sources EXCEPT ![Ask(r).src] = [@ EXCEPT ![field] = value]]
          /\ Committed(r)
          /\ UNCHANGED <<accounts, lapsed, token>>

SetEnabled(r) == SetField(r, "set_enabled", "enabled", Ask(r).on)
SetGate(r) == SetField(r, "set_gate", "gate", Ask(r).gate)

\* FeedTokenRepository::replace and find_source; a token is named by the
\* request that issued it, and parses when some request did.
replace(tokens, s, t) == [tokens EXCEPT ![s] = t]
find_source(t) == {s \in Sources : token[s] # None /\ token[s] = t}
parse(t) == t \in Requests

\* issue: the foreign key refuses a token of no source.
IssueFeedToken(r) ==
    /\ At(r, "act", {"issue_feed_token"})
    /\ \/ /\ ~sources[Ask(r).src].there
          /\ Refused(r, feed_token_error_response("SourceNotFound"))
       \/ /\ sources[Ask(r).src].there
          /\ token' = replace(token, Ask(r).src, r)
          /\ Committed(r)
          /\ UNCHANGED <<accounts, lapsed, sources>>

\* Reads answer from what is committed.  The history of a source is read
\* after the source was found; a source deleted meanwhile has none.
GetSource(r) ==
    /\ At(r, "act", {"get_source"})
    /\ Refused(r, IF sources[Ask(r).src].there THEN "ok" ELSE "not_found")

GetAccount(r) ==
    /\ At(r, "act", {"get_account"})
    /\ Refused(r, IF accounts[Ask(r).acct].state # "absent" THEN "ok" ELSE "not_found")

ListSyncRuns(r) ==
    /\ At(r, "act", {"list_sync_runs"})
    /\ Refused(r, IF sources[Ask(r).src].there THEN "ok" ELSE "not_found")

\* The feed's token is resolved, and the feed of its source is delivered later.
ResolveToken(r) ==
    /\ Sendable(r) /\ Kind(r) = "feed"
    /\ \/ /\ ~parse(Ask(r).token) \/ find_source(Ask(r).token) = {}
          /\ Refused(r, "not_found")
       \/ /\ parse(Ask(r).token)
          /\ \E s \in find_source(Ask(r).token) :
                req' = [req EXCEPT ![r] = [@ EXCEPT !.at = "act", !.ask = [Ask(r) EXCEPT !.src = s]]]
          /\ UNCHANGED <<sessionVars, dbVars, tx, edits, ticks, faults>>

DeliverFeed(r) ==
    /\ At(r, "act", {"feed"})
    /\ Refused(r, IF sources[Ask(r).src].there THEN "ok" ELSE "unavailable")

-----------------------------------------------------------------------------
(* Accounts.  Leases and versions are AccountCredentials' subject. *)

EnrolledRow == [state |-> "enrolled", name |-> "login", disabled |-> FALSE]

ProvisionAccount(r) ==
    /\ \/ At(r, "act", {"provision"})
       \/ At(r, "late", {"complete_qr"}) /\ ~req[r].result.steady
    /\ \/ accounts[Ask(r).acct].state # "absent" /\ Refused(r, auth_service_error_response("Conflict"))
       \/ /\ accounts[Ask(r).acct].state = "absent"
          /\ accounts' = [accounts EXCEPT ![Ask(r).acct] = EnrolledRow]
          /\ lapsed' = lapsed \ {Ask(r).acct}
          /\ Committed(r)
          /\ UNCHANGED <<sources, token>>

\* complete_weread_qr_login: whether the account exists decides how to store.
LookUpAccount(r) ==
    /\ req[r].at = "load"
    /\ req' = [req EXCEPT ![r] = [@ EXCEPT !.at = "late",
                 !.result = [req[r].result EXCEPT !.steady = accounts[Ask(r).acct].state # "absent"]]]
    /\ UNCHANGED <<sessionVars, dbVars, tx, edits, ticks, faults>>

\* replace, enroll_placeholder, set_disabled: the account's row is written,
\* and held until the sources are resumed.
SelectAccount(r) ==
    /\ \/ At(r, "act", {"replace", "set_account_enabled"})
       \/ At(r, "late", {"complete_qr"}) /\ req[r].result.steady
    /\ \/ accounts[Ask(r).acct].state = "absent" /\ Refused(r, auth_service_error_response("AccountNotFound"))
       \/ /\ accounts[Ask(r).acct].state # "absent"
          /\ Move(r, "held")
          /\ UNCHANGED <<sessionVars, dbVars, tx, edits, ticks, faults>>

\* resume_authentication_gated_sources waits for the sources; then COMMIT.
ReplaceAccount(r) ==
    /\ At(r, "held", {"replace", "complete_qr"})
    /\ accounts[Ask(r).acct].state # "absent"
    /\ accounts' = [accounts EXCEPT ![Ask(r).acct] =
                      [EnrolledRow EXCEPT !.disabled = accounts[Ask(r).acct].disabled]]
    /\ lapsed' = lapsed \ {Ask(r).acct}
    /\ sources' = SourcesResumed(r, Ask(r).acct)
    /\ Committed(r)
    /\ UNCHANGED token

SetAccountEnabled(r) ==
    /\ At(r, "held", {"set_account_enabled"})
    /\ accounts[Ask(r).acct].state # "absent"
    /\ accounts' = [accounts EXCEPT ![Ask(r).acct] = [@ EXCEPT !.disabled = ~Ask(r).on]]
    /\ sources' = SourcesResumed(r, Ask(r).acct)
    /\ Committed(r)
    /\ UNCHANGED <<lapsed, token>>

DeleteAccount(r) ==
    /\ At(r, "act", {"delete_account"})
    /\ \/ accounts[Ask(r).acct].state = "absent" /\ Refused(r, auth_service_error_response("AccountNotFound"))
       \/ /\ accounts[Ask(r).acct].state # "absent"
          /\ accounts' = [accounts EXCEPT ![Ask(r).acct] = NoAccount]
          /\ lapsed' = lapsed \ {Ask(r).acct}
          /\ Committed(r)
          /\ UNCHANGED <<sources, token>>

-----------------------------------------------------------------------------
(* Configuration transfer. *)

\* export: one REPEATABLE READ snapshot.
ExportConfig(r) ==
    /\ At(r, "act", {"export"})
    /\ \E file \in {ExportBundle(Ask(r).sections, sources, accounts)} :
          \/ /\ SelectionEmpty(Ask(r).sections) \/ ~serialize_limited(file)
             /\ Refused(r, config_transfer_error_response("Validation"))
          \/ /\ ~SelectionEmpty(Ask(r).sections) /\ serialize_limited(file)
             /\ req' = [req EXCEPT ![r] = [@ EXCEPT !.at = "done", !.reply = "ok",
                          !.result = [req[r].result EXCEPT !.base = edits, !.file = file]]]
             /\ UNCHANGED <<sessionVars, dbVars, tx, edits, ticks, faults>>

\* preview: two queries outside any transaction.
PreviewAccounts(r) ==
    /\ At(r, "act", {"preview"})
    /\ Move(r, "late")
    /\ tx' = [tx EXCEPT ![r] = [@ EXCEPT !.known = Known, !.i = edits,
                                         !.counts = preview_accounts(BundleOf(r), Known)]]
    /\ UNCHANGED <<sessionVars, dbVars, edits, ticks, faults>>

PreviewSources(r) ==
    /\ At(r, "late", {"preview"})
    /\ \E told \in {preview_sources(BundleOf(r), tx[r].counts, tx[r].known, sources)} :
          req' = [req EXCEPT ![r] = [@ EXCEPT !.at = "done", !.reply = "ok",
                    !.result = [req[r].result EXCEPT !.counts = told.counts, !.conflicts = told.conflicts,
                                         !.base = edits, !.steady = tx[r].i = edits]]]
    /\ tx' = [tx EXCEPT ![r] = NoTx]
    /\ UNCHANGED <<sessionVars, dbVars, edits, ticks, faults>>

\* The transaction ends without a trace.
Rollback(r, reply) ==
    /\ req' = [req EXCEPT ![r] = [@ EXCEPT !.at = "done", !.reply = reply,
                                           !.result = [req[r].result EXCEPT !.base = edits]]]
    /\ tx' = [tx EXCEPT ![r] = NoTx]
    /\ UNCHANGED <<sessionVars, dbVars, edits, ticks>>

Statement(r, at, held) ==
    /\ Move(r, at)
    /\ tx' = [tx EXCEPT ![r] = held]
    /\ UNCHANGED <<sessionVars, dbVars, edits, ticks, faults>>

\* The rows held, with v for x.
Put(rows, x, v) == [y \in DOMAIN rows \cup {x} |-> IF y = x THEN v ELSE rows[y]]

\* One more of each of these.
Add(counts, fields) == [f \in DOMAIN counts |-> IF f \in fields THEN counts[f] + 1 ELSE counts[f]]

\* SELECT ... FOR UPDATE: a row that is there is locked.
LockAccount(r) ==
    /\ At(r, "accounts", {"import"})
    /\ \E a \in {Record(r).id} :
          Statement(r, "account_write",
                    [tx[r] EXCEPT !.acc = IF accounts[a].state = "absent" THEN @ ELSE Put(@, a, AccountSeen(r, a))])

\* The UPDATE and the sources it resumes, or the INSERT of a placeholder,
\* which another insert may have overtaken.
WriteAccount(r) ==
    /\ At(r, "account_write", {"import"})
    /\ \E p \in {Record(r)} : \E found \in {p.id \in DOMAIN tx[r].acc} :
          \/ /\ ~found /\ accounts[p.id].state # "absent"
             /\ Rollback(r, config_transfer_error_response("UniqueViolation")) /\ UNCHANGED faults
          \/ /\ found \/ accounts[p.id].state = "absent"
             /\ Statement(r, IF tx[r].i < Len(BundleOf(r).accounts) THEN "accounts" ELSE "states",
                   [tx[r] EXCEPT
                      !.acc = Put(@, p.id, ImportedAccount(AccountSeen(r, p.id), p)),
                      !.src = [s \in DOMAIN @ \cup ResumesOf(r) |->
                                  IF s \in ResumesOf(r) THEN ResumedSource(SourceSeen(r, s)) ELSE @[s]],
                      !.i = IF tx[r].i < Len(BundleOf(r).accounts) THEN @ + 1 ELSE 1,
                      !.counts = Add(@, IF found THEN {"accounts_updated"} ELSE {"accounts_created"})])

ReadAccountStates_Committed(r) ==
    /\ At(r, "states", {"import"})
    /\ Statement(r, IF BundleOf(r).sources = <<>> THEN "commit" ELSE "lock",
          [tx[r] EXCEPT !.known = Known, !.usable = {a \in Accounts : Usable(accounts[a], a)}])

\* The accounts and whether they are usable, read once for all the sources.
ReadAccountStates(r) ==
    /\ At(r, "states", {"import"})
    /\ Statement(r, IF BundleOf(r).sources = <<>> THEN "commit" ELSE "lock",
          [tx[r] EXCEPT !.known = {a \in Accounts : AccountSeen(r, a).state # "absent"},
                        !.usable = {a \in Accounts : Usable(AccountSeen(r, a), a)}])

LockSource(r) ==
    /\ At(r, "lock", {"import"})
    /\ \E s \in {Record(r).id} :
          Statement(r, "write",
                    [tx[r] EXCEPT !.src = IF SourceSeen(r, s).there THEN Put(@, s, SourceSeen(r, s)) ELSE @])

WriteSource_RetriesConflict(r) ==
    /\ At(r, "write", {"import"})
    /\ \E p \in {Record(r)} : \E found \in {p.id \in DOMAIN tx[r].src} :
          \/ /\ BookTaken(r, p.id, p.book) \/ (~found /\ sources[p.id].there)
             /\ Statement(r, "write", tx[r])
          \/ /\ ~BookTaken(r, p.id, p.book) /\ (found \/ ~sources[p.id].there)
             /\ Statement(r, IF tx[r].i < Len(BundleOf(r).sources) THEN "lock" ELSE "commit",
                   [tx[r] EXCEPT
                      !.src = Put(@, p.id, ImportedSource(SourceSeen(r, p.id), p, tx[r].known, tx[r].usable)),
                      !.i = IF tx[r].i < Len(BundleOf(r).sources) THEN @ + 1 ELSE 1,
                      !.counts =
                         Add(@, {IF found THEN "sources_updated" ELSE "sources_created"}
                                \cup (IF p.account \in tx[r].known THEN {"account_bindings_preserved"}
                                      ELSE IF p.account # None THEN {"account_bindings_cleared"} ELSE {}))])

\* The conflict query and the write; the unique index and the primary key
\* refuse what another request committed since.
WriteSource(r) ==
    /\ At(r, "write", {"import"})
    /\ \E p \in {Record(r)} : \E found \in {p.id \in DOMAIN tx[r].src} :
          \/ /\ BookTaken(r, p.id, p.book) \/ (~found /\ sources[p.id].there)
             /\ Rollback(r, config_transfer_error_response("Conflict")) /\ UNCHANGED faults
          \/ /\ ~BookTaken(r, p.id, p.book) /\ (found \/ ~sources[p.id].there)
             /\ Statement(r, IF tx[r].i < Len(BundleOf(r).sources) THEN "lock" ELSE "commit",
                   [tx[r] EXCEPT
                      !.src = Put(@, p.id, ImportedSource(SourceSeen(r, p.id), p, tx[r].known, tx[r].usable)),
                      !.i = IF tx[r].i < Len(BundleOf(r).sources) THEN @ + 1 ELSE 1,
                      !.counts =
                         Add(@, {IF found THEN "sources_updated" ELSE "sources_created"}
                                \cup (IF p.account \in tx[r].known THEN {"account_bindings_preserved"}
                                      ELSE IF p.account # None THEN {"account_bindings_cleared"} ELSE {}))])

\* COMMIT; the answer is the counts, unless it is lost.
CommitImport(r, reply) ==
    /\ At(r, "commit", {"import"})
    /\ accounts' = [a \in Accounts |-> AccountSeen(r, a)]
    /\ sources' = [s \in Sources |-> SourceSeen(r, s)]
    /\ req' = [req EXCEPT ![r] = [@ EXCEPT !.at = "done", !.reply = reply,
                 !.result = [req[r].result EXCEPT !.counts = tx[r].counts, !.base = edits]]]
    /\ tx' = [tx EXCEPT ![r] = NoTx]
    /\ edits' = edits + 1
    /\ UNCHANGED <<sessionVars, lapsed, token, ticks>>

ImportStep(r) ==
    \/ LockAccount(r) \/ WriteAccount(r) \/ ReadAccountStates(r)
    \/ LockSource(r) \/ WriteSource(r)
    \/ CommitImport(r, "ok") /\ UNCHANGED faults

-----------------------------------------------------------------------------
(* The rest of the system, time and failures. *)

\* A worker closes a gate; credentials reach their expiry.
CloseGate(r) ==
    /\ Sendable(r) /\ Kind(r) = "close_gate" /\ Waits(r) = {}
    /\ sources' = IF sources[Ask(r).src].there
                  THEN [sources EXCEPT ![Ask(r).src] = [@ EXCEPT !.gate = Ask(r).gate, !.held = FALSE]]
                  ELSE sources
    /\ Answer(r, "ok")
    /\ UNCHANGED <<sessionVars, accounts, lapsed, token, tx, edits, ticks, faults>>

Lapse(r) ==
    /\ Sendable(r) /\ Kind(r) = "lapse"
    /\ lapsed' = IF accounts[Ask(r).acct].state = "enrolled" THEN lapsed \cup {Ask(r).acct} ELSE lapsed
    /\ Answer(r, "ok")
    /\ UNCHANGED <<sessionVars, accounts, sources, token, tx, edits, ticks, faults>>

Tick ==
    /\ ticks > 0
    /\ now' = now + 1 /\ ticks' = ticks - 1
    /\ UNCHANGED <<limiter, session, guesses, dbVars, req, tx, edits, faults>>

\* The database is lost for one request: an open transaction rolls back, a
\* commit that was sent may have happened.
StorageFails(r) ==
    /\ faults > 0 /\ faults' = faults - 1
    /\ req[r].at \notin {"new", "done"}
    /\ \/ Rollback(r, "unavailable")
       \/ CommitImport(r, "unavailable")

\* r waits, through whomever, for itself: every set of requests that holds
\* those r waits for, and with each those it waits for, holds r too.
Deadlocked(r) ==
    /\ Waits(r) # {}
    /\ \A S \in SUBSET Requests :
          (Waits(r) \subseteq S /\ \A q \in S : Waits(q) \subseteq S) => r \in S

\* PostgreSQL aborts a transaction of a cycle, whatever its request is.
DeadlockVictim(r) ==
    /\ req[r].at \notin {"new", "done"} /\ Deadlocked(r)
    /\ Rollback(r, "unavailable") /\ UNCHANGED faults

\* The process ends: its requests go unanswered, its transactions roll back.
Restart ==
    /\ faults > 0 /\ faults' = faults - 1
    /\ req' = [r \in Requests |-> IF req[r].at \in {"new", "done"} THEN req[r]
                                  ELSE [req[r] EXCEPT !.at = "done", !.reply = "lost"]]
    /\ tx' = [r \in Requests |-> NoTx]
    /\ LimiterLost
    /\ UNCHANGED <<dbVars, edits, ticks>>

Progress(r) ==
    \/ ResolveIdentity(r) \/ CreateSource(r) \/ SelectSource(r) \/ UpdateSource(r) \/ DeleteSource(r)
    \/ SetEnabled(r) \/ SetGate(r) \/ IssueFeedToken(r) \/ DeliverFeed(r)
    \/ GetSource(r) \/ GetAccount(r) \/ ListSyncRuns(r)
    \/ ProvisionAccount(r) \/ LookUpAccount(r) \/ SelectAccount(r) \/ ReplaceAccount(r)
    \/ SetAccountEnabled(r) \/ DeleteAccount(r)
    \/ ExportConfig(r) \/ PreviewAccounts(r) \/ PreviewSources(r) \/ ImportStep(r)
    \/ DeadlockVictim(r)

Next ==
    \/ \E r \in Requests : \/ Receive(r) \/ Login(r) \/ ResolveToken(r) \/ Progress(r)
                           \/ CloseGate(r) \/ Lapse(r) \/ StorageFails(r)
    \/ Tick \/ Restart

\* A request that was received is a task of the runtime, and the database
\* goes on with a statement whose rows are free.  Nothing is assumed of
\* clients, clocks or faults.
Fairness == \A r \in Requests : WF_vars(Progress(r))

Spec == Init /\ [][Next]_vars /\ Fairness

-----------------------------------------------------------------------------
(* Properties. *)

(* The feed revision is what invalidates a source's cached feed.  Whoever  *)
(* writes a source that stays (an administrator, an import that waited for *)
(* its row, a worker), the revision moves forward by one when something    *)
(* readers see has changed, and stays when nothing has: importing the same *)
(* bundle twice, or an export of this database, invalidates nothing.       *)
RevisionFollowsFeed ==
    [][\A s \in Sources : sources[s].there /\ sources'[s].there =>
           sources'[s].rev = sources[s].rev
               + (IF FeedVisible(sources'[s]) # FeedVisible(sources[s]) THEN 1 ELSE 0)]_vars

(* No import, login or edit reopens a source that risk control closed,     *)
(* also when a worker closed it while the import ran: only set_gate does,  *)
(* or a worker whose sync ends for want of authentication.                 *)
RiskStaysClosed ==
    [][\A s \in Sources :
           (sources[s].gate = "risk_controlled" /\ sources'[s].there /\ sources'[s].gate # "risk_controlled")
               => \E r \in Requests : /\ Kind(r) \in {"set_gate", "close_gate"} /\ Ask(r).src = s
                                     /\ req[r].at # req'[r].at]_vars

Imports(r) == Kind(r) = "import" /\ req[r].at = "commit" /\ edits' > edits /\ req'[r].at = "done"

(* What an import leaves: every source of the bundle has the bundle's      *)
(* fields, an account of the bundle stays bound, and the gate of a source  *)
(* bound to such an account agrees with the account; nothing outside the   *)
(* bundle changes but the gates of sources whose account it enables.       *)
WholeBundle(r) ==
    LET b == BundleOf(r) IN
    /\ \A i \in DOMAIN b.sources :
          LET p == b.sources[i]
              row == sources'[p.id]
          IN  /\ row.there
              /\ \A f \in Portable \ {"account"} : row[f] = p[f]
              /\ row.account \in {p.account, None}
              /\ p.account \in Ids(b.accounts) =>
                    /\ row.account = p.account
                    /\ accounts'[p.account].state = "enrolled" /\ ~accounts'[p.account].disabled
                           /\ p.account \notin lapsed
                       => row.gate # "authentication_required"
                    /\ accounts'[p.account].state # "enrolled" \/ accounts'[p.account].disabled
                       => row.gate # "ready"
    /\ \A i \in DOMAIN b.accounts :
          /\ accounts'[b.accounts[i].id].name = b.accounts[i].name
          /\ accounts'[b.accounts[i].id].disabled = ~b.accounts[i].enabled
    /\ \A s \in Sources \ Ids(b.sources) :
          \/ sources'[s] = sources[s]
          \/ /\ sources[s].account \in Ids(b.accounts)
             /\ sources'[s] = ResumedSource(sources[s])
    /\ \A a \in Accounts \ Ids(b.accounts) : accounts'[a] = accounts[a]

(* An import takes effect as a whole or not at all: what is committed with *)
(* it is its whole bundle and nothing else, also when other requests ran   *)
(* between its statements.                                                 *)
ImportIsWhole == [][\A r \in Requests : Imports(r) => WholeBundle(r)]_vars

(* A preview that reports no conflict is kept: when its import was sent    *)
(* after it and nothing was committed from the preview's first query until *)
(* the import ended, the import is not refused for a conflict, and its     *)
(* counts are the announced ones.                                          *)
PreviewKept ==
    \A p, q \in Requests :
        (/\ Kind(p) = "preview" /\ req[p].reply = "ok" /\ req[p].result.steady
         /\ Kind(q) = "import" /\ req[q].reply \in {"ok", "conflict"} /\ p \in Ask(q).after
         /\ BundleOf(p) = BundleOf(q) /\ req[p].result.base = req[q].result.base
         /\ ~req[p].result.conflicts)
        => req[q].reply = "ok" /\ req[q].result.counts = req[p].result.counts

(* What the server exports it takes back: every row that requests, imports *)
(* and their interleavings can leave in the tables is one that a bundle    *)
(* may hold, and an export of the database as it is does not conflict.     *)
ExportComesBack ==
    \A e \in Requests : (Kind(e) = "export" /\ req[e].reply = "ok") =>
        /\ ValidBundle(req[e].result.file)
        /\ \A q \in Requests : (Kind(q) = "import" /\ Ask(q).from = e) =>
              ~(req[q].reply = "conflict" /\ req[q].result.base = req[e].result.base)

\* Tokens that clients may still hold and that serve nothing.
Issued == {r \in Requests : Kind(r) = "issue_feed_token" /\ req[r].reply = "ok"}
Retired == {r \in Issued : \A s \in Sources : token[s] = r => ~sources[s].there}

(* A feed URL that stopped working never works again: not when its source  *)
(* is issued another token, and not when the source is deleted and an      *)
(* import brings back its id.                                              *)
RetiredTokenStaysRetired == [][Retired \subseteq Retired']_vars

(* Whatever a request changed, it was sent with the cookie of a login that *)
(* succeeded and with that session's own CSRF token, over restarts too.    *)
OnlySessionsChange ==
    [][edits' # edits =>
          \E r \in Requests : /\ req[r].at \notin {"new", "done"} /\ req'[r].at = "done"
                              /\ Ask(r).cookie = Ask(r).csrf
                              /\ \/ Ask(r).cookie = Boot
                                 \/ /\ Ask(r).cookie \in Requests /\ Ask(Ask(r).cookie).right
                                    /\ req[Ask(r).cookie].reply = "ok"]_vars

(* An article is ascribed to the account it belongs to.  A link that names *)
(* an account decides alone.  Otherwise a browser was opened, shown a page *)
(* of the article host that is no verification page, and closed; the       *)
(* account the final address names decides, whatever the page says; an     *)
(* article that is only linked to in the body decides nothing unless the   *)
(* page itself is silent; and a value that does not decode hides none of   *)
(* the address, the script and the message link (it may hide a canonical). *)
AscribedToItsAccount ==
    \A r \in Requests : req[r].at = "resolve" => \A visit \in PageVisits :
        LET url == Ask(r).link
            found == resolve(url, visit)
            page == visit.page
            first == {visit.final.biz, page.script, biz_from_string_url(page.message)}
            own == first \cup {biz_from_string_url(l) : l \in ToSet(page.canonical)}
        IN  /\ found.error = None =>
                  \/ url.biz # None /\ found.book = url.biz
                  \/ /\ url.biz = None /\ visit.opens /\ visit.loads /\ visit.closes
                     /\ visit.final.safe /\ visit.final.public /\ ~page.verify
                     /\ visit.final.biz \in Books => found.book = visit.final.biz
                     /\ IF own = {None} THEN found.book = page.embedded.biz ELSE found.book \in own
            /\ (found.error \in {"InvalidBiz", "MissingIdentity"} /\ url.biz = None) => first \cap Books = {}

(* Every request that was received is answered, whoever holds the rows and *)
(* the books it waits for: an import or an edit that fails gives back what *)
(* others wait for, and of imports, patches and logins that wait for each  *)
(* other in a circle one is refused and frees the rest.                    *)
EveryRequestAnswered ==
    \A r \in Requests : (req[r].at \notin {"new", "done"}) ~> (req[r].at = "done")

(* What holds between requests: tables and transactions have their shape,  *)
(* guesses stay bounded, and articles are ascribed to their accounts.      *)
WebInv == TypeOK /\ GuessesBounded /\ AscribedToItsAccount

(* A bundle means the same to export, preview and import.                  *)
BundlesAgree == PreviewKept /\ ExportComesBack

(* What a source's row may never suffer, whoever writes it.                *)
SourcesKept == RevisionFollowsFeed /\ RiskStaysClosed

(* Access is never gained: not by a retired feed URL, nor by a request     *)
(* without a session of its own.                                           *)
AccessKept == RetiredTokenStaysRetired /\ OnlySessionsChange
=============================================================================
