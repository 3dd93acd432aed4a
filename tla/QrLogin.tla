------------------------------ MODULE QrLogin ------------------------------
(***************************************************************************)
(* The QR login attempts of one API process: the map of attempts, the lock *)
(* of each attempt, the cookie jars of the transport, and the requests     *)
(* that start, poll and cancel attempts (application/qr_login.rs over      *)
(* acquisition/weread_qr.rs, called by web/admin.rs).                      *)
(*                                                                         *)
(* A request holds an attempt's lock while it waits for the upstream       *)
(* service, and takes the map's lock only for single look-ups and          *)
(* updates.  It gives the attempt's lock back before it removes the        *)
(* attempt from the map.                                                   *)
(***************************************************************************)
EXTENDS Naturals, FiniteSets

CONSTANTS
    Requests,   \* requests of administrators, each served once
    Attempts,   \* identifiers start can draw
    MaxActive,  \* max_active_attempts
    Ttl,        \* attempt_ttl
    MaxTime     \* bound: the clock stops here

NoRequest == "no request"
NoAttempt == "no attempt"

ASSUME QrNamesAssumption == NoRequest \notin Requests /\ NoAttempt \notin Attempts
ASSUME QrBoundsAssumption ==
    MaxActive \in Nat \ {0} /\ Ttl \in Nat \ {0} /\ MaxTime \in Nat

VARIABLES
    now,       \* the process's clock
    attempts,  \* the attempts in the map
    expires,   \* expires[a]: the deadline of attempt a
    locked,    \* locked[a]: the request that holds a's lock
    jars,      \* attempts whose challenge has transport state
    request,   \* request[r]: where request r is
    drawn      \* history: attempts whose challenge was ever created

qrVars == <<now, attempts, expires, locked, jars, request, drawn>>

\* What a request answers.
Answers ==
    {"none", "started", "too_many", "not_found", "unavailable", "waiting",
     "expired", "risk_controlled", "authenticated", "cancelled"}

\* new -> capacity -> begin -> insert, and new -> lock -> current -> upstream ->
\* remove (or expire -> release), each ending in done.
Steps ==
    {"new", "capacity", "begin", "insert", "abandon", "lock", "current",
     "upstream", "remove", "expire", "release", "done"}

RequestRecord ==
    [pc : Steps, op : {"none", "start", "poll", "cancel"},
     attempt : Attempts \cup {NoAttempt}, at : Nat, answer : Answers]

QrInit ==
    /\ now = 0
    /\ attempts = {}
    /\ expires = [a \in Attempts |-> 0]
    /\ locked = [a \in Attempts |-> NoRequest]
    /\ jars = {}
    /\ request = [r \in Requests |-> [pc |-> "new", op |-> "none", attempt |-> NoAttempt,
                                      at |-> 0, answer |-> "none"]]
    /\ drawn = {}

GoOn(r, pc) == request' = [request EXCEPT ![r] = [@ EXCEPT !.pc = pc]]
Answer(r, pc, answer) ==
    request' = [request EXCEPT ![r] = [@ EXCEPT !.pc = pc, !.answer = answer]]

Unlock(a) == locked' = [locked EXCEPT ![a] = NoRequest]

-----------------------------------------------------------------------------
(* start_at. *)

\* prune_expired: the attempts past the request's clock that nobody holds; their
\* transport state goes with them.
Prunable(at) == {a \in attempts : locked[a] = NoRequest /\ expires[a] <= at}

Start(r) ==
    /\ request[r].pc = "new"
    /\ request' = [request EXCEPT ![r] = [@ EXCEPT !.pc = "capacity", !.op = "start",
                                                   !.at = now]]
    /\ attempts' = attempts \ Prunable(now)
    /\ jars' = jars \ Prunable(now)
    /\ UNCHANGED <<now, expires, locked, drawn>>

CheckCapacity(r) ==
    /\ request[r].pc = "capacity"
    /\ IF Cardinality(attempts) >= MaxActive THEN Answer(r, "done", "too_many")
       ELSE GoOn(r, "begin")
    /\ UNCHANGED <<now, attempts, expires, locked, jars, drawn>>

\* transport.begin and the QR image; then the map is pruned again, by the clock
\* the request started with.
Begin(r, a) ==
    /\ request[r].pc = "begin"
    /\ a \notin drawn
    /\ drawn' = drawn \cup {a}
    /\ LET old == Prunable(request[r].at) IN
       /\ attempts' = attempts \ old
       /\ jars' = (jars \ old) \cup {a}
    /\ expires' = [expires EXCEPT ![a] = request[r].at + Ttl]
    /\ request' = [request EXCEPT ![r] = [@ EXCEPT !.pc = "insert", !.attempt = a]]
    /\ UNCHANGED <<now, locked>>

BeginFails(r) ==
    /\ request[r].pc = "begin"
    /\ Answer(r, "done", "unavailable")
    /\ UNCHANGED <<now, attempts, expires, locked, jars, drawn>>

\* Mutant: the capacity was checked before the challenge was created.
InsertUnchecked(r) ==
    /\ request[r].pc = "insert"
    /\ attempts' = attempts \cup {request[r].attempt}
    /\ Answer(r, "done", "started")
    /\ UNCHANGED <<now, expires, locked, jars, drawn>>

\* The second check and the insertion are under one lock of the map.
Insert(r) ==
    /\ request[r].pc = "insert"
    /\ IF Cardinality(attempts) >= MaxActive
       THEN Answer(r, "abandon", "too_many") /\ UNCHANGED attempts
       ELSE /\ attempts' = attempts \cup {request[r].attempt}
            /\ Answer(r, "done", "started")
    /\ UNCHANGED <<now, expires, locked, jars, drawn>>

\* release_transport of the challenge that found no place.
Abandon(r) ==
    /\ request[r].pc = "abandon"
    /\ jars' = jars \ {request[r].attempt}
    /\ GoOn(r, "done")
    /\ UNCHANGED <<now, attempts, expires, locked, drawn>>

-----------------------------------------------------------------------------
(* poll_at_with_clock and cancel_at. *)

Ops == {"poll", "cancel"}

\* The cell is looked up under the lock of the map; only started attempts are known.
LookUp(r, a, op) ==
    /\ request[r].pc = "new"
    /\ a \in drawn
    /\ request' = [request EXCEPT ![r] =
          [pc |-> IF a \in attempts THEN "lock" ELSE "done", op |-> op, attempt |-> a,
           at |-> now, answer |-> IF a \in attempts THEN "none" ELSE "not_found"]]
    /\ UNCHANGED <<now, attempts, expires, locked, jars, drawn>>

Lock(r) ==
    LET a == request[r].attempt IN
    /\ request[r].pc = "lock"
    /\ locked[a] = NoRequest
    /\ locked' = [locked EXCEPT ![a] = r]
    /\ GoOn(r, "current")
    /\ UNCHANGED <<now, attempts, expires, jars, drawn>>

\* is_current_attempt, then the deadline by the clock read before the lock.
CheckCurrent(r) ==
    LET a == request[r].attempt IN
    /\ request[r].pc = "current"
    /\ \/ /\ a \notin attempts
          /\ Answer(r, "done", "not_found")
          /\ Unlock(a)
       \/ /\ a \in attempts
          /\ request[r].op = "poll" /\ expires[a] <= request[r].at
          /\ Answer(r, "expire", "expired")
          /\ Unlock(a)
       \/ /\ a \in attempts
          /\ ~(request[r].op = "poll" /\ expires[a] <= request[r].at)
          /\ GoOn(r, "upstream")
          /\ UNCHANGED locked
    /\ UNCHANGED <<now, attempts, expires, jars, drawn>>

\* Mutant: the lock is only given back on an answer.
PollFailsLocked(r) ==
    LET a == request[r].attempt IN
    /\ request[r].pc = "upstream" /\ request[r].op = "poll"
    /\ jars' \in {jars, jars \cup {a}}
    /\ Answer(r, "done", "unavailable")
    /\ UNCHANGED <<now, attempts, expires, locked, drawn>>

\* The transport fails; it may have stored cookies already.  The attempt stays.
PollFails(r) ==
    LET a == request[r].attempt IN
    /\ request[r].pc = "upstream" /\ request[r].op = "poll"
    /\ jars' \in {jars, jars \cup {a}}
    /\ Answer(r, "done", "unavailable")
    /\ Unlock(a)
    /\ UNCHANGED <<now, attempts, expires, drawn>>

\* The transport answers; an answer that comes after the deadline is an expiry.
PollAnswers(r, answer) ==
    LET a == request[r].attempt
        late == expires[a] <= now
        pending == answer = "waiting"
    IN
    /\ request[r].pc = "upstream" /\ request[r].op = "poll"
    /\ jars' = IF pending THEN jars \cup {a} ELSE jars \ {a}
    /\ IF late THEN Answer(r, "expire", "expired")
       ELSE Answer(r, IF pending THEN "done" ELSE "remove", answer)
    /\ Unlock(a)
    /\ UNCHANGED <<now, attempts, expires, drawn>>

\* transport.cancel only forgets the cookies, and cannot fail.
CancelAnswers(r) ==
    LET a == request[r].attempt IN
    /\ request[r].pc = "upstream" /\ request[r].op = "cancel"
    /\ jars' = jars \ {a}
    /\ Answer(r, "remove", IF expires[a] <= request[r].at THEN "expired" ELSE "cancelled")
    /\ Unlock(a)
    /\ UNCHANGED <<now, attempts, expires, drawn>>

\* Mutant: only a poll that ran into the deadline removes its attempt.
RemoveExpired(r) ==
    /\ request[r].pc \in {"remove", "expire"}
    /\ attempts' = IF request[r].pc = "expire" THEN attempts \ {request[r].attempt}
                   ELSE attempts
    /\ GoOn(r, IF request[r].pc = "expire" THEN "release" ELSE "done")
    /\ UNCHANGED <<now, expires, locked, jars, drawn>>

\* remove_attempt takes the lock of the map after the attempt's was given back; a
\* local deadline also releases the transport state.
Remove(r) ==
    /\ request[r].pc \in {"remove", "expire"}
    /\ attempts' = attempts \ {request[r].attempt}
    /\ GoOn(r, IF request[r].pc = "expire" THEN "release" ELSE "done")
    /\ UNCHANGED <<now, expires, locked, jars, drawn>>

ReleaseTransport(r) ==
    /\ request[r].pc = "release"
    /\ jars' = jars \ {request[r].attempt}
    /\ GoOn(r, "done")
    /\ UNCHANGED <<now, attempts, expires, locked, drawn>>

\* The client goes away: the server drops the request where it waits, a poll with
\* or without its cookies stored.
Disconnect(r) ==
    /\ request[r].pc \notin {"new", "done"}
    /\ Answer(r, "done", "none")
    /\ locked' = [a \in Attempts |-> IF locked[a] = r THEN NoRequest ELSE locked[a]]
    /\ \/ UNCHANGED jars
       \/ /\ request[r].pc = "upstream" /\ request[r].op = "poll"
          /\ jars' = jars \cup {request[r].attempt}
    /\ UNCHANGED <<now, attempts, expires, drawn>>

QrTick ==
    /\ now < MaxTime
    /\ now' = now + 1
    /\ UNCHANGED <<attempts, expires, locked, jars, request, drawn>>

Step(r) ==
    \/ CheckCapacity(r) \/ BeginFails(r) \/ (\E a \in Attempts : Begin(r, a))
    \/ Insert(r) \/ Abandon(r)
    \/ CheckCurrent(r) \/ PollFails(r) \/ CancelAnswers(r)
    \/ \E answer \in {"waiting", "expired", "risk_controlled", "authenticated"} :
           PollAnswers(r, answer)
    \/ Remove(r) \/ ReleaseTransport(r)

QrNext ==
    \/ \E r \in Requests :
           \/ Start(r)
           \/ \E a \in Attempts, op \in Ops : LookUp(r, a, op)
           \/ Lock(r) \/ Step(r) \/ Disconnect(r)
    \/ QrTick

QrSpec == QrInit /\ [][QrNext]_qrVars

\* A request in progress goes on (its upstream calls have timeouts), and the
\* attempt's lock is handed to those who wait for it in turn.
FairQrSpec ==
    /\ QrSpec
    /\ \A r \in Requests : WF_qrVars(Step(r)) /\ SF_qrVars(Lock(r))

-----------------------------------------------------------------------------
(* Properties. *)

\* Every variable keeps its type, and a request that works on an attempt works on
\* one that was drawn.
QrTypeOK ==
    /\ now \in Nat
    /\ attempts \subseteq drawn /\ jars \subseteq drawn /\ drawn \subseteq Attempts
    /\ expires \in [Attempts -> Nat]
    /\ locked \in [Attempts -> Requests \cup {NoRequest}]
    /\ request \in [Requests -> RequestRecord]
    /\ \A r \in Requests :
           /\ request[r].attempt \in drawn \cup {NoAttempt}
           /\ request[r].pc \notin {"new", "capacity", "begin", "done"} => request[r].attempt \in drawn

\* The lock of an attempt is held by exactly the request that asks about it.
LockHeldByAsker ==
    \A a \in Attempts, r \in Requests :
        locked[a] = r <=> /\ request[r].attempt = a
                          /\ request[r].pc \in {"current", "upstream"}

\* Never are more than MaxActive attempts in the map, whatever starts, prunes and
\* removals overlap.
CapacityKept == IsFiniteSet(attempts) /\ Cardinality(attempts) <= MaxActive

\* The answers that end an attempt.
Consuming == {"authenticated", "cancelled", "expired", "risk_controlled"}
HasConsumed(r) == request[r].pc = "done" /\ request[r].answer \in Consuming

\* An attempt leaves the map before its end is answered, and a challenge that waits
\* for its place in the map is known to nobody else: no removal is undone by a start.
ConsumedIsOut ==
    /\ \A r \in Requests : HasConsumed(r) \/ request[r].pc \in {"release", "abandon"} =>
           request[r].attempt \notin attempts
    /\ \A r \in Requests : request[r].pc = "insert" =>
           /\ request[r].attempt \notin attempts
           /\ \A q \in Requests \ {r} : request[q].attempt = request[r].attempt =>
                  request[q].pc = "done" /\ ~HasConsumed(q)

\* The attempts of the process between any two steps of its requests.
QrInv == QrTypeOK /\ LockHeldByAsker /\ CapacityKept /\ ConsumedIsOut

\* Once a request has answered that an attempt is over, no later request gets hold
\* of that attempt: a retried poll cannot use the confirmed session again.
LookUpStep ==
    \A r \in Requests :
        (request[r].pc = "new" /\ request'[r].pc = "lock") =>
            ~\E q \in Requests : request[q].attempt = request'[r].attempt /\ HasConsumed(q)
ConsumedStaysConsumed == [][LookUpStep]_qrVars

\* Every request ends: no lock of an attempt is kept by a request that has gone.
RequestsEnd ==
    \A r \in Requests : request[r].pc \notin {"new", "done"} ~> request[r].pc = "done"

\* The unit test cancellation_cannot_win_after_a_concurrent_poll_confirms_login:
\* a cancellation that waited for a confirming poll finds no attempt.
CancelStep ==
    \A r \in Requests :
        (request[r].answer # "cancelled" /\ request'[r].answer = "cancelled") =>
            ~\E q \in Requests : /\ request[q].attempt = request[r].attempt
                                 /\ request[q].answer = "authenticated"
CancelCannotWin == [][CancelStep]_qrVars
=============================================================================
