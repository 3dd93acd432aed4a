---------------------------- MODULE AdminSessions ----------------------------
(***************************************************************************)
(* The administrator's sessions and the login rate limiter (web/auth.rs).  *)
(*                                                                         *)
(* A session is a signed cookie: the server keeps nothing of it, so a      *)
(* logout only asks the browser to drop the cookie, and a restart, which   *)
(* loses the limiter's windows, leaves every unexpired cookie valid.  A    *)
(* cookie is named by the login that returned it, and so is its CSRF       *)
(* token; any other cookie fails the signature.                            *)
(***************************************************************************)
EXTENDS Naturals, Sequences, FiniteSets

CONSTANTS
    Keys,                 \* client keys: peer IP addresses
    RATE_LIMIT_FAILURES,  \* wrong guesses of a key that close its window
    RATE_LIMIT_WINDOW,    \* how long a window lasts from its first failure
    SESSION_TTL           \* how long a session lasts

ASSUME SessionTimesAssumption ==
    RATE_LIMIT_FAILURES \in Nat \ {0} /\ RATE_LIMIT_WINDOW \in Nat \ {0} /\ SESSION_TTL \in Nat \ {0}

VARIABLES
    now,       \* the clock
    limiter,   \* LoginRateLimiter.attempts: an AttemptWindow per key
    session,   \* session[c]: when the session that c names expires; 0 if c names none
    guesses    \* history: when a key's wrong guesses were compared, since its last success

sessionVars == <<now, limiter, session, guesses>>

NoWindow == [started_at |-> 0, failures |-> 0]

SessionsInit(names, held) ==
    /\ now = 0
    /\ limiter = [k \in Keys |-> NoWindow]
    /\ session = [c \in names |-> IF c \in held THEN SESSION_TTL ELSE 0]
    /\ guesses = [k \in Keys |-> <<>>]

expire(windows) ==
    [k \in Keys |-> IF now - windows[k].started_at < RATE_LIMIT_WINDOW THEN windows[k] ELSE NoWindow]

allow_AfterLimit(windows, k) == expire(windows)[k].failures <= RATE_LIMIT_FAILURES

allow(windows, k) == expire(windows)[k].failures < RATE_LIMIT_FAILURES

failure(windows, k) ==
    LET live == expire(windows)
        mine == IF live[k].failures = 0 THEN [started_at |-> now, failures |-> 0] ELSE live[k]
    IN  [live EXCEPT ![k] = [mine EXCEPT !.failures = @ + 1]]

success(windows, k) == [expire(windows) EXCEPT ![k] = NoWindow]

\* login: the limiter's mutex is held from the check to the verdict.
LoginRefused(k) ==
    /\ ~allow(limiter, k)
    /\ limiter' = expire(limiter)
    /\ UNCHANGED <<now, session, guesses>>

LoginWrong(k) ==
    /\ allow(limiter, k)
    /\ limiter' = failure(limiter, k)
    /\ guesses' = [guesses EXCEPT ![k] = Append(@, now)]
    /\ UNCHANGED <<now, session>>

LoginRight(k, c) ==
    /\ allow(limiter, k)
    /\ limiter' = success(limiter, k)
    /\ session' = [session EXCEPT ![c] = now + SESSION_TTL]
    /\ guesses' = [guesses EXCEPT ![k] = <<>>]
    /\ UNCHANGED now

\* A cookie whose name no login returned stands for one that is absent,
\* malformed or signed with another key.
authenticate_cookie(c) == c \in DOMAIN session /\ session[c] > now
verify_csrf(c, token) == token = c

\* The process starts again: only the windows were in memory.
LimiterLost ==
    /\ limiter' = [k \in Keys |-> NoWindow]
    /\ guesses' = [k \in Keys |-> <<>>]
    /\ UNCHANGED <<now, session>>

-----------------------------------------------------------------------------
(* A window opens with its first wrong guess and closes RATE_LIMIT_WINDOW  *)
(* later whatever came last, so the end of one window and the start of the *)
(* next can meet: no period of that length sees more wrong passwords of a  *)
(* key compared than two windows hold without the first guess of one.      *)
GuessesBounded ==
    \A k \in Keys : \A t \in 0 .. now :
        Cardinality({i \in DOMAIN guesses[k] : guesses[k][i] \in t .. t + RATE_LIMIT_WINDOW - 1})
            <= 2 * RATE_LIMIT_FAILURES - 1
=============================================================================
