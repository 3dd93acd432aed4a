---------------------------- MODULE WebAdminProofs ----------------------------
(***************************************************************************)
(* WebAdmin, proved for any requests in any order, over any tables, with   *)
(* any bundles, clocks and faults.                                         *)
(*                                                                         *)
(* What an import holds is explained by what is committed: a row that it   *)
(* has not written is the committed row, or that row resumed; a row that   *)
(* it has written is one revision ahead if readers see a difference.  This *)
(* stays so because nobody else writes a row that an import holds, which   *)
(* is what the waiting for locks gives.  Of the accounts it holds, nobody  *)
(* else can renew one, so that at its commit the gates still agree with    *)
(* what it read of them.  The limiter is proved from the times of the      *)
(* guesses alone: the F-th guess before a window opened lies a whole       *)
(* window earlier.                                                         *)
(*                                                                         *)
(* A bundle means the same to export, preview and import because books are *)
(* distinct in everything a request can see, and because an import that    *)
(* nothing disturbed since it was announced has, at each statement, done   *)
(* what counting its records against the tables says.                      *)
(***************************************************************************)
EXTENDS WebAdmin, FiniteSetTheorems, WellFoundedInduction, TLAPS

ImportSteps == {"accounts", "account_write", "states", "lock", "write", "commit"}
Open(r) == req[r].at \notin {"new", "done"}
Importing(r) == req[r].at \in ImportSteps

\* What the rows of requests and transactions look like.
ReqFields == {"ask", "reply", "result", "at"}
ResultFields == {"counts", "conflicts", "base", "steady", "file"}
TxFields == {"acc", "src", "i", "usable", "known", "counts"}
ReqOK(q) ==
    /\ q = [f \in ReqFields |-> q[f]] /\ q.result = [f \in ResultFields |-> q.result[f]]
    /\ IsAsk(q.ask) /\ q.at \in Steps
    /\ q.at # "done" => q.reply = None
    /\ q.at \in ImportSteps => q.ask.kind = "import"
    /\ q.ask.kind = "import" => q.at \in ImportSteps \cup {"new", "done"}
    /\ q.ask.kind = "export" /\ q.reply = "ok" => IsBundle(q.result.file)
TxOK(t) == t = [f \in TxFields |-> t[f]]

TablesOK ==
    /\ accounts = [a \in Accounts |-> accounts[a]] /\ \A a \in Accounts : IsAccount(accounts[a])
    /\ sources = [s \in Sources |-> sources[s]] /\ \A s \in Sources : IsSource(sources[s])
    /\ token \in [Sources -> Requests \cup {None}]
    /\ \A s \in Sources : token[s] # None => sources[s].there
RequestsOK ==
    /\ req = [r \in Requests |-> req[r]] /\ \A r \in Requests : ReqOK(req[r])
    /\ \A r \in Requests : Ask(r).from # None => Kind(Ask(r).from) = "export"
    /\ tx = [r \in Requests |-> tx[r]] /\ \A r \in Requests : TxOK(tx[r])
    /\ edits \in Nat
OnlyImportsHold ==
    \A r \in Requests :
        /\ ~Importing(r) => tx[r].acc = <<>> /\ tx[r].src = <<>>
        /\ ~Importing(r) /\ ~(req[r].at = "late" /\ Kind(r) = "preview") => tx[r] = NoTx
RowsExclusive ==
    \A q, r \in Requests : q # r => DOMAIN tx[q].src \cap DOMAIN tx[r].src = {}

\* The records of its bundle that an import has written.
AccountsWritten(r) ==
    IF req[r].at \in {"accounts", "account_write"}
    THEN {BundleOf(r).accounts[j].id : j \in 1 .. tx[r].i - 1} ELSE Ids(BundleOf(r).accounts)
SourcesWritten(r) ==
    IF req[r].at \in {"lock", "write"} THEN {BundleOf(r).sources[j].id : j \in 1 .. tx[r].i - 1}
    ELSE IF req[r].at = "commit" THEN Ids(BundleOf(r).sources) ELSE {}

\* The bundle is the one that was validated, and the cursor is in it.
BundleOK(r) ==
    /\ IsBundle(BundleOf(r)) /\ Distinct(BundleOf(r).sources, "id") /\ Distinct(BundleOf(r).accounts, "id")
    /\ Ask(r).from # None => req[Ask(r).from].at = "done"
    /\ tx[r].i \in Nat
    /\ req[r].at \in {"accounts", "account_write"} => tx[r].i \in 1 .. Len(BundleOf(r).accounts)
    /\ req[r].at \in {"lock", "write"} => tx[r].i \in 1 .. Len(BundleOf(r).sources)
    /\ req[r].at = "states" => tx[r].i = 1

\* Readers see a difference exactly when the revision is one ahead.
OneAhead(row, new) ==
    new.rev = row.rev + (IF FeedVisible(new) # FeedVisible(row) THEN 1 ELSE 0)

UnwrittenRow(r, s, row) ==
    /\ sources[s].there
    /\ \/ row = sources[s]
       \/ /\ row = ResumedSource(sources[s]) /\ sources[s].gate = "authentication_required"
          /\ sources[s].account \in Ids(BundleOf(r).accounts)
WrittenRow(s, row) ==
    /\ sources[s].there => OneAhead(sources[s], row)
    /\ sources[s].gate = "risk_controlled" => row.gate = "risk_controlled"
RowsHeld(r) ==
    /\ SourcesWritten(r) \subseteq DOMAIN tx[r].src
    /\ \A s \in DOMAIN tx[r].src :
          /\ s \in Sources /\ IsSource(tx[r].src[s]) /\ tx[r].src[s].there
          /\ IF s \in SourcesWritten(r) THEN WrittenRow(s, tx[r].src[s]) ELSE UnwrittenRow(r, s, tx[r].src[s])

\* A written row is the record's, with the accounts as the import read them.
AsAsked(r, p, row) ==
    /\ \A f \in Portable \ {"account"} : row[f] = p[f]
    /\ row.account \in {p.account, None}
    /\ p.account \in Ids(BundleOf(r).accounts) =>
          /\ row.account = p.account
          /\ row.gate # IF p.account \in tx[r].usable THEN "authentication_required" ELSE "ready"
RowsAsAsked(r) ==
    \A j \in DOMAIN BundleOf(r).sources : BundleOf(r).sources[j].id \in SourcesWritten(r) =>
        AsAsked(r, BundleOf(r).sources[j], tx[r].src[BundleOf(r).sources[j].id])

AccountsHeld(r) ==
    /\ AccountsWritten(r) \subseteq DOMAIN tx[r].acc /\ DOMAIN tx[r].acc \subseteq Ids(BundleOf(r).accounts)
    /\ \A a \in DOMAIN tx[r].acc : IsAccount(tx[r].acc[a]) /\ tx[r].acc[a].state # "absent"
    /\ \A j \in DOMAIN BundleOf(r).accounts : BundleOf(r).accounts[j].id \in AccountsWritten(r) =>
          /\ tx[r].acc[BundleOf(r).accounts[j].id].name = BundleOf(r).accounts[j].name
          /\ tx[r].acc[BundleOf(r).accounts[j].id].disabled = ~BundleOf(r).accounts[j].enabled

\* What was read of the accounts: a lapse since is all that can have happened.
StatesRead(r) ==
    req[r].at \in {"lock", "write", "commit"} => \A a \in DOMAIN tx[r].acc :
        /\ a \in tx[r].known
        /\ Usable(tx[r].acc[a], a) => a \in tx[r].usable
        /\ a \in tx[r].usable => tx[r].acc[a].state = "enrolled" /\ ~tx[r].acc[a].disabled

ImportOK(r) == BundleOK(r) /\ RowsHeld(r) /\ RowsAsAsked(r) /\ AccountsHeld(r) /\ StatesRead(r)
ImportsOK == \A r \in Requests : Importing(r) => ImportOK(r)

\* Sessions: whose login a cookie is of.
HoldsSession(r) ==
    /\ Ask(r).cookie = Ask(r).csrf
    /\ Ask(r).cookie = Boot \/ (Ask(r).cookie \in Requests /\ Ask(Ask(r).cookie).right /\ req[Ask(r).cookie].reply = "ok")
SessionsOK ==
    /\ now \in Nat /\ session \in [Requests \cup {Boot} -> Nat]
    /\ \A c \in Requests \ {Boot} : session[c] # 0 => Ask(c).right /\ req[c].reply = "ok"
    /\ \A r \in Requests : Open(r) /\ Kind(r) \in Mutations => HoldsSession(r)

\* The limiter: F guesses before a window opened is a window's length earlier.
WindowOK(k) ==
    LET g == guesses[k]
        n == Len(g)
        f == limiter[k].failures
    IN  /\ g \in Seq(Nat) /\ limiter[k] \in [started_at : Nat, failures : Nat]
        /\ f <= RATE_LIMIT_FAILURES /\ f <= n
        /\ \A i, j \in 1 .. n : i <= j => g[i] <= g[j] /\ g[j] <= now
        /\ \A i \in 1 .. n : i + 2 * RATE_LIMIT_FAILURES - 1 <= n =>
              g[i] + RATE_LIMIT_WINDOW <= g[i + 2 * RATE_LIMIT_FAILURES - 1]
        /\ f # 0 => /\ g[n - f + 1] = limiter[k].started_at
                    /\ n - f >= RATE_LIMIT_FAILURES =>
                          g[n - f - RATE_LIMIT_FAILURES + 1] + RATE_LIMIT_WINDOW <= limiter[k].started_at
        /\ f = 0 /\ n >= RATE_LIMIT_FAILURES => g[n - RATE_LIMIT_FAILURES + 1] + RATE_LIMIT_WINDOW <= now
LimiterOK ==
    /\ limiter = [k \in Keys |-> limiter[k]] /\ guesses = [k \in Keys |-> guesses[k]]
    /\ \A k \in Keys : WindowOK(k)

WebIInv == TablesOK /\ RequestsOK /\ OnlyImportsHold /\ RowsExclusive /\ ImportsOK /\ SessionsOK /\ LimiterOK

-----------------------------------------------------------------------------
(* The limiter. *)

\* A set of numbers that is not empty has a least one.
LEMMA LeastOf == ASSUME NEW S \in SUBSET Nat, S # {} PROVE Min(S) \in S /\ \A m \in S : Min(S) <= m
<1> DEFINE R == {p \in Nat \X Nat : p[1] < p[2]}
<1>1. IsWellFoundedOn(R, Nat)
  BY NatLessThanWellFounded DEF OpToRel
<1> HIDE DEF R
<1>2. PICK n \in S : \A m \in S : ~(<<m, n>> \in R)
  BY <1>1, WFMin
<1>3. \A m \in S : ~(m < n)
  BY <1>2 DEF R
<1>4. \A m \in S : n <= m
  BY <1>3
<1> QED
  BY <1>4 DEF Min

\* Times that are sorted, with any two of them 2F - 1 places apart a window apart.
LEMMA SpreadBounds ==
    ASSUME NEW n \in Nat, NEW g \in [1 .. n -> Nat], NEW F \in Nat \ {0}, NEW W \in Nat, NEW t \in Nat,
           \A i, j \in 1 .. n : i <= j => g[i] <= g[j],
           \A i \in 1 .. n : i + 2 * F - 1 <= n => g[i] + W <= g[i + 2 * F - 1]
    PROVE  Cardinality({i \in 1 .. n : g[i] \in t .. t + W - 1}) <= 2 * F - 1
<1> DEFINE S == {i \in 1 .. n : g[i] \in t .. t + W - 1}
<1> SUFFICES Cardinality(S) <= 2 * F - 1
  OBVIOUS
<1>1. CASE S = {}
  <2>1. Cardinality(S) = 0
    BY <1>1, FS_EmptySet
  <2> HIDE DEF S
  <2> QED
    BY <2>1
<1>2. CASE S # {}
  <2>1. S \in SUBSET Nat
    OBVIOUS
  <2> DEFINE m == Min(S)
  <2>2. m \in S /\ \A i \in S : m <= i
    <3> HIDE DEF S
    <3> QED
      BY <1>2, <2>1, LeastOf
  <2>3. m \in 1 .. n /\ t <= g[m]
    BY <2>2
  <2> HIDE DEF m
  <2>4. \A i \in S : i \in m .. m + 2 * F - 2
    <3> SUFFICES ASSUME NEW i \in S, i > m + 2 * F - 2 PROVE FALSE
      BY <2>2
    <3>0. i \in 1 .. n /\ g[i] <= t + W - 1
      OBVIOUS
    <3> DEFINE k == m + 2 * F - 1
    <3>1. k \in 1 .. n /\ k <= i
      BY <2>3, <3>0
    <3>2. g[m] + W <= g[k]
      BY <2>3, <3>1
    <3>3. g[k] <= g[i]
      BY <3>0, <3>1
    <3>4. g[k] \in Nat /\ g[m] \in Nat /\ g[i] \in Nat
      BY <3>0, <3>1, <2>3
    <3> QED
      BY <3>0, <3>2, <3>3, <3>4, <2>3
  <2> HIDE DEF S
  <2>5. /\ IsFiniteSet(m .. m + 2 * F - 2)
        /\ Cardinality(m .. m + 2 * F - 2) = 2 * F - 1
    <3>1. m \in Int /\ m + 2 * F - 2 \in Int /\ ~(m > m + 2 * F - 2) /\ (m + 2 * F - 2) - m + 1 = 2 * F - 1
      BY <2>3
    <3> QED
      BY <3>1, FS_Interval
  <2>6. S \subseteq m .. m + 2 * F - 2
    BY <2>4
  <2>7. Cardinality(S) <= Cardinality(m .. m + 2 * F - 2)
    BY <2>5, <2>6, FS_Subset
  <2> QED
    BY <2>5, <2>7
<1> QED
  BY <1>1, <1>2

LEMMA WindowsBound == LimiterOK /\ now \in Nat => GuessesBounded
<1> SUFFICES ASSUME LimiterOK, now \in Nat, NEW k \in Keys, NEW t \in 0 .. now
             PROVE  Cardinality({i \in DOMAIN guesses[k] : guesses[k][i] \in t .. t + RATE_LIMIT_WINDOW - 1})
                        <= 2 * RATE_LIMIT_FAILURES - 1
  BY DEF GuessesBounded
<1> DEFINE g == guesses[k]
           n == Len(g)
<1>1. WindowOK(k)
  BY DEF LimiterOK
<1>2. /\ g \in Seq(Nat)
      /\ \A i, j \in 1 .. n : i <= j => g[i] <= g[j]
      /\ \A i \in 1 .. n : i + 2 * RATE_LIMIT_FAILURES - 1 <= n =>
              g[i] + RATE_LIMIT_WINDOW <= g[i + 2 * RATE_LIMIT_FAILURES - 1]
  BY <1>1 DEF WindowOK
<1>3. n \in Nat /\ g \in [1 .. n -> Nat] /\ DOMAIN g = 1 .. n
  BY <1>2
<1>4. t \in Nat /\ RATE_LIMIT_FAILURES \in Nat \ {0} /\ RATE_LIMIT_WINDOW \in Nat
  BY SessionTimesAssumption
<1> HIDE DEF g, n
<1>5. Cardinality({i \in 1 .. n : g[i] \in t .. t + RATE_LIMIT_WINDOW - 1}) <= 2 * RATE_LIMIT_FAILURES - 1
  BY <1>2, <1>3, <1>4, SpreadBounds
<1> QED
  BY <1>3, <1>5 DEF g

\* One key's guesses and window, in a form the steps can name.
Window(g, s, f, at) ==
    /\ g \in Seq(Nat) /\ s \in Nat /\ f \in Nat
    /\ f <= RATE_LIMIT_FAILURES /\ f <= Len(g)
    /\ \A i, j \in 1 .. Len(g) : i <= j => g[i] <= g[j] /\ g[j] <= at
    /\ \A i \in 1 .. Len(g) : i + 2 * RATE_LIMIT_FAILURES - 1 <= Len(g) =>
          g[i] + RATE_LIMIT_WINDOW <= g[i + 2 * RATE_LIMIT_FAILURES - 1]
    /\ f # 0 => g[Len(g) - f + 1] = s
    /\ f # 0 => (Len(g) - f >= RATE_LIMIT_FAILURES => g[Len(g) - f - RATE_LIMIT_FAILURES + 1] + RATE_LIMIT_WINDOW <= s)
    /\ f = 0 => (Len(g) >= RATE_LIMIT_FAILURES => g[Len(g) - RATE_LIMIT_FAILURES + 1] + RATE_LIMIT_WINDOW <= at)

LEMMA WindowIs ==
    ASSUME NEW k \in Keys, limiter[k] \in [started_at : Nat, failures : Nat]
    PROVE  WindowOK(k) <=> Window(guesses[k], limiter[k].started_at, limiter[k].failures, now)
  BY DEF WindowOK, Window

\* Nothing guessed.
LEMMA EmptyWindow == ASSUME NEW at \in Nat, NEW s \in Nat PROVE Window(<<>>, s, 0, at)
  BY SessionTimesAssumption DEF Window

\* Time passes; a window that has lasted its time ends.
LEMMA WindowAges ==
    ASSUME NEW g, NEW s, NEW f, NEW at \in Nat, NEW then \in Nat, at <= then, Window(g, s, f, at)
    PROVE  /\ Window(g, s, f, then)
           /\ then - s >= RATE_LIMIT_WINDOW => Window(g, 0, 0, then)
<1> USE SessionTimesAssumption
<1> DEFINE n == Len(g)
           F == RATE_LIMIT_FAILURES
           W == RATE_LIMIT_WINDOW
<1>1. n \in Nat /\ g \in [1 .. n -> Nat] /\ s \in Nat /\ f \in Nat /\ F \in Nat \ {0} /\ W \in Nat
  BY DEF Window
<1>2. \A i, j \in 1 .. n : i <= j => g[i] <= g[j] /\ g[j] <= at
  BY DEF Window
<1>3. \A i, j \in 1 .. n : i <= j => g[i] <= g[j] /\ g[j] <= then
  BY <1>1, <1>2
<1>4. Window(g, s, f, then)
  <2>1. f = 0 => (n >= F => g[n - F + 1] + W <= then)
    <3> SUFFICES ASSUME f = 0, n >= F PROVE g[n - F + 1] + W <= then
      OBVIOUS
    <3>1. g[n - F + 1] + W <= at
      BY DEF Window
    <3>2. g[n - F + 1] \in Nat
      BY <1>1
    <3> QED
      BY <3>1, <3>2, <1>1
  <2> QED
    BY <1>3, <2>1 DEF Window
<1>5. ASSUME then - s >= W PROVE Window(g, 0, 0, then)
  <2>1. n >= F => g[n - F + 1] + W <= then
    <3> SUFFICES ASSUME n >= F PROVE g[n - F + 1] + W <= then
      OBVIOUS
    <3>1. CASE f = 0
      BY <1>4, <3>1 DEF Window
    <3>2. CASE f # 0
      <4>1. g[n - f + 1] = s /\ f <= F /\ f <= n
        BY <3>2 DEF Window
      <4>2. n - F + 1 \in 1 .. n /\ n - f + 1 \in 1 .. n /\ n - F + 1 <= n - f + 1
        BY <1>1, <3>2, <4>1
      <4>3. g[n - F + 1] <= g[n - f + 1]
        BY <1>2, <4>2
      <4>4. g[n - F + 1] \in Nat
        BY <1>1, <4>2
      <4> QED
        BY <1>1, <1>5, <4>1, <4>3, <4>4
    <3> QED
      BY <3>1, <3>2
  <2>2. 0 <= F /\ 0 <= n
    BY <1>1
  <2> QED
    BY <1>3, <1>4, <2>1, <2>2 DEF Window
<1> QED
  BY <1>4, <1>5

\* A wrong guess, in a window or as the first of one.
LEMMA WindowGrows ==
    ASSUME NEW g, NEW s, NEW f, NEW at \in Nat, Window(g, s, f, at), f < RATE_LIMIT_FAILURES
    PROVE  Window(Append(g, at), IF f = 0 THEN at ELSE s, f + 1, at)
<1> USE SessionTimesAssumption
<1> DEFINE n == Len(g)
           F == RATE_LIMIT_FAILURES
           W == RATE_LIMIT_WINDOW
           h == Append(g, at)
           u == IF f = 0 THEN at ELSE s
<1>1. /\ n \in Nat /\ g \in [1 .. n -> Nat] /\ s \in Nat /\ f \in Nat /\ F \in Nat \ {0} /\ W \in Nat
      /\ f <= n /\ g \in Seq(Nat)
  BY DEF Window
<1>2. /\ h \in Seq(Nat) /\ Len(h) = n + 1 /\ h[n + 1] = at
      /\ \A i \in 1 .. n : h[i] = g[i] /\ h[i] \in Nat /\ h[i] <= at
  <2>1. \A i \in 1 .. n : g[i] <= at
    BY DEF Window
  <2> QED
    BY <1>1, <2>1
<1>3. u \in Nat /\ u <= at
  <2>1. CASE f = 0
    BY <2>1
  <2>2. CASE f # 0
    <3>1. s = g[n - f + 1] /\ n - f + 1 \in 1 .. n
      BY <1>1, <2>2 DEF Window
    <3> QED
      BY <1>1, <1>2, <2>2, <3>1
  <2> QED
    BY <2>1, <2>2
<1>4. \A i, j \in 1 .. n + 1 : i <= j => h[i] <= h[j] /\ h[j] <= at
  <2> SUFFICES ASSUME NEW i \in 1 .. n + 1, NEW j \in 1 .. n + 1, i <= j PROVE h[i] <= h[j] /\ h[j] <= at
    OBVIOUS
  <2>1. CASE j = n + 1
    BY <2>1, <1>1, <1>2
  <2>2. CASE j # n + 1
    <3>1. i \in 1 .. n /\ j \in 1 .. n
      BY <1>1, <2>2
    <3>2. g[i] <= g[j]
      BY <3>1 DEF Window
    <3> QED
      BY <1>2, <3>1, <3>2
  <2> QED
    BY <2>1, <2>2
<1>5. n - f >= F => h[n - f - F + 1] + W <= u
  <2> SUFFICES ASSUME n - f >= F PROVE h[n - f - F + 1] + W <= u
    OBVIOUS
  <2>1. n - f - F + 1 \in 1 .. n
    BY <1>1
  <2>2. h[n - f - F + 1] = g[n - f - F + 1]
    BY <1>2, <2>1
  <2>3. CASE f = 0
    <3>1. n - f - F + 1 = n - F + 1 /\ n >= F
      BY <1>1, <2>3
    <3>2. g[n - F + 1] + W <= at
      BY <2>3, <3>1 DEF Window
    <3> QED
      BY <2>2, <2>3, <3>1, <3>2
  <2>4. CASE f # 0
    BY <2>2, <2>4 DEF Window
  <2> QED
    BY <2>3, <2>4
<1>6. \A i \in 1 .. n + 1 : i + 2 * F - 1 <= n + 1 => h[i] + W <= h[i + 2 * F - 1]
  <2> SUFFICES ASSUME NEW i \in 1 .. n + 1, i + 2 * F - 1 <= n + 1 PROVE h[i] + W <= h[i + 2 * F - 1]
    OBVIOUS
  <2>1. CASE i + 2 * F - 1 = n + 1
    <3> DEFINE m == n - f - F + 1
    <3>1. i <= m /\ n - f >= F /\ m \in 1 .. n /\ i \in 1 .. n
      BY <1>1, <2>1
    <3>2. h[m] + W <= u
      BY <1>5, <3>1
    <3>3. g[i] <= g[m] /\ h[i] = g[i] /\ h[m] = g[m] /\ g[i] \in Nat /\ g[m] \in Nat
      BY <1>1, <1>2, <3>1 DEF Window
    <3>4. h[i + 2 * F - 1] = at
      BY <1>2, <2>1
    <3> HIDE DEF m, h, u, n, F, W
    <3> QED
      BY <1>1, <1>3, <3>2, <3>3, <3>4
  <2>2. CASE i + 2 * F - 1 # n + 1
    <3>1. i \in 1 .. n /\ i + 2 * F - 1 \in 1 .. n /\ i + 2 * F - 1 <= n
      BY <1>1, <2>2
    <3>2. g[i] + W <= g[i + 2 * F - 1]
      BY <3>1 DEF Window
    <3> QED
      BY <1>2, <3>1, <3>2
  <2> QED
    BY <2>1, <2>2
<1>7. h[(n + 1) - (f + 1) + 1] = u
  <2>1. CASE f = 0
    BY <1>1, <1>2, <2>1
  <2>2. CASE f # 0
    <3>1. g[n - f + 1] = s /\ n - f + 1 \in 1 .. n /\ (n + 1) - (f + 1) + 1 = n - f + 1
      BY <1>1, <2>2 DEF Window
    <3> QED
      BY <1>2, <2>2, <3>1
  <2> QED
    BY <2>1, <2>2
<1>8. (n + 1) - (f + 1) = n - f /\ (n + 1) - (f + 1) - F + 1 = n - f - F + 1 /\ f + 1 \in Nat /\ f + 1 # 0
      /\ f + 1 <= F /\ f + 1 <= n + 1
  BY <1>1
<1> HIDE DEF h, u, n, F, W
<1>9. Window(h, u, f + 1, at)
  BY <1>2, <1>3, <1>4, <1>5, <1>6, <1>7, <1>8 DEF Window, F, W
<1> QED
  BY <1>9 DEF h, u

\* What a call finds after expire.
LEMMA Expired ==
    ASSUME LimiterOK, now \in Nat, NEW k \in Keys
    PROVE  /\ expire(limiter)[k] \in [started_at : Nat, failures : Nat]
           /\ Window(guesses[k], expire(limiter)[k].started_at, expire(limiter)[k].failures, now)
<1>1. WindowOK(k) /\ limiter[k] \in [started_at : Nat, failures : Nat]
  BY DEF LimiterOK, WindowOK
<1>2. Window(guesses[k], limiter[k].started_at, limiter[k].failures, now)
  BY <1>1, WindowIs
<1>3. expire(limiter)[k] = IF now - limiter[k].started_at < RATE_LIMIT_WINDOW THEN limiter[k] ELSE NoWindow
  BY DEF expire
<1>4. CASE now - limiter[k].started_at < RATE_LIMIT_WINDOW
  BY <1>1, <1>2, <1>3, <1>4
<1>5. CASE ~(now - limiter[k].started_at < RATE_LIMIT_WINDOW)
  <2>1. now - limiter[k].started_at >= RATE_LIMIT_WINDOW /\ now <= now
    BY <1>1, <1>5, SessionTimesAssumption
  <2>2. Window(guesses[k], 0, 0, now)
    BY <1>2, <2>1, WindowAges
  <2>3. NoWindow \in [started_at : Nat, failures : Nat] /\ NoWindow.started_at = 0 /\ NoWindow.failures = 0
    BY DEF NoWindow
  <2> QED
    BY <1>3, <1>5, <2>2, <2>3
<1> QED
  BY <1>4, <1>5

\* Windows for all keys, after a step.
LEMMA NextWindows ==
    ASSUME NEW L, limiter' = L, L = [k \in Keys |-> L[k]], guesses' = [k \in Keys |-> guesses'[k]],
           \A k \in Keys : /\ L[k] \in [started_at : Nat, failures : Nat]
                           /\ Window(guesses'[k], L[k].started_at, L[k].failures, now')
    PROVE  LimiterOK'
  BY DEF LimiterOK, WindowOK, Window

LEMMA RefusedLimits == ASSUME LimiterOK, now \in Nat, NEW k, LoginRefused(k) PROVE LimiterOK'
<1> DEFINE L == expire(limiter)
<1>1. limiter' = L /\ now' = now /\ guesses' = guesses /\ L = [x \in Keys |-> L[x]]
  BY DEF LoginRefused, expire
<1>2. \A x \in Keys : L[x] \in [started_at : Nat, failures : Nat] /\ Window(guesses[x], L[x].started_at, L[x].failures, now)
  BY Expired
<1>3. guesses' = [x \in Keys |-> guesses'[x]]
  BY <1>1 DEF LimiterOK
<1> HIDE DEF L
<1> QED
  BY <1>1, <1>2, <1>3, NextWindows

LEMMA WrongLimits == ASSUME LimiterOK, now \in Nat, NEW k \in Keys, LoginWrong(k) PROVE LimiterOK'
<1> DEFINE E == expire(limiter)
           mine == IF E[k].failures = 0 THEN [started_at |-> now, failures |-> 0] ELSE E[k]
           L == [E EXCEPT ![k] = [mine EXCEPT !.failures = @ + 1]]
<1>1. limiter' = L /\ now' = now /\ guesses' = [guesses EXCEPT ![k] = Append(@, now)] /\ E = [x \in Keys |-> E[x]]
  BY DEF LoginWrong, failure, expire
<1>2. \A x \in Keys : E[x] \in [started_at : Nat, failures : Nat] /\ Window(guesses[x], E[x].started_at, E[x].failures, now)
  BY Expired
<1>3. E[k].failures < RATE_LIMIT_FAILURES
  BY DEF LoginWrong, allow
<1>4. guesses = [x \in Keys |-> guesses[x]]
  BY DEF LimiterOK
<1> HIDE DEF E
<1>5. /\ guesses' = [x \in Keys |-> guesses'[x]] /\ guesses'[k] = Append(guesses[k], now)
      /\ \A x \in Keys \ {k} : guesses'[x] = guesses[x]
  BY <1>1, <1>4
<1>6. /\ L = [x \in Keys |-> L[x]] /\ \A x \in Keys \ {k} : L[x] = E[x]
      /\ L[k] \in [started_at : Nat, failures : Nat]
      /\ L[k].started_at = (IF E[k].failures = 0 THEN now ELSE E[k].started_at)
      /\ L[k].failures = E[k].failures + 1
  <2>1. /\ mine \in [started_at : Nat, failures : Nat] /\ mine.failures = E[k].failures
        /\ mine.started_at = (IF E[k].failures = 0 THEN now ELSE E[k].started_at)
    BY <1>2
  <2>2. L[k] = [mine EXCEPT !.failures = @ + 1] /\ L = [x \in Keys |-> L[x]] /\ \A x \in Keys \ {k} : L[x] = E[x]
    BY <1>1
  <2> HIDE DEF mine, L
  <2> QED
    BY <2>1, <2>2
<1>7. Window(Append(guesses[k], now), IF E[k].failures = 0 THEN now ELSE E[k].started_at, E[k].failures + 1, now)
  BY <1>2, <1>3, WindowGrows
<1>8. ASSUME NEW x \in Keys
      PROVE  L[x] \in [started_at : Nat, failures : Nat] /\ Window(guesses'[x], L[x].started_at, L[x].failures, now')
  <2> HIDE DEF L
  <2>1. CASE x = k
    BY <1>1, <1>5, <1>6, <1>7, <2>1
  <2>2. CASE x # k
    BY <1>1, <1>2, <1>5, <1>6, <2>2
  <2> QED
    BY <2>1, <2>2
<1> HIDE DEF L
<1> QED
  BY <1>1, <1>5, <1>6, <1>8, NextWindows

LEMMA RightLimits == ASSUME LimiterOK, now \in Nat, NEW k \in Keys, NEW c, LoginRight(k, c) PROVE LimiterOK'
<1> DEFINE E == expire(limiter)
           L == [E EXCEPT ![k] = NoWindow]
<1>1. limiter' = L /\ now' = now /\ guesses' = [guesses EXCEPT ![k] = <<>>] /\ E = [x \in Keys |-> E[x]]
  BY DEF LoginRight, success, expire
<1>2. \A x \in Keys : E[x] \in [started_at : Nat, failures : Nat] /\ Window(guesses[x], E[x].started_at, E[x].failures, now)
  BY Expired
<1>4. guesses = [x \in Keys |-> guesses[x]]
  BY DEF LimiterOK
<1> HIDE DEF E
<1>5. /\ guesses' = [x \in Keys |-> guesses'[x]] /\ guesses'[k] = <<>>
      /\ \A x \in Keys \ {k} : guesses'[x] = guesses[x]
  BY <1>1, <1>4
<1>6. /\ L = [x \in Keys |-> L[x]] /\ \A x \in Keys \ {k} : L[x] = E[x]
      /\ L[k] \in [started_at : Nat, failures : Nat] /\ L[k].started_at = 0 /\ L[k].failures = 0
  BY <1>1, <1>2 DEF NoWindow
<1>7. Window(<<>>, 0, 0, now)
  BY EmptyWindow
<1>8. ASSUME NEW x \in Keys
      PROVE  L[x] \in [started_at : Nat, failures : Nat] /\ Window(guesses'[x], L[x].started_at, L[x].failures, now')
  <2> HIDE DEF L
  <2>1. CASE x = k
    BY <1>1, <1>5, <1>6, <1>7, <2>1
  <2>2. CASE x # k
    BY <1>1, <1>2, <1>5, <1>6, <2>2
  <2> QED
    BY <2>1, <2>2
<1> HIDE DEF L
<1> QED
  BY <1>1, <1>5, <1>6, <1>8, NextWindows

LEMMA TickLimits ==
    ASSUME LimiterOK, now \in Nat, now' = now + 1 \/ now' = now, limiter' = limiter, guesses' = guesses
    PROVE  LimiterOK'
<1>1. limiter = [x \in Keys |-> limiter[x]] /\ guesses' = [x \in Keys |-> guesses'[x]] /\ now' \in Nat /\ now <= now'
  BY DEF LimiterOK
<1>2. ASSUME NEW x \in Keys
      PROVE  /\ limiter[x] \in [started_at : Nat, failures : Nat]
             /\ Window(guesses'[x], limiter[x].started_at, limiter[x].failures, now')
  <2>1. WindowOK(x) /\ limiter[x] \in [started_at : Nat, failures : Nat]
    BY DEF LimiterOK, WindowOK
  <2>2. Window(guesses[x], limiter[x].started_at, limiter[x].failures, now)
    BY <2>1, WindowIs
  <2>3. Window(guesses[x], limiter[x].started_at, limiter[x].failures, now')
    BY <1>1, <2>2, WindowAges
  <2> QED
    BY <2>1, <2>3
<1> QED
  BY <1>1, <1>2, NextWindows

\* Nobody has guessed.
NoGuesses == limiter = [k \in Keys |-> NoWindow] /\ guesses = [k \in Keys |-> <<>>]

LEMMA FreshLimits == now \in Nat /\ NoGuesses => LimiterOK
<1> SUFFICES ASSUME now \in Nat, NoGuesses PROVE LimiterOK
  OBVIOUS
<1>1. ASSUME NEW k \in Keys PROVE WindowOK(k)
  <2>1. /\ limiter[k] \in [started_at : Nat, failures : Nat] /\ limiter[k].started_at = 0
        /\ limiter[k].failures = 0 /\ guesses[k] = <<>>
    BY DEF NoWindow, NoGuesses
  <2>2. Window(<<>>, 0, 0, now)
    BY EmptyWindow
  <2> QED
    BY <2>1, <2>2, WindowIs
<1> QED
  BY <1>1 DEF LimiterOK, NoGuesses

-----------------------------------------------------------------------------
(* Whose an article is. *)

\* The first value that is there.
LEMMA FirstValue ==
    ASSUME NEW n \in Nat, NEW v, DOMAIN v = 1 .. n
    PROVE  /\ first_metadata_value(v) = None => \A i \in DOMAIN v : v[i] = None
           /\ first_metadata_value(v) # None => \E i \in DOMAIN v : v[i] = first_metadata_value(v)
<1> DEFINE some == {i \in DOMAIN v : v[i] # None}
<1>1. some \in SUBSET Nat
  OBVIOUS
<1>2. first_metadata_value(v) = IF some = {} THEN None ELSE v[Min(some)]
  BY DEF first_metadata_value
<1>3. CASE some = {}
  BY <1>2, <1>3
<1>4. CASE some # {}
  <2>1. Min(some) \in some
    <3> HIDE DEF some
    <3> QED
      BY <1>1, <1>4, LeastOf
  <2> QED
    BY <1>2, <1>4, <2>1
<1> QED
  BY <1>3, <1>4

\* The values a page's own account may be taken from, and that of an article
\* it only links to.
OwnFirst(final, page) == {final.biz, page.script, biz_from_string_url(page.message)}
OwnValues(final, page) ==
    OwnFirst(final, page) \cup {biz_from_string_url(l) : l \in ToSet(page.canonical)}

LEMMA CandidatesAre ==
    ASSUME NEW final, NEW page, final.public, NEW n \in Nat, DOMAIN page.canonical = 1 .. n
    PROVE  LET said == Candidates(final, page)
               own == OwnValues(final, page)
           IN  /\ DOMAIN said \subseteq Nat
               /\ own = {None} => DOMAIN said = {1} /\ said[1].biz = biz_from_string_url(page.embedded)
               /\ own # {None} => /\ DOMAIN said = 1 .. 4 /\ said[1].biz = final.biz /\ said[2].biz = page.script
                                  /\ said[3].biz = biz_from_string_url(page.message)
                                  /\ said[4].biz \in own \cup {None}
<1> DEFINE values == [i \in DOMAIN page.canonical |-> biz_from_string_url(page.canonical[i])]
           canonical == first_metadata_value(values)
           own == OwnValues(final, page)
           list == <<[biz |-> biz_from_verified_url(final), method |-> "RedirectUrl"],
                     [biz |-> page.script, method |-> "HtmlBiz"],
                     [biz |-> biz_from_string_url(page.message), method |-> "HtmlMessageLink"],
                     [biz |-> canonical, method |-> "HtmlCanonical"]>>
           last == <<[biz |-> biz_from_string_url(page.embedded), method |-> "HtmlEmbeddedUrl"]>>
<1>1. Candidates(final, page) = IF \E i \in 1 .. 4 : list[i].biz # None THEN list ELSE last
  BY DEF Candidates
<1>2. biz_from_verified_url(final) = final.biz
  BY DEF biz_from_verified_url
<1>3. DOMAIN values = 1 .. n
  OBVIOUS
<1>4. ToSet(page.canonical) = {page.canonical[i] : i \in DOMAIN page.canonical}
  BY DEF ToSet
<1>5. /\ canonical = None => \A i \in DOMAIN values : values[i] = None
      /\ canonical # None => \E i \in DOMAIN values : values[i] = canonical
  <2> HIDE DEF values
  <2> QED
    BY <1>3, FirstValue
<1>6. \A l \in ToSet(page.canonical) : \E i \in DOMAIN values : values[i] = biz_from_string_url(l)
  BY <1>4
<1>7. \A i \in DOMAIN values : \E l \in ToSet(page.canonical) : values[i] = biz_from_string_url(l)
  BY <1>4
<1> HIDE DEF values, canonical
<1>8. canonical \in own \cup {None}
  BY <1>5, <1>7 DEF OwnValues
<1>9. /\ DOMAIN list = 1 .. 4 /\ list[1].biz = final.biz /\ list[2].biz = page.script
      /\ list[3].biz = biz_from_string_url(page.message) /\ list[4].biz = canonical
  BY <1>2
<1>10. DOMAIN last = {1} /\ last[1].biz = biz_from_string_url(page.embedded)
  OBVIOUS
<1> HIDE DEF list, last
<1>11. (\E i \in 1 .. 4 : list[i].biz # None) <=>
         final.biz # None \/ page.script # None \/ biz_from_string_url(page.message) # None \/ canonical # None
  <2>1. \A i \in 1 .. 4 : i = 1 \/ i = 2 \/ i = 3 \/ i = 4
    OBVIOUS
  <2>2. 1 \in 1 .. 4 /\ 2 \in 1 .. 4 /\ 3 \in 1 .. 4 /\ 4 \in 1 .. 4
    OBVIOUS
  <2> QED
    BY <1>9, <2>1, <2>2
<1>12. own = {None} <=>
         final.biz = None /\ page.script = None /\ biz_from_string_url(page.message) = None /\ canonical = None
  BY <1>5, <1>6, <1>7 DEF OwnValues, OwnFirst
<1>13. CASE own = {None}
  <2>1. Candidates(final, page) = last
    BY <1>1, <1>11, <1>12, <1>13
  <2>2. DOMAIN last \subseteq Nat
    BY <1>10
  <2> QED
    BY <1>10, <1>13, <2>1, <2>2
<1>14. CASE own # {None}
  <2>1. Candidates(final, page) = list
    BY <1>1, <1>11, <1>12, <1>14
  <2>2. DOMAIN list \subseteq Nat
    BY <1>9
  <2> QED
    BY <1>8, <1>9, <1>14, <2>1, <2>2
<1> QED
  BY <1>13, <1>14

\* What a page says of itself, when it says anything.
LEMMA ExtractedIs ==
    ASSUME NEW url, NEW final, NEW page, NEW n \in Nat, DOMAIN page.canonical = 1 .. n, None \notin Books,
           NEW found, found = extract_identity_from_html(url, final, page)
    PROVE  /\ found.error = None =>
                /\ final.public /\ ~page.verify
                /\ final.biz \in Books => found.book = final.biz
                /\ IF OwnValues(final, page) = {None} THEN found.book = page.embedded.biz
                   ELSE found.book \in OwnValues(final, page)
           /\ found.error \in {"InvalidBiz", "MissingIdentity"} => OwnFirst(final, page) \cap Books = {}
<1> DEFINE said == Candidates(final, page)
           own == OwnValues(final, page)
           good == {i \in DOMAIN said : decode_biz(said[i].biz) # None}
<1>1. found = IF ~url.public THEN Failed("InvalidArticleUrl")
        ELSE IF ~final.public THEN Failed("UnsafeRedirect")
        ELSE IF page.verify THEN Failed("VerificationRequired")
        ELSE IF \A i \in DOMAIN said : said[i].biz = None THEN Failed("MissingIdentity")
        ELSE IF good = {} THEN Failed("InvalidBiz")
        ELSE Found(decode_biz(said[Min(good)].biz), first_metadata_value(page.names), said[Min(good)].method)
  BY DEF extract_identity_from_html, is_structural_verification_page
<1>2. \A v : decode_biz(v) # None <=> v \in Books
  BY DEF decode_biz
<1>3. \A v : v \in Books => decode_biz(v) = v
  BY DEF decode_biz
<1>4. \A e : Failed(e).error = e
  BY DEF Failed
<1>5. \A b, m, x : Found(b, m, x).error = None /\ Found(b, m, x).book = b
  BY DEF Found
<1> SUFFICES ASSUME found.error \in {None, "InvalidBiz", "MissingIdentity"}
             PROVE  /\ found.error = None =>
                          /\ final.public /\ ~page.verify
                          /\ final.biz \in Books => found.book = final.biz
                          /\ IF own = {None} THEN found.book = page.embedded.biz ELSE found.book \in own
                    /\ found.error \in {"InvalidBiz", "MissingIdentity"} => OwnFirst(final, page) \cap Books = {}
  BY DEF None
<1>6. url.public /\ final.public /\ ~page.verify
  <2> HIDE DEF said, good
  <2> QED
    BY <1>1, <1>4 DEF None
<1>7. /\ DOMAIN said \subseteq Nat
      /\ own = {None} => DOMAIN said = {1} /\ said[1].biz = biz_from_string_url(page.embedded)
      /\ own # {None} => /\ DOMAIN said = 1 .. 4 /\ said[1].biz = final.biz /\ said[2].biz = page.script
                         /\ said[3].biz = biz_from_string_url(page.message)
                         /\ said[4].biz \in own \cup {None}
  <2>1. LET S == Candidates(final, page)
            o == OwnValues(final, page)
        IN  /\ DOMAIN S \subseteq Nat
            /\ o = {None} => DOMAIN S = {1} /\ S[1].biz = biz_from_string_url(page.embedded)
            /\ o # {None} => /\ DOMAIN S = 1 .. 4 /\ S[1].biz = final.biz /\ S[2].biz = page.script
                             /\ S[3].biz = biz_from_string_url(page.message)
                             /\ S[4].biz \in o \cup {None}
    BY <1>6, CandidatesAre
  <2> QED
    BY <2>1
<1>8. good = {i \in DOMAIN said : said[i].biz \in Books}
  BY <1>2
<1> HIDE DEF said, good
<1>9. CASE good = {}
  <2>1. found.error # None /\ \A i \in DOMAIN said : said[i].biz \notin Books
    BY <1>1, <1>4, <1>6, <1>8, <1>9 DEF None
  <2>2. CASE own = {None}
    <3>1. OwnFirst(final, page) = {None}
      BY <2>2 DEF own, OwnValues, OwnFirst
    <3> QED
      BY <2>1, <3>1
  <2>3. CASE own # {None}
    <3>1. 1 \in DOMAIN said /\ 2 \in DOMAIN said /\ 3 \in DOMAIN said
      BY <1>7, <2>3
    <3>2. OwnFirst(final, page) = {said[1].biz, said[2].biz, said[3].biz}
      BY <1>7, <2>3 DEF OwnFirst
    <3> QED
      BY <2>1, <3>1, <3>2
  <2> QED
    BY <2>2, <2>3
<1>10. CASE good # {}
  <2>1. good \in SUBSET Nat
    BY <1>7, <1>8
  <2>2. Min(good) \in good /\ \A i \in good : Min(good) <= i
    BY <1>10, <2>1, LeastOf
  <2> DEFINE m == Min(good)
  <2>3. m \in DOMAIN said /\ said[m].biz \in Books /\ said[m].biz # None
    BY <1>8, <2>2
  <2>4. found = Found(decode_biz(said[m].biz), first_metadata_value(page.names), said[m].method)
    BY <1>1, <1>6, <1>10, <2>3
  <2> HIDE DEF m
  <2>5. found.error = None /\ found.book = said[m].biz
    BY <1>3, <1>5, <2>3, <2>4
  <2>6. CASE own = {None}
    <3>1. m = 1
      BY <1>7, <2>3, <2>6
    <3>2. found.book = biz_from_string_url(page.embedded) /\ found.book # None
      BY <1>7, <2>3, <2>5, <2>6, <3>1
    <3>3. found.book = page.embedded.biz
      BY <3>2 DEF biz_from_string_url
    <3>4. final.biz = None
      BY <2>6 DEF own, OwnValues, OwnFirst
    <3> QED
      BY <1>6, <2>5, <2>6, <3>3, <3>4 DEF None
  <2>7. CASE own # {None}
    <3>1. final.biz \in Books => m = 1
      <4> SUFFICES ASSUME final.biz \in Books PROVE m = 1
        OBVIOUS
      <4>1. 1 \in good
        BY <1>7, <1>8, <2>7
      <4>2. m <= 1 /\ m \in 1 .. 4
        BY <1>7, <2>2, <2>3, <2>7, <4>1 DEF m
      <4> QED
        BY <4>2
    <3>2. said[m].biz \in own
      <4>1. m = 1 \/ m = 2 \/ m = 3 \/ m = 4
        BY <1>7, <2>3, <2>7
      <4>2. final.biz \in own /\ page.script \in own /\ biz_from_string_url(page.message) \in own
        BY DEF OwnValues, OwnFirst
      <4> QED
        BY <1>7, <2>3, <2>7, <4>1, <4>2
    <3> QED
      BY <1>6, <1>7, <2>5, <2>7, <3>1, <3>2 DEF None
  <2> QED
    BY <2>6, <2>7
<1> QED
  BY <1>9, <1>10

\* Whoever asks, and whatever page is shown.
LEMMA AlwaysAscribed == AscribedToItsAccount
<1> SUFFICES ASSUME NEW r \in Requests, NEW visit \in PageVisits
             PROVE  LET url == Ask(r).link
                        found == resolve(url, visit)
                        page == visit.page
                        first == {visit.final.biz, page.script, biz_from_string_url(page.message)}
                        own == first \cup {biz_from_string_url(l) : l \in ToSet(page.canonical)}
                    IN  /\ found.error = None =>
                              \/ url.biz # None /\ found.book = url.biz
                              \/ /\ url.biz = None /\ visit.opens /\ visit.loads /\ visit.closes
                                 /\ visit.final.safe /\ visit.final.public /\ ~page.verify
                                 /\ visit.final.biz \in Books => found.book = visit.final.biz
                                 /\ IF own = {None} THEN found.book = page.embedded.biz ELSE found.book \in own
                        /\ (found.error \in {"InvalidBiz", "MissingIdentity"} /\ url.biz = None) => first \cap Books = {}
  BY DEF AscribedToItsAccount
<1> DEFINE url == Ask(r).link
           page == visit.page
           final == visit.final
           direct == resolve_from_url(url)
           found == resolve(url, visit)
           own == OwnValues(final, page)
           first == OwnFirst(final, page)
           page_says == extract_identity_from_html(url, final, page)
<1>0. \A e : Failed(e).error = e
  BY DEF Failed
<1>1. /\ Len(page.canonical) \in Nat /\ DOMAIN page.canonical = 1 .. Len(page.canonical) /\ None \notin Books
  BY WebAssumption
<1>2. \/ direct.error = None /\ url.biz # None /\ direct.book = url.biz
      \/ direct.error \in {"InvalidArticleUrl", "InvalidBiz"} /\ (url.biz = None => direct.error # "InvalidBiz")
      \/ direct.error = "MissingIdentity" /\ url.biz = None
  BY <1>1, <1>0 DEF resolve_from_url, biz_from_verified_url, decode_biz, Found, None
<1>3. direct.error # "MissingIdentity" => found = direct
  BY DEF resolve
<1>4. direct.error = "MissingIdentity" =>
        \/ found.error \in {"Browser", "UnsafeRedirect"}
        \/ visit.opens /\ visit.loads /\ final.safe /\ found = page_says /\ (found.error = None => visit.closes)
  <2> HIDE DEF page_says, direct
  <2> QED
    BY <1>0 DEF resolve, WebDriverIdentityResolver, resolve_without_cleanup, direct, page_says
<1>5. /\ page_says.error = None =>
                /\ final.public /\ ~page.verify
                /\ final.biz \in Books => page_says.book = final.biz
                /\ IF own = {None} THEN page_says.book = page.embedded.biz ELSE page_says.book \in own
      /\ page_says.error \in {"InvalidBiz", "MissingIdentity"} => first \cap Books = {}
  <2> DEFINE n == Len(page.canonical)
             said == page_says
  <2>1. n \in Nat /\ DOMAIN page.canonical = 1 .. n /\ None \notin Books
    BY <1>1
  <2> HIDE DEF n, said
  <2>2. said = extract_identity_from_html(url, final, page)
    BY DEF said
  <2>3. /\ said.error = None =>
                /\ final.public /\ ~page.verify
                /\ final.biz \in Books => said.book = final.biz
                /\ IF own = {None} THEN said.book = page.embedded.biz ELSE said.book \in own
        /\ said.error \in {"InvalidBiz", "MissingIdentity"} => first \cap Books = {}
    BY <2>1, <2>2, ExtractedIs
  <2> QED
    BY <2>3 DEF said
<1>6. own = first \cup {biz_from_string_url(l) : l \in ToSet(page.canonical)}
      /\ first = {visit.final.biz, page.script, biz_from_string_url(page.message)}
  BY DEF OwnValues, OwnFirst
<1> HIDE DEF direct, found, own, first, page_says
<1>7. /\ found.error = None =>
           \/ url.biz # None /\ found.book = url.biz
           \/ /\ url.biz = None /\ visit.opens /\ visit.loads /\ visit.closes
              /\ visit.final.safe /\ visit.final.public /\ ~page.verify
              /\ visit.final.biz \in Books => found.book = visit.final.biz
              /\ IF own = {None} THEN found.book = page.embedded.biz ELSE found.book \in own
      /\ (found.error \in {"InvalidBiz", "MissingIdentity"} /\ url.biz = None) => first \cap Books = {}
  BY <1>2, <1>3, <1>4, <1>5 DEF None
<1> QED
  BY <1>6, <1>7 DEF found

-----------------------------------------------------------------------------
(* One request acts. *)

\* What an ask keeps through all the steps of its request.
SameAsk(a, b) ==
    /\ b.kind = a.kind /\ b.from = a.from /\ b.bundle = a.bundle /\ b.after = a.after
    /\ b.cookie = a.cookie /\ b.csrf = a.csrf /\ b.right = a.right

\* q goes on, and no other request does.
Acts(q) ==
    /\ req[q].at # "done" /\ req'[q].at # req[q].at
    /\ req' = [r \in Requests |-> req'[r]] /\ \A r \in Requests \ {q} : req'[r] = req[r]
    /\ ReqOK(req'[q]) /\ SameAsk(req[q].ask, req'[q].ask)

\* What the step of q may do to the rows of sources and their tokens.
SourceStep(q) ==
    \A s \in Sources :
        /\ sources[s].there /\ sources'[s].there => OneAhead(sources[s], sources'[s])
        /\ (sources[s].gate = "risk_controlled" /\ sources'[s].there /\ sources'[s].gate # "risk_controlled") =>
              Kind(q) \in {"set_gate", "close_gate"} /\ Ask(q).src = s
TokenStep(q) == \A s \in Sources : token'[s] \in {token[s], None, q}
EditStep(q) ==
    edits' # edits => /\ Open(q) /\ req'[q].at = "done" /\ Kind(q) \in Mutations
                      /\ req[q].at = "commit" => WholeBundle(q)

\* Rows that other requests hold stay, and of their accounts none is renewed.
RowsLeft(q) ==
    \A r \in Requests \ {q} :
        /\ \A s \in DOMAIN tx[r].src : sources'[s] = sources[s]
        /\ \A a \in DOMAIN tx[r].acc : a \in lapsed => a \in lapsed'

\* The transaction of q, and no other.
TxStep(q) ==
    /\ tx' = [r \in Requests |-> tx'[r]] /\ \A r \in Requests \ {q} : tx'[r] = tx[r]
    /\ TxOK(tx'[q])
    /\ req'[q].at \notin ImportSteps => tx'[q].acc = <<>> /\ tx'[q].src = <<>>
    /\ req'[q].at \notin ImportSteps => (tx'[q] = NoTx \/ (req'[q].at = "late" /\ Kind(q) = "preview"))
    /\ \A r \in Requests \ {q} : DOMAIN tx'[q].src \cap DOMAIN tx[r].src = {}
    /\ req'[q].at \in ImportSteps => ImportOK(q)'

StepOK(q) ==
    /\ Acts(q) /\ TablesOK' /\ SourceStep(q) /\ TokenStep(q) /\ EditStep(q) /\ edits' \in Nat
    /\ RowsLeft(q) /\ TxStep(q) /\ SessionsOK' /\ LimiterOK'

LEMMA ReqFacts ==
    ASSUME RequestsOK, NEW r \in Requests
    PROVE  /\ req[r].at \in Steps /\ IsAsk(Ask(r)) /\ (req[r].at # "done" => req[r].reply = None)
           /\ (req[r].at \in ImportSteps => Kind(r) = "import")
           /\ (Kind(r) = "import" => req[r].at \in ImportSteps \cup {"new", "done"})
           /\ Ask(r).from \in Requests \cup {None} /\ Ask(r).src \in Sources /\ Ask(r).acct \in Accounts
           /\ Ask(r).key \in Keys /\ Ask(r).gate \in Gates /\ Kind(r) \in Kinds
           /\ (Ask(r).from # None => Kind(Ask(r).from) = "export")
           /\ TxOK(tx[r])
  BY DEF RequestsOK, ReqOK, Ask, Kind, IsAsk

\* Bundles, kinds and asks outlive the steps of others, and of the request itself.
LEMMA ActsKeeps ==
    ASSUME RequestsOK, NEW q \in Requests, Acts(q), NEW r \in Requests
    PROVE  /\ Kind(r)' = Kind(r) /\ SameAsk(Ask(r), Ask(r)')
           /\ ((Ask(r).from # None => req[Ask(r).from].at = "done") => BundleOf(r)' = BundleOf(r))
<1>1. SameAsk(Ask(r), Ask(r)')
  BY DEF Acts, SameAsk, Ask
<1>2. Kind(r)' = Kind(r)
  BY <1>1 DEF SameAsk, Kind, Ask
<1>3. ASSUME Ask(r).from # None => req[Ask(r).from].at = "done" PROVE BundleOf(r)' = BundleOf(r)
  <2>1. Ask(r)'.from = Ask(r).from /\ Ask(r)'.bundle = Ask(r).bundle
    BY <1>1 DEF SameAsk
  <2>2. CASE Ask(r).from = None
    BY <2>1, <2>2 DEF BundleOf
  <2>3. CASE Ask(r).from # None
    <3>1. Ask(r).from \in Requests
      BY <2>3, ReqFacts
    <3>2. req[Ask(r).from].at = "done"
      BY <1>3, <2>3
    <3>3. req'[Ask(r).from] = req[Ask(r).from]
      BY <3>1, <3>2 DEF Acts
    <3> QED
      BY <2>1, <2>3, <3>3 DEF BundleOf
  <2> QED
    BY <2>2, <2>3
<1> QED
  BY <1>1, <1>2, <1>3

\* The import of another request goes on as it was.
LEMMA OthersImport ==
    ASSUME RequestsOK, NEW q \in Requests, Acts(q), RowsLeft(q), NEW r \in Requests \ {q}, tx'[r] = tx[r],
           ImportOK(r)
    PROVE  ImportOK(r)'
<1>1. BundleOf(r)' = BundleOf(r) /\ req'[r] = req[r] /\ Ask(r)' = Ask(r)
  <2>1. Ask(r).from # None => req[Ask(r).from].at = "done"
    BY DEF ImportOK, BundleOK
  <2>2. BundleOf(r)' = BundleOf(r)
    BY <2>1, ActsKeeps
  <2> QED
    BY <2>2 DEF Acts, Ask
<1>2. SourcesWritten(r)' = SourcesWritten(r) /\ AccountsWritten(r)' = AccountsWritten(r)
  BY <1>1 DEF SourcesWritten, AccountsWritten, Ids
<1>3. BundleOK(r)'
  <2>1. ASSUME Ask(r).from # None PROVE req'[Ask(r).from].at = "done"
    <3>1. Ask(r).from \in Requests /\ req[Ask(r).from].at = "done"
      BY <2>1, ReqFacts DEF ImportOK, BundleOK
    <3> QED
      BY <3>1 DEF Acts
  <2> QED
    BY <1>1, <2>1 DEF ImportOK, BundleOK
<1>4. RowsHeld(r)'
  <2>1. \A s \in DOMAIN tx[r].src : sources'[s] = sources[s]
    BY DEF RowsLeft
  <2>2. ASSUME NEW s \in DOMAIN tx[r].src, NEW row
        PROVE  WrittenRow(s, row)' = WrittenRow(s, row) /\ UnwrittenRow(r, s, row)' = UnwrittenRow(r, s, row)
    BY <1>1, <2>1 DEF WrittenRow, UnwrittenRow
  <2> QED
    BY <1>2, <2>2 DEF ImportOK, RowsHeld
<1>5. RowsAsAsked(r)'
  BY <1>1, <1>2 DEF ImportOK, RowsAsAsked, AsAsked
<1>6. AccountsHeld(r)'
  BY <1>1, <1>2 DEF ImportOK, AccountsHeld
<1>7. StatesRead(r)'
  <2>1. \A a \in DOMAIN tx[r].acc : a \in lapsed => a \in lapsed'
    BY DEF RowsLeft
  <2> QED
    BY <1>1, <2>1 DEF ImportOK, StatesRead, Usable
<1> QED
  BY <1>3, <1>4, <1>5, <1>6, <1>7 DEF ImportOK

LEMMA StepKeeps == ASSUME WebIInv, NEW q \in Requests, StepOK(q) PROVE WebIInv'
<1> USE DEF WebIInv, StepOK
<1>1. Acts(q) /\ TxStep(q) /\ RequestsOK
  OBVIOUS
<1>2. RequestsOK'
  <2>1. \A r \in Requests : ReqOK(req'[r])
    BY <1>1 DEF Acts, RequestsOK
  <2>2. \A r \in Requests : TxOK(tx'[r])
    BY <1>1 DEF TxStep, RequestsOK
  <2>3. ASSUME NEW r \in Requests, Ask(r)'.from # None PROVE Kind(Ask(r).from)' = "export"
    <3>1. Ask(r)'.from = Ask(r).from /\ Ask(r).from \in Requests /\ Kind(Ask(r).from) = "export"
      BY <1>1, <2>3, ActsKeeps, ReqFacts DEF SameAsk
    <3> DEFINE f == Ask(r).from
    <3>2. Kind(f)' = req'[Ask(r)'.from].ask.kind /\ req'[Ask(r).from].ask.kind = req[Ask(r).from].ask.kind
      BY <1>1, <3>1, ActsKeeps DEF Kind
    <3> QED
      BY <3>1, <3>2 DEF Kind
  <2> QED
    BY <1>1, <2>1, <2>2, <2>3 DEF Acts, TxStep, RequestsOK
<1>3. OnlyImportsHold'
  <2> SUFFICES ASSUME NEW r \in Requests
               PROVE  /\ ~Importing(r)' => tx'[r].acc = <<>> /\ tx'[r].src = <<>>
                      /\ ~Importing(r)' /\ ~(req'[r].at = "late" /\ Kind(r)' = "preview") => tx'[r] = NoTx
    BY DEF OnlyImportsHold
  <2>1. CASE r = q
    BY <1>1, <2>1, ActsKeeps DEF TxStep, Importing
  <2>2. CASE r # q
    BY <1>1, <2>2, ActsKeeps DEF TxStep, Acts, Importing, OnlyImportsHold
  <2> QED
    BY <2>1, <2>2
<1>4. RowsExclusive'
  BY <1>1 DEF TxStep, RowsExclusive
<1>5. ImportsOK'
  <2> SUFFICES ASSUME NEW r \in Requests, Importing(r)' PROVE ImportOK(r)'
    BY DEF ImportsOK
  <2>1. CASE r = q
    BY <1>1, <2>1 DEF TxStep, Importing
  <2>2. CASE r # q
    <3>1. tx'[r] = tx[r] /\ ImportOK(r)
      BY <1>1, <2>2 DEF TxStep, Acts, Importing, ImportsOK
    <3> QED
      BY <1>1, <2>2, <3>1, OthersImport
  <2> QED
    BY <2>1, <2>2
<1> QED
  BY <1>2, <1>3, <1>4, <1>5

\* Sessions, when no login succeeds.
LEMMA SessionsKept ==
    ASSUME RequestsOK, SessionsOK, NEW q \in Requests, Acts(q), now' \in Nat, session' = session,
           Open(q)' /\ Kind(q) \in Mutations => HoldsSession(q)
    PROVE  SessionsOK'
<1>1. req[q].reply = None /\ None # "ok"
  BY ReqFacts DEF Acts, None
<1>2. ASSUME NEW c \in Requests, req[c].reply = "ok" PROVE req'[c].reply = "ok" /\ Ask(c)'.right = Ask(c).right
  BY <1>1, <1>2, ActsKeeps DEF Acts, SameAsk
<1>3. ASSUME NEW r \in Requests, HoldsSession(r) PROVE HoldsSession(r)'
  <2>1. Ask(r)'.cookie = Ask(r).cookie /\ Ask(r)'.csrf = Ask(r).csrf
    BY ActsKeeps DEF SameAsk
  <2> QED
    BY <1>2, <1>3, <2>1 DEF HoldsSession
<1>4. ASSUME NEW c \in Requests \ {Boot}, session[c] # 0 PROVE Ask(c)'.right /\ req'[c].reply = "ok"
  BY <1>2, <1>4 DEF SessionsOK
<1>5. ASSUME NEW r \in Requests, Open(r)', Kind(r)' \in Mutations PROVE HoldsSession(r)'
  <2>1. Kind(r)' = Kind(r)
    BY ActsKeeps
  <2>2. CASE r = q
    BY <1>3, <1>5, <2>1, <2>2
  <2>3. CASE r # q
    <3>1. Open(r)
      BY <1>5, <2>3 DEF Acts, Open
    <3> QED
      BY <1>3, <1>5, <2>1, <3>1 DEF SessionsOK
  <2> QED
    BY <2>2, <2>3
<1> QED
  BY <1>4, <1>5 DEF SessionsOK

-----------------------------------------------------------------------------
(* Steps that change no row. *)

\* What a request's record may become.
Becomes(q, ask, reply, at) ==
    /\ req' = [r \in Requests |-> req'[r]] /\ \A r \in Requests \ {q} : req'[r] = req[r]
    /\ req'[q] = [f \in ReqFields |-> req'[q][f]]
    /\ req'[q].ask = ask /\ req'[q].reply = reply /\ req'[q].at = at

LEMMA BecomesActs ==
    ASSUME RequestsOK, NEW q \in Requests, req[q].at # "done", NEW ask, NEW reply, NEW at \in Steps,
           Becomes(q, ask, reply, at), at # req[q].at, IsAsk(ask), SameAsk(req[q].ask, ask),
           req'[q].result = [f \in ResultFields |-> req'[q].result[f]],
           at # "done" => reply = None, at \in ImportSteps => Kind(q) = "import",
           Kind(q) = "import" => at \in ImportSteps \cup {"done"},
           Kind(q) = "export" /\ reply = "ok" => IsBundle(req'[q].result.file)
    PROVE  Acts(q)
<1>1. ReqOK(req'[q])
  BY DEF ReqOK, Becomes, Kind, Ask, SameAsk
<1> QED
  BY <1>1 DEF Acts, Becomes

LEMMA Answered ==
    ASSUME RequestsOK, NEW q \in Requests, req[q].at # "done", NEW reply, Answer(q, reply),
           Kind(q) = "export" => reply # "ok"
    PROVE  Acts(q) /\ req'[q].at = "done" /\ req'[q].reply = reply
<1>1. ReqOK(req[q]) /\ req = [r \in Requests |-> req[r]]
  BY DEF RequestsOK
<1>2. Becomes(q, req[q].ask, reply, "done") /\ req'[q].result = req[q].result
  BY <1>1 DEF Answer, ReqOK, ReqFields, Becomes
<1>3. IsAsk(req[q].ask) /\ SameAsk(req[q].ask, req[q].ask) /\ req[q].result = [f \in ResultFields |-> req[q].result[f]]
  BY <1>1 DEF ReqOK, SameAsk
<1>4. Acts(q)
  BY <1>2, <1>3, BecomesActs DEF Steps, ImportSteps
<1> QED
  BY <1>2, <1>4 DEF Becomes

LEMMA AnsweredWith ==
    ASSUME RequestsOK, NEW q \in Requests, req[q].at # "done", NEW reply, NEW result,
           req' = [req EXCEPT ![q] = [@ EXCEPT !.at = "done", !.reply = reply, !.result = result]],
           result = [f \in ResultFields |-> result[f]], Kind(q) = "export" /\ reply = "ok" => IsBundle(result.file)
    PROVE  Acts(q) /\ req'[q].at = "done" /\ req'[q].reply = reply
<1>1. ReqOK(req[q]) /\ req = [r \in Requests |-> req[r]]
  BY DEF RequestsOK
<1>2. Becomes(q, req[q].ask, reply, "done") /\ req'[q].result = result
  BY <1>1 DEF ReqOK, ReqFields, Becomes
<1>3. IsAsk(req[q].ask) /\ SameAsk(req[q].ask, req[q].ask)
  BY <1>1 DEF ReqOK, SameAsk
<1>4. Acts(q)
  BY <1>2, <1>3, BecomesActs DEF Steps, ImportSteps
<1> QED
  BY <1>2, <1>4 DEF Becomes

LEMMA Moved ==
    ASSUME RequestsOK, NEW q \in Requests, req[q].at # "done", NEW at \in Steps \ {"done"}, at # req[q].at,
           Move(q, at), at \in ImportSteps => Kind(q) = "import", Kind(q) = "import" => at \in ImportSteps
    PROVE  Acts(q) /\ req'[q].at = at /\ req'[q].ask = req[q].ask
<1>1. ReqOK(req[q]) /\ req = [r \in Requests |-> req[r]]
  BY DEF RequestsOK
<1>2. Becomes(q, req[q].ask, req[q].reply, at) /\ req'[q].result = req[q].result
  BY <1>1 DEF Move, ReqOK, ReqFields, Becomes
<1>3. /\ IsAsk(req[q].ask) /\ SameAsk(req[q].ask, req[q].ask) /\ req[q].result = [f \in ResultFields |-> req[q].result[f]]
      /\ req[q].reply = None /\ None # "ok"
  BY <1>1 DEF ReqOK, SameAsk, None
<1>4. Acts(q)
  BY <1>2, <1>3, BecomesActs
<1> QED
  BY <1>2, <1>4 DEF Becomes

LEMMA NoTxHeld ==
    ASSUME WebIInv, NEW q \in Requests, req[q].at \notin ImportSteps, ~(req[q].at = "late" /\ Kind(q) = "preview")
    PROVE  tx[q] = NoTx
  BY DEF WebIInv, OnlyImportsHold, Importing

LEMMA SameRows == ASSUME TablesOK, sources' = sources, NEW q PROVE SourceStep(q)
<1>1. \A s \in Sources : sources[s].rev \in Nat
  BY DEF TablesOK, IsSource
<1> QED
  BY <1>1 DEF SourceStep, OneAhead

LEMMA EmptyTx == TxOK(NoTx) /\ NoTx.acc = <<>> /\ NoTx.src = <<>> /\ DOMAIN NoTx.src = {} /\ DOMAIN NoTx.acc = {} /\ NoTx.i = 1
<1>1. NoTx.acc = <<>> /\ NoTx.src = <<>> /\ NoTx.i = 1
  BY DEF NoTx
<1>2. NoTx = [f \in TxFields |-> NoTx[f]]
  BY DEF NoTx, TxFields
<1> QED
  BY <1>1, <1>2 DEF TxOK

\* No row, no transaction and no session changes.
Quiet ==
    /\ now' = now /\ limiter' = limiter /\ session' = session /\ guesses' = guesses
    /\ accounts' = accounts /\ lapsed' = lapsed /\ sources' = sources /\ token' = token
    /\ tx' = tx /\ edits' = edits

LEMMA QuietIs ==
    ASSUME UNCHANGED <<sessionVars, dbVars, tx, edits, ticks, faults>> PROVE Quiet
  BY DEF sessionVars, dbVars, Quiet

LEMMA RestStep ==
    ASSUME WebIInv, NEW q \in Requests, Acts(q), tx[q] = NoTx, req'[q].at \in ImportSteps => ImportOK(q)',
           accounts' = accounts, lapsed' = lapsed, sources' = sources, token' = token, tx' = tx, edits' = edits
    PROVE  TablesOK' /\ SourceStep(q) /\ TokenStep(q) /\ EditStep(q) /\ edits' \in Nat /\ RowsLeft(q) /\ TxStep(q)
<1> USE DEF WebIInv
<1>1. TablesOK'
  BY DEF TablesOK
<1>2. SourceStep(q)
  BY SameRows
<1>3. RowsLeft(q)
  BY DEF RowsLeft
<1>4. TxStep(q)
  BY EmptyTx DEF TxStep, RequestsOK, RowsExclusive
<1> QED
  BY <1>1, <1>2, <1>3, <1>4 DEF TokenStep, EditStep, RequestsOK

LEMMA QuietStep ==
    ASSUME WebIInv, NEW q \in Requests, Acts(q), Quiet, tx[q] = NoTx, req'[q].at \in ImportSteps => ImportOK(q)',
           Open(q)' /\ Kind(q) \in Mutations => HoldsSession(q)
    PROVE  StepOK(q)
<1>1. TablesOK' /\ SourceStep(q) /\ TokenStep(q) /\ EditStep(q) /\ edits' \in Nat /\ RowsLeft(q) /\ TxStep(q)
  BY RestStep DEF Quiet
<1>2. LimiterOK' /\ now' \in Nat
  BY TickLimits DEF SessionsOK, WebIInv, Quiet
<1>3. SessionsOK'
  BY <1>2, SessionsKept DEF WebIInv, Quiet
<1> QED
  BY <1>1, <1>2, <1>3 DEF StepOK

\* A request that is refused, or answered from what it reads.
LEMMA RefusedStep ==
    ASSUME WebIInv, NEW q \in Requests, req[q].at # "done", tx[q] = NoTx, NEW reply, Refused(q, reply),
           Kind(q) = "export" => reply # "ok"
    PROVE  StepOK(q)
<1>1. Answer(q, reply) /\ Quiet
  BY QuietIs DEF Refused
<1>2. Acts(q) /\ req'[q].at = "done"
  BY <1>1, Answered DEF WebIInv
<1>3. ~Open(q)' /\ req'[q].at \notin ImportSteps
  BY <1>2 DEF Open, ImportSteps
<1> QED
  BY <1>1, <1>2, <1>3, QuietStep

\* What the guard of a step outside an import says.
LEMMA AtStep ==
    ASSUME WebIInv, NEW q \in Requests, NEW at \in {"act", "late", "held", "load", "resolve"}, req[q].at = at,
           at = "late" => Kind(q) # "preview"
    PROVE  tx[q] = NoTx /\ req[q].at # "done" /\ Open(q)
  BY NoTxHeld DEF ImportSteps, Open

\* Handlers that only read, and those of the refusals of the others.
LEMMA ReadStep ==
    ASSUME WebIInv, NEW q \in Requests, GetSource(q) \/ GetAccount(q) \/ ListSyncRuns(q) \/ DeliverFeed(q)
    PROVE  StepOK(q)
<1>1. req[q].at = "act" /\ Kind(q) # "export"
  BY DEF GetSource, GetAccount, ListSyncRuns, DeliverFeed, At
<1>2. tx[q] = NoTx /\ req[q].at # "done"
  BY <1>1, AtStep
<1>3. \E reply : Refused(q, reply)
  BY DEF GetSource, GetAccount, ListSyncRuns, DeliverFeed
<1> QED
  BY <1>1, <1>2, <1>3, RefusedStep

LEMMA LookUpStep == ASSUME WebIInv, NEW q \in Requests, LookUpAccount(q) PROVE StepOK(q)
<1>1. ReqOK(req[q]) /\ req = [r \in Requests |-> req[r]] /\ req[q].at = "load" /\ Quiet /\ RequestsOK
  BY QuietIs DEF WebIInv, RequestsOK, LookUpAccount
<1> DEFINE steady == accounts[Ask(q).acct].state # "absent"
           result == [req[q].result EXCEPT !.steady = steady]
<1>2. req' = [req EXCEPT ![q] = [@ EXCEPT !.at = "late", !.result = result]]
  BY DEF LookUpAccount
<1>3. result = [f \in ResultFields |-> result[f]]
  BY <1>1 DEF ReqOK
<1> HIDE DEF steady, result
<1>4. Becomes(q, req[q].ask, req[q].reply, "late") /\ req'[q].result = result
  BY <1>1, <1>2 DEF ReqOK, ReqFields, Becomes
<1>5. /\ IsAsk(req[q].ask) /\ SameAsk(req[q].ask, req[q].ask) /\ req[q].reply = None /\ None # "ok"
      /\ Kind(q) # "import"
  BY <1>1, ReqFacts DEF ReqOK, SameAsk, None, ImportSteps
<1>7. Acts(q) /\ req'[q].at = "late"
  BY <1>1, <1>3, <1>4, <1>5, BecomesActs DEF Steps, ImportSteps, Becomes
<1>8. tx[q] = NoTx /\ Open(q)
  BY <1>1, AtStep
<1>9. Kind(q) \in Mutations => HoldsSession(q)
  BY <1>8 DEF WebIInv, SessionsOK
<1> QED
  BY <1>1, <1>7, <1>8, <1>9, QuietStep DEF ImportSteps

\* A row is locked and held.
LEMMA SelectStep == ASSUME WebIInv, NEW q \in Requests, SelectSource(q) \/ SelectAccount(q) PROVE StepOK(q)
<1>1. req[q].at \in {"act", "late"} /\ Kind(q) \in {"update_source", "replace", "set_account_enabled", "complete_qr"}
  BY DEF SelectSource, SelectAccount, At
<1>2. tx[q] = NoTx /\ req[q].at # "done" /\ Open(q) /\ RequestsOK
  BY <1>1, AtStep DEF WebIInv
<1>3. CASE \E reply : Refused(q, reply)
  BY <1>1, <1>2, <1>3, RefusedStep
<1>4. CASE ~\E reply : Refused(q, reply)
  <2>1. Move(q, "held") /\ Quiet
    BY <1>4, QuietIs DEF SelectSource, SelectAccount
  <2>2. Acts(q) /\ req'[q].at = "held"
    BY <1>1, <1>2, <2>1, Moved DEF Steps, ImportSteps
  <2>3. HoldsSession(q)
    BY <1>1, <1>2 DEF WebIInv, SessionsOK, Mutations
  <2> QED
    BY <1>2, <2>1, <2>2, <2>3, QuietStep DEF ImportSteps
<1> QED
  BY <1>3, <1>4

\* The ask of a request that learns its account or its source.
LEMMA AskGrows ==
    ASSUME RequestsOK, NEW q \in Requests, req[q].at # "done", req[q].at # "act", Kind(q) # "import", NEW ask,
           req' = [req EXCEPT ![q] = [@ EXCEPT !.at = "act", !.ask = ask]], IsAsk(ask), SameAsk(req[q].ask, ask)
    PROVE  Acts(q) /\ req'[q].at = "act"
<1>1. ReqOK(req[q]) /\ req = [r \in Requests |-> req[r]]
  BY DEF RequestsOK
<1>2. Becomes(q, ask, req[q].reply, "act") /\ req'[q].result = req[q].result
  BY <1>1 DEF ReqOK, ReqFields, Becomes
<1>3. /\ req[q].result = [f \in ResultFields |-> req[q].result[f]] /\ req[q].reply = None /\ None # "ok"
  BY <1>1 DEF ReqOK, None
<1>4. Acts(q)
  BY <1>2, <1>3, BecomesActs DEF Steps, ImportSteps
<1> QED
  BY <1>2, <1>4 DEF Becomes

LEMMA ResolveTokenStep == ASSUME WebIInv, NEW q \in Requests, ResolveToken(q) PROVE StepOK(q)
<1>1. req[q].at = "new" /\ Kind(q) = "feed"
  BY DEF ResolveToken, Sendable
<1>2. tx[q] = NoTx /\ RequestsOK /\ IsAsk(Ask(q))
  BY <1>1, NoTxHeld, ReqFacts DEF ImportSteps, WebIInv
<1>3. CASE \E reply : Refused(q, reply)
  BY <1>1, <1>2, <1>3, RefusedStep
<1>4. CASE ~(\E reply : Refused(q, reply))
  <2>1. PICK s \in find_source(Ask(q).token) :
            req' = [req EXCEPT ![q] = [@ EXCEPT !.at = "act", !.ask = [Ask(q) EXCEPT !.src = s]]]
    BY <1>4 DEF ResolveToken
  <2>2. Quiet /\ s \in Sources
    BY <1>4, QuietIs DEF ResolveToken, find_source
  <2> DEFINE ask == [Ask(q) EXCEPT !.src = s]
  <2>3. IsAsk(ask) /\ SameAsk(req[q].ask, ask)
    BY <1>2, <2>2 DEF IsAsk, SameAsk, Ask
  <2>4. req' = [req EXCEPT ![q] = [@ EXCEPT !.at = "act", !.ask = ask]]
    BY <2>1
  <2> HIDE DEF ask
  <2>5. Acts(q) /\ req'[q].at = "act"
    BY <1>1, <1>2, <2>3, <2>4, AskGrows
  <2> QED
    BY <1>1, <1>2, <2>2, <2>5, QuietStep DEF ImportSteps, Mutations
<1> QED
  BY <1>3, <1>4

LEMMA ResolveIdentityStep == ASSUME WebIInv, NEW q \in Requests, ResolveIdentity(q) PROVE StepOK(q)
<1>1. req[q].at = "resolve"
  BY DEF ResolveIdentity
<1>2. tx[q] = NoTx /\ RequestsOK /\ IsAsk(Ask(q)) /\ Open(q) /\ (Kind(q) \in Mutations => HoldsSession(q))
      /\ Kind(q) # "import"
  BY <1>1, AtStep, ReqFacts DEF ImportSteps, WebIInv, SessionsOK
<1>3. ASSUME NEW error, Refused(q, identity_error_response(error)) PROVE StepOK(q)
  <2> DEFINE reply == identity_error_response(error)
  <2>1. reply # "ok"
    BY DEF identity_error_response
  <2>2. Refused(q, reply)
    BY <1>3
  <2> HIDE DEF reply
  <2> QED
    BY <1>1, <1>2, <2>1, <2>2, RefusedStep
<1>4. ASSUME NEW found, req' = [req EXCEPT ![q] = [@ EXCEPT !.at = "act", !.ask = Identified(Ask(q), found)]],
             UNCHANGED <<sessionVars, dbVars, tx, edits, ticks, faults>>
      PROVE  StepOK(q)
  <2>1. Quiet
    BY <1>4, QuietIs
  <2>2. IsAsk(Identified(Ask(q), found)) /\ SameAsk(req[q].ask, Identified(Ask(q), found))
    <3> DEFINE row == [Ask(q).row EXCEPT !.book = found.book,
                          !.look = IF @ # None THEN @ ELSE IF found.name # None THEN found.name ELSE found.book]
               ask == [Ask(q) EXCEPT !.row = row]
    <3>1. DOMAIN row = DOMAIN Ask(q).row
      OBVIOUS
    <3>2. Identified(Ask(q), found) = ask
      BY DEF Identified
    <3> HIDE DEF row
    <3>3. IsAsk(ask) /\ SameAsk(req[q].ask, ask)
      BY <1>2, <3>1 DEF IsAsk, SameAsk, Ask
    <3> QED
      BY <3>2, <3>3
  <2>3. Acts(q) /\ req'[q].at = "act"
    <3> DEFINE ask == Identified(Ask(q), found)
    <3>1. req' = [req EXCEPT ![q] = [@ EXCEPT !.at = "act", !.ask = ask]] /\ IsAsk(ask) /\ SameAsk(req[q].ask, ask)
      BY <1>4, <2>2
    <3> HIDE DEF ask
    <3> QED
      BY <1>1, <1>2, <3>1, AskGrows
  <2> QED
    BY <1>1, <1>2, <2>1, <2>3, QuietStep DEF ImportSteps
<1> QED
  BY <1>3, <1>4 DEF ResolveIdentity

\* A request arrives.  What an import starts from is a validated bundle.
LEMMA FirstImportStep ==
    ASSUME WebIInv, NEW q \in Requests, Acts(q), Quiet, tx[q] = NoTx, Kind(q) = "import", Sendable(q), ~Malformed(q),
           req'[q].ask = req[q].ask, req'[q].at = FirstStep(q)
    PROVE  ImportOK(q)' /\ FirstStep(q) \in ImportSteps
<1>1. RequestsOK /\ ReqOK(req[q])
  BY DEF WebIInv, RequestsOK
<1>2. Ask(q).from # None => /\ Ask(q).from \in Requests /\ Kind(Ask(q).from) = "export"
                            /\ req[Ask(q).from].reply = "ok"
  BY <1>1, ReqFacts DEF Sendable
<1>3. Ask(q).from # None => req[Ask(q).from].at = "done" /\ IsBundle(req[Ask(q).from].result.file) /\ Ask(q).from # q
  <2> SUFFICES ASSUME Ask(q).from # None
               PROVE  req[Ask(q).from].at = "done" /\ IsBundle(req[Ask(q).from].result.file) /\ Ask(q).from # q
    OBVIOUS
  <2> DEFINE f == Ask(q).from
  <2>1. f \in Requests /\ Kind(f) = "export" /\ req[f].reply = "ok"
    BY <1>2
  <2> HIDE DEF f
  <2>2. ReqOK(req[f])
    BY <2>1 DEF WebIInv, RequestsOK
  <2>3. req[f].at = "done" /\ IsBundle(req[f].result.file)
    BY <2>1, <2>2 DEF ReqOK, Kind, Ask, None
  <2>4. f # q
    BY <2>1
  <2> QED
    BY <2>3, <2>4 DEF f
<1>4. IsBundle(BundleOf(q)) /\ BundleOf(q)' = BundleOf(q)
  <2>1. BundleOf(q)' = BundleOf(q)
    BY <1>1, <1>3, ActsKeeps
  <2>2. IsAsk(Ask(q))
    BY <1>1, ReqFacts
  <2> QED
    BY <1>3, <2>1, <2>2 DEF BundleOf, IsAsk
<1>5. Distinct(BundleOf(q).sources, "id") /\ Distinct(BundleOf(q).accounts, "id")
  BY DEF Malformed, ValidBundle
<1>6. /\ FirstStep(q) \in {"accounts", "states"}
      /\ FirstStep(q) = "accounts" => BundleOf(q).accounts # <<>>
      /\ FirstStep(q) = "states" => BundleOf(q).accounts = <<>>
  BY DEF FirstStep
<1>7. tx'[q] = NoTx /\ tx'[q].acc = <<>> /\ tx'[q].src = <<>> /\ tx'[q].i = 1 /\ DOMAIN tx'[q].acc = {} /\ DOMAIN tx'[q].src = {}
  BY EmptyTx DEF Quiet
<1>8. BundleOK(q)'
  <2>1. Ask(q)' = Ask(q)
    BY DEF Ask
  <2>2. Ask(q).from # None => req'[Ask(q).from].at = "done"
    BY <1>2, <1>3 DEF Acts
  <2>3. FirstStep(q) = "accounts" => 1 \in 1 .. Len(BundleOf(q).accounts)
    <3> SUFFICES ASSUME FirstStep(q) = "accounts", Len(BundleOf(q).accounts) = 0 PROVE FALSE
      BY <1>4 DEF IsBundle
    <3> DEFINE b == BundleOf(q).accounts
    <3>1. b = [i \in 1 .. 0 |-> b[i]]
      BY <1>4 DEF IsBundle
    <3>2. b = <<>>
      BY <3>1
    <3> QED
      BY <1>6, <3>2
  <2> QED
    BY <1>4, <1>5, <1>6, <1>7, <2>1, <2>2, <2>3 DEF BundleOK
<1>9. SourcesWritten(q)' = {} /\ AccountsWritten(q)' = {}
  <2>1. SourcesWritten(q)' = {}
    BY <1>6 DEF SourcesWritten
  <2>2. CASE FirstStep(q) = "accounts"
    BY <1>7, <2>1, <2>2 DEF AccountsWritten
  <2>3. CASE FirstStep(q) = "states"
    <3>1. Ids(BundleOf(q).accounts) = {}
      BY <1>6, <2>3 DEF Ids
    <3> QED
      BY <1>4, <2>1, <2>3, <3>1 DEF AccountsWritten
  <2> QED
    BY <1>6, <2>2, <2>3
<1>10. RowsHeld(q)' /\ RowsAsAsked(q)' /\ AccountsHeld(q)' /\ StatesRead(q)'
  BY <1>7, <1>9 DEF RowsHeld, RowsAsAsked, AccountsHeld, StatesRead
<1> QED
  BY <1>6, <1>8, <1>10 DEF ImportOK, ImportSteps

LEMMA VerdictIs ==
    ASSUME WebIInv, NEW q \in Requests, Verdict(q) = "ok", Kind(q) \in Mutations
    PROVE  HoldsSession(q)
<1> DEFINE c == Ask(q).cookie
<1>1. authenticate_cookie(c) /\ verify_csrf(c, Ask(q).csrf)
  BY DEF Verdict, auth_error_response
<1>2. c \in Requests \cup {Boot} /\ session[c] > now /\ session[c] \in Nat /\ now \in Nat
  BY <1>1 DEF authenticate_cookie, WebIInv, SessionsOK
<1>3. session[c] # 0
  BY <1>2
<1> QED
  BY <1>1, <1>2, <1>3 DEF HoldsSession, WebIInv, SessionsOK, verify_csrf

LEMMA ReceiveStep == ASSUME WebIInv, NEW q \in Requests, Receive(q) PROVE StepOK(q)
<1>1. Sendable(q) /\ req[q].at = "new" /\ Quiet /\ Kind(q) \notin {"login", "feed"} \cup Background
  BY QuietIs DEF Receive, Sendable
<1>2. tx[q] = NoTx /\ RequestsOK /\ Kind(q) \in Kinds
  BY <1>1, NoTxHeld, ReqFacts DEF ImportSteps, WebIInv
<1>3. ASSUME NEW reply, Answer(q, reply), Kind(q) = "export" => reply # "ok" PROVE StepOK(q)
  <2>1. Acts(q) /\ req'[q].at = "done"
    BY <1>1, <1>2, <1>3, Answered
  <2> QED
    BY <1>1, <1>2, <2>1, QuietStep DEF ImportSteps, Open
<1>8. CASE Answer(q, "invalid")
  BY <1>3, <1>8
<1> SUFFICES ASSUME ~Answer(q, "invalid") PROVE StepOK(q)
  BY <1>8
<1>4. CASE Verdict(q) # "ok"
  <2>1. PICK reply : reply = Verdict(q)
    OBVIOUS
  <2> QED
    BY <1>3, <1>4, <2>1 DEF Receive
<1>5. CASE Verdict(q) = "ok" /\ Malformed(q)
  BY <1>3, <1>5 DEF Receive
<1>6. CASE Verdict(q) = "ok" /\ ~Malformed(q) /\ Kind(q) \in {"logout", "page"}
  BY <1>3, <1>6 DEF Receive
<1>7. CASE Verdict(q) = "ok" /\ ~Malformed(q) /\ Kind(q) \notin {"logout", "page"}
  <2>1. Move(q, FirstStep(q))
    BY <1>7 DEF Receive
  <2>2. /\ FirstStep(q) \in {"accounts", "states", "resolve", "load", "act"}
        /\ (FirstStep(q) \in {"accounts", "states"} => Kind(q) = "import")
        /\ (Kind(q) = "import" => FirstStep(q) \in {"accounts", "states"})
    BY DEF FirstStep
  <2>3. Acts(q) /\ req'[q].at = FirstStep(q) /\ req'[q].ask = req[q].ask
    <3>1. PICK at : at = FirstStep(q)
      OBVIOUS
    <3>2. at \in Steps \ {"done"} /\ at # "new" /\ (at \in ImportSteps => Kind(q) = "import") /\ (Kind(q) = "import" => at \in ImportSteps)
      BY <2>2, <3>1 DEF Steps, ImportSteps
    <3> QED
      BY <1>1, <1>2, <2>1, <3>1, <3>2, Moved
  <2>4. Kind(q) \in Mutations => HoldsSession(q)
    BY <1>7, VerdictIs
  <2>5. CASE Kind(q) # "import"
    BY <1>1, <1>2, <2>2, <2>3, <2>4, <2>5, QuietStep DEF ImportSteps
  <2>6. CASE Kind(q) = "import"
    <3>1. ImportOK(q)' /\ FirstStep(q) \in ImportSteps
      BY <1>1, <1>2, <1>7, <2>3, <2>6, FirstImportStep
    <3> QED
      BY <1>1, <1>2, <2>3, <2>4, <3>1, QuietStep
  <2> QED
    BY <2>5, <2>6
<1> QED
  BY <1>4, <1>5, <1>6, <1>7

-----------------------------------------------------------------------------
(* Logins. *)

LEMMA LoginStep == ASSUME WebIInv, NEW q \in Requests, Login(q) PROVE StepOK(q)
<1>1. Sendable(q) /\ req[q].at = "new" /\ Kind(q) = "login"
  BY DEF Login, Sendable
<1>2. /\ tx[q] = NoTx /\ RequestsOK /\ Ask(q).key \in Keys /\ LimiterOK /\ SessionsOK
      /\ req[q].reply = None
  BY <1>1, NoTxHeld, ReqFacts DEF ImportSteps, WebIInv
<1>3. PICK reply : Answer(q, reply)
  BY DEF Login
<1>4. Acts(q) /\ req'[q].at = "done" /\ req'[q].reply = reply
  BY <1>1, <1>2, <1>3, Answered
<1>5. accounts' = accounts /\ lapsed' = lapsed /\ sources' = sources /\ token' = token /\ tx' = tx /\ edits' = edits
  BY DEF Login, dbVars
<1>6. TablesOK' /\ SourceStep(q) /\ TokenStep(q) /\ EditStep(q) /\ edits' \in Nat /\ RowsLeft(q) /\ TxStep(q)
  BY <1>2, <1>4, <1>5, RestStep DEF ImportSteps
<1>7. LimiterOK' /\ now' \in Nat
  <2>1. LoginRefused(Ask(q).key) \/ LoginWrong(Ask(q).key) \/ LoginRight(Ask(q).key, q)
    BY DEF Login
  <2> QED
    BY <1>2, <2>1, RefusedLimits, WrongLimits, RightLimits DEF SessionsOK, LoginRefused, LoginWrong, LoginRight
<1>8. SessionsOK'
  <2>1. CASE session' = session
    BY <1>2, <1>4, <1>7, <2>1, SessionsKept DEF Open
  <2>2. CASE session' # session
    <3>1. Ask(q).right /\ LoginRight(Ask(q).key, q) /\ Answer(q, "ok")
      BY <2>2 DEF Login, LoginRefused, LoginWrong
    <3>2. req'[q].reply = "ok"
      BY <1>1, <1>2, <3>1, Answered
    <3>3. session' = [session EXCEPT ![q] = now + SESSION_TTL] /\ now' = now
      BY <3>1 DEF LoginRight
    <3>4. session' \in [Requests \cup {Boot} -> Nat] /\ \A c \in Requests \ {q} : session'[c] = session[c]
      BY <1>2, <3>3, SessionTimesAssumption DEF SessionsOK
    <3>5. ASSUME NEW c \in Requests, req[c].reply = "ok" PROVE c # q /\ req'[c] = req[c]
      BY <1>2, <1>4, <3>5 DEF Acts, None
    <3>6. \A c \in Requests \ {Boot} : session'[c] # 0 => Ask(c)'.right /\ req'[c].reply = "ok"
      <4> SUFFICES ASSUME NEW c \in Requests \ {Boot}, session'[c] # 0 PROVE Ask(c)'.right /\ req'[c].reply = "ok"
        OBVIOUS
      <4>1. CASE c = q
        BY <1>2, <1>4, <3>1, <3>2, <4>1, ActsKeeps DEF SameAsk
      <4>2. CASE c # q
        <5>1. Ask(c).right /\ req[c].reply = "ok"
          BY <3>4, <4>2, <1>2 DEF SessionsOK
        <5> QED
          BY <5>1, <3>5 DEF Ask
      <4> QED
        BY <4>1, <4>2
    <3>7. ASSUME NEW r \in Requests, Open(r)', Kind(r)' \in Mutations PROVE HoldsSession(r)'
      <4>1. r # q /\ req'[r] = req[r]
        BY <1>4, <3>7 DEF Open, Acts
      <4>2. HoldsSession(r)
        BY <1>2, <3>7, <4>1 DEF SessionsOK, Open, Kind
      <4> QED
        BY <3>5, <4>1, <4>2 DEF HoldsSession, Ask
    <3> QED
      BY <1>7, <3>4, <3>6, <3>7 DEF SessionsOK
  <2> QED
    BY <2>1, <2>2
<1> QED
  BY <1>4, <1>6, <1>7, <1>8 DEF StepOK

-----------------------------------------------------------------------------
(* Files, previews and rollbacks. *)

LEMMA SequenceOfSet ==
    ASSUME NEW S, IsFiniteSet(S)
    PROVE  /\ Cardinality(S) \in Nat /\ DOMAIN SetToSeq(S) = 1 .. Cardinality(S)
           /\ \A i \in DOMAIN SetToSeq(S) : SetToSeq(S)[i] \in S
           /\ \A i, j \in DOMAIN SetToSeq(S) : SetToSeq(S)[i] = SetToSeq(S)[j] => i = j
<1> DEFINE n == Cardinality(S)
<1>1. n \in Nat /\ ExistsBijection(1 .. n, S)
  BY FS_CardinalityType
<1>2. \E f \in [1 .. n -> S] : IsInjective(f)
  BY <1>1 DEF ExistsBijection, Bijection, Injection
<1>3. SetToSeq(S) \in [1 .. n -> S] /\ IsInjective(SetToSeq(S))
  BY <1>2 DEF SetToSeq
<1> QED
  BY <1>1, <1>3 DEF IsInjective

LEMMA ExportIsBundle ==
    ASSUME TablesOK, NEW sections
    PROVE  IsBundle(ExportBundle(sections, sources, accounts))
<1> DEFINE S == {s \in Sources : sources[s].there}
           A == {a \in Accounts : accounts[a].state # "absent"}
           ids == SetToSeq(S)
           names == SetToSeq(A)
           accts == [i \in DOMAIN names |-> PortableAccount(names[i], accounts[names[i]])]
           srcs == [i \in DOMAIN ids |-> PortableSource(ids[i], sources[ids[i]])]
           as == IF "accounts" \in sections THEN accts ELSE <<>>
           ss == IF "sources" \in sections THEN srcs ELSE <<>>
           b == ExportBundle(sections, sources, accounts)
<1>1. IsFiniteSet(S) /\ IsFiniteSet(A)
  BY FS_Subset, WebAssumption
<1>2. /\ Cardinality(S) \in Nat /\ DOMAIN ids = 1 .. Cardinality(S) /\ \A i \in DOMAIN ids : ids[i] \in S
      /\ Cardinality(A) \in Nat /\ DOMAIN names = 1 .. Cardinality(A) /\ \A i \in DOMAIN names : names[i] \in A
  BY <1>1, SequenceOfSet
<1>3. b.accounts = as /\ b.sources = ss
  BY DEF ExportBundle, Bundle
<1> HIDE DEF S, A, ids, names, b
<1>4. Len(accts) \in Nat /\ accts = [i \in 1 .. Len(accts) |-> accts[i]]
  BY <1>2
<1>5. Len(srcs) \in Nat /\ srcs = [i \in 1 .. Len(srcs) |-> srcs[i]]
  BY <1>2
<1>6. ASSUME NEW i \in DOMAIN names PROVE accts[i].id \in Accounts /\ accts[i].enabled \in BOOLEAN
  <2>1. names[i] \in Accounts
    BY <1>2 DEF A
  <2> QED
    BY <2>1 DEF PortableAccount
<1>7. ASSUME NEW i \in DOMAIN ids PROVE srcs[i].id \in Sources /\ DOMAIN srcs[i] = Portable \cup {"id"}
  <2>1. ids[i] \in Sources
    BY <1>2 DEF S
  <2> QED
    BY <2>1 DEF PortableSource
<1>8. Len(<<>>) \in Nat /\ <<>> = [i \in 1 .. Len(<<>>) |-> <<>>[i]] /\ DOMAIN <<>> = {}
  OBVIOUS
<1>9. Len(as) \in Nat /\ as = [i \in 1 .. Len(as) |-> as[i]] /\ \A i \in DOMAIN as : as[i].id \in Accounts /\ as[i].enabled \in BOOLEAN
  <2>1. CASE "accounts" \in sections
    BY <1>4, <1>6, <2>1
  <2>2. CASE "accounts" \notin sections
    BY <1>8, <2>2
  <2> QED
    BY <2>1, <2>2
<1>10. Len(ss) \in Nat /\ ss = [i \in 1 .. Len(ss) |-> ss[i]] /\ \A i \in DOMAIN ss : ss[i].id \in Sources /\ DOMAIN ss[i] = Portable \cup {"id"}
  <2>1. CASE "sources" \in sections
    BY <1>5, <1>7, <2>1
  <2>2. CASE "sources" \notin sections
    BY <1>8, <2>2
  <2> QED
    BY <2>1, <2>2
<1> HIDE DEF as, ss
<1> QED
  BY <1>3, <1>9, <1>10 DEF IsBundle, b

LEMMA ExportStep == ASSUME WebIInv, NEW q \in Requests, ExportConfig(q) PROVE StepOK(q)
<1>1. req[q].at = "act" /\ Kind(q) = "export"
  BY DEF ExportConfig, At
<1>2. tx[q] = NoTx /\ req[q].at # "done" /\ RequestsOK /\ ReqOK(req[q]) /\ TablesOK
  BY <1>1, AtStep DEF WebIInv, RequestsOK
<1>3. CASE Refused(q, config_transfer_error_response("Validation"))
  BY <1>1, <1>2, <1>3, RefusedStep DEF config_transfer_error_response
<1>4. CASE ~Refused(q, config_transfer_error_response("Validation"))
  <2> DEFINE file == ExportBundle(Ask(q).sections, sources, accounts)
             result == [req[q].result EXCEPT !.base = edits, !.file = file]
  <2>1. req' = [req EXCEPT ![q] = [@ EXCEPT !.at = "done", !.reply = "ok", !.result = result]] /\ Quiet
    BY <1>4, QuietIs DEF ExportConfig
  <2>2. IsBundle(file)
    BY <1>2, ExportIsBundle
  <2> HIDE DEF file
  <2>3. result = [f \in ResultFields |-> result[f]] /\ result.file = file
    BY <1>2 DEF ReqOK, ResultFields
  <2> HIDE DEF result
  <2>4. Acts(q) /\ req'[q].at = "done"
    BY <1>1, <1>2, <2>1, <2>2, <2>3, AnsweredWith
  <2> QED
    BY <1>2, <2>1, <2>4, QuietStep DEF ImportSteps, Open
<1> QED
  BY <1>3, <1>4

\* Sessions and the limiter, when a step leaves them alone.
LEMMA SessionsStay ==
    ASSUME WebIInv, NEW q \in Requests, Acts(q), UNCHANGED sessionVars, Open(q)' => Open(q)
    PROVE  SessionsOK' /\ LimiterOK'
<1>1. now' = now /\ session' = session /\ limiter' = limiter /\ guesses' = guesses
  BY DEF sessionVars
<1>2. LimiterOK' /\ now' \in Nat
  BY <1>1, TickLimits DEF WebIInv, SessionsOK
<1>3. Open(q)' /\ Kind(q) \in Mutations => HoldsSession(q)
  BY DEF WebIInv, SessionsOK
<1> QED
  BY <1>1, <1>2, <1>3, SessionsKept DEF WebIInv

\* A request ends, and its transaction leaves no trace.
LEMMA EndsStep ==
    ASSUME WebIInv, NEW q \in Requests, Acts(q), req'[q].at = "done", tx' = [tx EXCEPT ![q] = NoTx],
           UNCHANGED <<sessionVars, dbVars, edits>>
    PROVE  StepOK(q)
<1>1. accounts' = accounts /\ lapsed' = lapsed /\ sources' = sources /\ token' = token /\ edits' = edits
  BY DEF dbVars
<1>2. TablesOK' /\ SourceStep(q)
  BY <1>1, SameRows DEF TablesOK, WebIInv
<1>3. TokenStep(q) /\ EditStep(q) /\ edits' \in Nat /\ RowsLeft(q)
  BY <1>1 DEF TokenStep, EditStep, WebIInv, RequestsOK, RowsLeft
<1>4. TxStep(q)
  <2>1. tx' = [r \in Requests |-> tx'[r]] /\ (\A r \in Requests \ {q} : tx'[r] = tx[r]) /\ tx'[q] = NoTx
    BY DEF WebIInv, RequestsOK
  <2> QED
    BY <2>1, EmptyTx DEF TxStep, ImportSteps
<1>5. SessionsOK' /\ LimiterOK'
  BY SessionsStay DEF Open
<1> QED
  BY <1>2, <1>3, <1>4, <1>5 DEF StepOK

LEMMA RollbackStep ==
    ASSUME WebIInv, NEW q \in Requests, req[q].at # "done", NEW reply, Rollback(q, reply), Kind(q) = "export" => reply # "ok"
    PROVE  StepOK(q)
<1>1. RequestsOK /\ ReqOK(req[q])
  BY DEF WebIInv, RequestsOK
<1> DEFINE result == [req[q].result EXCEPT !.base = edits]
<1>2. req' = [req EXCEPT ![q] = [@ EXCEPT !.at = "done", !.reply = reply, !.result = result]]
  BY DEF Rollback
<1>3. result = [f \in ResultFields |-> result[f]]
  BY <1>1 DEF ReqOK
<1> HIDE DEF result
<1>4. Acts(q) /\ req'[q].at = "done"
  BY <1>1, <1>2, <1>3, AnsweredWith
<1> QED
  BY <1>4, EndsStep DEF Rollback

LEMMA PreviewSourcesStep == ASSUME WebIInv, NEW q \in Requests, PreviewSources(q) PROVE StepOK(q)
<1>1. RequestsOK /\ ReqOK(req[q]) /\ req[q].at = "late" /\ Kind(q) = "preview"
  BY DEF WebIInv, RequestsOK, PreviewSources, At
<1> DEFINE told == preview_sources(BundleOf(q), tx[q].counts, tx[q].known, sources)
           result == [req[q].result EXCEPT !.counts = told.counts, !.conflicts = told.conflicts,
                                           !.base = edits, !.steady = tx[q].i = edits]
<1>2. req' = [req EXCEPT ![q] = [@ EXCEPT !.at = "done", !.reply = "ok", !.result = result]]
  BY DEF PreviewSources
<1> HIDE DEF told
<1>3. result = [f \in ResultFields |-> result[f]]
  BY <1>1 DEF ReqOK
<1> HIDE DEF result
<1>4. Acts(q) /\ req'[q].at = "done"
  BY <1>1, <1>2, <1>3, AnsweredWith
<1> QED
  BY <1>4, EndsStep DEF PreviewSources

LEMMA PreviewAccountsStep == ASSUME WebIInv, NEW q \in Requests, PreviewAccounts(q) PROVE StepOK(q)
<1>1. req[q].at = "act" /\ Kind(q) = "preview" /\ RequestsOK
  BY DEF PreviewAccounts, At, WebIInv
<1>2. tx[q] = NoTx /\ req[q].at # "done" /\ Open(q)
  BY <1>1, AtStep
<1>3. Acts(q) /\ req'[q].at = "late"
  BY <1>1, <1>2, Moved DEF PreviewAccounts, Steps, ImportSteps
<1>4. accounts' = accounts /\ lapsed' = lapsed /\ sources' = sources /\ token' = token /\ edits' = edits
  BY DEF PreviewAccounts, dbVars
<1>5. TablesOK' /\ SourceStep(q)
  BY <1>4, SameRows DEF TablesOK, WebIInv
<1>6. TokenStep(q) /\ EditStep(q) /\ edits' \in Nat /\ RowsLeft(q)
  BY <1>4 DEF TokenStep, EditStep, WebIInv, RequestsOK, RowsLeft
<1>7. TxStep(q)
  <2> DEFINE told == preview_accounts(BundleOf(q), Known)
             new == [tx[q] EXCEPT !.known = Known, !.i = edits, !.counts = told]
  <2>1. tx' = [tx EXCEPT ![q] = new]
    BY DEF PreviewAccounts
  <2> HIDE DEF told
  <2>2. TxOK(new) /\ new.acc = <<>> /\ new.src = <<>>
    BY <1>2, EmptyTx DEF TxOK, TxFields
  <2> HIDE DEF new
  <2>3. tx' = [r \in Requests |-> tx'[r]] /\ (\A r \in Requests \ {q} : tx'[r] = tx[r]) /\ tx'[q] = new
    BY <2>1 DEF WebIInv, RequestsOK
  <2>4. DOMAIN new.src = {}
    BY <2>2
  <2> QED
    BY <1>1, <1>3, <2>2, <2>3, <2>4 DEF TxStep, ImportSteps
<1>8. SessionsOK' /\ LimiterOK'
  BY <1>2, <1>3, SessionsStay DEF PreviewAccounts
<1> QED
  BY <1>3, <1>5, <1>6, <1>7, <1>8 DEF StepOK

-----------------------------------------------------------------------------
(* Requests that commit in one step. *)

LEMMA SingleStep ==
    ASSUME WebIInv, NEW q \in Requests, req[q].at # "done", tx[q] = NoTx, Answer(q, "ok"), Kind(q) # "export",
           tx' = tx, UNCHANGED sessionVars,
           edits' = edits \/ (edits' = edits + 1 /\ Open(q) /\ Kind(q) \in Mutations /\ req[q].at # "commit"),
           TablesOK', SourceStep(q), TokenStep(q), RowsLeft(q)
    PROVE  StepOK(q)
<1>1. Acts(q) /\ req'[q].at = "done"
  BY Answered DEF WebIInv
<1>2. EditStep(q) /\ edits' \in Nat
  BY <1>1 DEF EditStep, WebIInv, RequestsOK
<1>3. TxStep(q)
  BY <1>1, EmptyTx DEF TxStep, RequestsOK, RowsExclusive, WebIInv, ImportSteps
<1>4. SessionsOK' /\ LimiterOK'
  BY <1>1, SessionsStay DEF Open
<1> QED
  BY <1>1, <1>2, <1>3, <1>4 DEF StepOK

LEMMA CommitStep ==
    ASSUME WebIInv, NEW q \in Requests, NEW at \in {"act", "late", "held"}, req[q].at = at,
           Kind(q) \in Mutations \ {"preview"}, Committed(q), TablesOK', SourceStep(q), TokenStep(q), RowsLeft(q)
    PROVE  StepOK(q)
<1>1. tx[q] = NoTx /\ req[q].at # "done" /\ Open(q)
  BY AtStep
<1>2. /\ Answer(q, "ok") /\ edits' = edits + 1 /\ tx' = tx /\ UNCHANGED sessionVars
      /\ Kind(q) # "export" /\ req[q].at # "commit"
  BY DEF Committed, Mutations
<1> QED
  BY <1>1, <1>2, SingleStep

\* Rows that a step needs are no other request's.
LEMMA Unlocked ==
    ASSUME NEW q \in Requests, Waits(q) = {}, NEW r \in Requests \ {q}
    PROVE  /\ \A s \in Needs(q).src : s \notin DOMAIN tx[r].src
           /\ \A a \in Needs(q).acc : a \notin DOMAIN tx[r].acc
  BY DEF Waits, LockedSources, LockedAccounts

\* One row of the sources changes.
LEMMA RowChanges ==
    ASSUME WebIInv, NEW q \in Requests, NEW s \in Sources, NEW row, IsSource(row),
           sources' = [sources EXCEPT ![s] = row], accounts' = accounts, lapsed' = lapsed,
           (token' = token /\ (token[s] # None => row.there)) \/ token' = [token EXCEPT ![s] = None],
           sources[s].there /\ row.there => OneAhead(sources[s], row),
           sources[s].gate = "risk_controlled" /\ row.there /\ row.gate # "risk_controlled" =>
              Kind(q) \in {"set_gate", "close_gate"} /\ Ask(q).src = s,
           \A r \in Requests \ {q} : s \notin DOMAIN tx[r].src
    PROVE  TablesOK' /\ SourceStep(q) /\ TokenStep(q) /\ RowsLeft(q)
<1>1. TablesOK
  BY DEF WebIInv
<1>2. sources'[s] = row /\ (\A o \in Sources \ {s} : sources'[o] = sources[o]) /\ sources' = [o \in Sources |-> sources'[o]]
  BY <1>1 DEF TablesOK
<1>3. token' \in [Sources -> Requests \cup {None}] /\ \A o \in Sources : token'[o] \in {token[o], None}
  BY <1>1 DEF TablesOK
<1>4. \A o \in Sources : token'[o] # None => sources'[o].there
  BY <1>1, <1>2 DEF TablesOK
<1>5. TablesOK'
  BY <1>1, <1>2, <1>3, <1>4 DEF TablesOK
<1>6. SourceStep(q)
  <2> SUFFICES ASSUME NEW o \in Sources
               PROVE  /\ sources[o].there /\ sources'[o].there => OneAhead(sources[o], sources'[o])
                      /\ (sources[o].gate = "risk_controlled" /\ sources'[o].there /\ sources'[o].gate # "risk_controlled") =>
                            Kind(q) \in {"set_gate", "close_gate"} /\ Ask(q).src = o
    BY DEF SourceStep
  <2>1. CASE o = s
    BY <1>2, <2>1
  <2>2. CASE o # s
    <3>1. sources[o].rev \in Nat /\ sources'[o] = sources[o]
      BY <1>1, <1>2, <2>2 DEF TablesOK, IsSource
    <3> QED
      BY <3>1 DEF OneAhead
  <2> QED
    BY <2>1, <2>2
<1>7. RowsLeft(q)
  BY <1>1, <1>2 DEF RowsLeft, TablesOK
<1> QED
  BY <1>3, <1>5, <1>6, <1>7 DEF TokenStep

LEMMA NewRow == ASSUME NEW fields PROVE IsSource(NewSource(fields)) /\ NewSource(fields).there
                                        /\ NewSource(fields).gate = "ready" /\ NewSource(fields).rev = 0
                                        /\ \A f \in Portable : NewSource(fields)[f] = fields[f]
<1> DEFINE new == NewSource(fields)
<1>1. /\ "there" \in SourceFields /\ "gate" \in SourceFields /\ "rev" \in SourceFields /\ Portable \subseteq SourceFields
      /\ "there" \notin Portable /\ "gate" \notin Portable /\ "rev" \notin Portable
  BY DEF SourceFields, NoSource, Portable
<1>2. new = [f \in SourceFields |-> new[f]] /\ new.there = TRUE /\ new.gate = NoSource.gate /\ new.rev = NoSource.rev
  BY <1>1 DEF NewSource
<1>3. \A f \in Portable : new[f] = fields[f]
  BY <1>1 DEF NewSource
<1>4. NoSource.gate = "ready" /\ NoSource.rev = 0
  BY DEF NoSource
<1> HIDE DEF new
<1>5. new.gate \in Gates /\ new.rev \in Nat
  BY <1>2, <1>4 DEF Gates
<1>6. new.there \in BOOLEAN /\ new.there
  BY <1>2
<1>7. IsSource(new)
  BY <1>2, <1>5, <1>6 DEF IsSource
<1> QED
  BY <1>2, <1>3, <1>4, <1>6, <1>7 DEF new

LEMMA NoRow == IsSource(NoSource) /\ ~NoSource.there
<1>1. NoSource = [f \in SourceFields |-> NoSource[f]]
  BY DEF SourceFields, NoSource
<1>2. NoSource.there = FALSE /\ NoSource.gate = "ready" /\ NoSource.rev = 0
  BY DEF NoSource
<1>3. NoSource.gate \in Gates /\ NoSource.rev \in Nat
  BY <1>2 DEF Gates
<1>4. NoSource.there \in BOOLEAN /\ ~NoSource.there
  BY <1>2
<1> QED
  BY <1>1, <1>3, <1>4 DEF IsSource

LEMMA PatchedRow ==
    ASSUME NEW row, IsSource(row), row.there, NEW patch, DOMAIN patch \subseteq Portable
    PROVE  LET new == apply_patch(row, patch)
           IN  /\ IsSource(new) /\ new.there /\ new.gate = row.gate /\ OneAhead(row, new)
               /\ \A f \in Portable : new[f] = IF f \in DOMAIN patch THEN patch[f] ELSE row[f]
<1> DEFINE updated == [f \in DOMAIN row |-> IF f \in DOMAIN patch THEN patch[f] ELSE row[f]]
           rev == IF FeedVisible(updated) # FeedVisible(row) THEN row.rev + 1 ELSE row.rev
           new == [updated EXCEPT !.rev = rev]
<1>1. DOMAIN row = SourceFields /\ row.rev \in Nat
  BY DEF IsSource
<1>2. /\ "there" \in SourceFields /\ "gate" \in SourceFields /\ "rev" \in SourceFields /\ Portable \subseteq SourceFields
      /\ "there" \notin Portable /\ "gate" \notin Portable /\ "rev" \notin Portable /\ "book" \in Portable /\ "look" \in Portable
  BY DEF SourceFields, NoSource, Portable
<1>3. updated.rev = row.rev /\ updated.there = row.there /\ updated.gate = row.gate /\ DOMAIN updated = SourceFields
  BY <1>1, <1>2
<1>4. \A f \in Portable : updated[f] = IF f \in DOMAIN patch THEN patch[f] ELSE row[f]
  BY <1>1, <1>2
<1>5. apply_patch(row, patch) = new
  BY <1>3 DEF apply_patch
<1> HIDE DEF updated
<1>6. /\ new = [f \in SourceFields |-> new[f]] /\ new.rev = rev /\ new.there = row.there /\ new.gate = row.gate
      /\ \A f \in Portable : new[f] = updated[f]
  BY <1>2, <1>3
<1>7. FeedVisible(new) = FeedVisible(updated)
  BY <1>2, <1>6 DEF FeedVisible
<1>8. rev \in Nat /\ rev = row.rev + (IF FeedVisible(updated) # FeedVisible(row) THEN 1 ELSE 0)
  BY <1>1
<1> HIDE DEF rev, new
<1>9. IsSource(new) /\ OneAhead(row, new)
  BY <1>6, <1>7, <1>8 DEF IsSource, OneAhead
<1> QED
  BY <1>4, <1>5, <1>6, <1>9

LEMMA ResumedRow ==
    ASSUME NEW row, IsSource(row), row.there
    PROVE  LET new == ResumedSource(row)
           IN  /\ IsSource(new) /\ new.there /\ new.gate = "ready" /\ OneAhead(row, new)
               /\ new.account = row.account /\ new.rev = row.rev /\ FeedVisible(new) = FeedVisible(row)
<1> DEFINE new == ResumedSource(row)
<1>1. row = [f \in SourceFields |-> row[f]] /\ row.rev \in Nat
  BY DEF IsSource
<1>2. new = [row EXCEPT !.gate = "ready", !.held = FALSE]
  BY DEF ResumedSource
<1>3. new = [f \in SourceFields |-> new[f]]
  BY <1>1, <1>2
<1>4. /\ new.there = row.there /\ new.gate = "ready" /\ new.rev = row.rev /\ new.book = row.book
      /\ new.look = row.look /\ new.account = row.account
  BY <1>1, <1>2 DEF SourceFields, NoSource
<1> HIDE DEF new
<1>5. FeedVisible(new) = FeedVisible(row)
  BY <1>4 DEF FeedVisible
<1>6. IsSource(new) /\ OneAhead(row, new)
  BY <1>1, <1>3, <1>4, <1>5 DEF IsSource, Gates, OneAhead
<1> QED
  BY <1>4, <1>5, <1>6 DEF new

\* Requests on one source: refusals, and the row that they write.
LEMMA ActsOnSource ==
    ASSUME WebIInv, NEW q \in Requests, NEW kind, At(q, "act", {kind}),
           kind \in {"create_source", "delete_source", "set_enabled", "set_gate", "issue_feed_token"}
    PROVE  /\ req[q].at = "act" /\ Kind(q) = kind /\ Kind(q) \in Mutations \ {"preview"} /\ Kind(q) # "export"
           /\ tx[q] = NoTx /\ req[q].at # "done" /\ Ask(q).src \in Sources /\ IsAsk(Ask(q)) /\ TablesOK
           /\ IsSource(sources[Ask(q).src])
           /\ (kind # "create_source" /\ sources[Ask(q).src].there) =>
                 \A r \in Requests \ {q} : Ask(q).src \notin DOMAIN tx[r].src
<1>1. req[q].at = "act" /\ Kind(q) = kind /\ Waits(q) = {}
  BY DEF At
<1>2. tx[q] = NoTx /\ req[q].at # "done" /\ Ask(q).src \in Sources /\ IsAsk(Ask(q)) /\ TablesOK
  BY <1>1, AtStep, ReqFacts DEF WebIInv
<1>3. ASSUME kind # "create_source", sources[Ask(q).src].there, NEW r \in Requests \ {q}
      PROVE  Ask(q).src \notin DOMAIN tx[r].src
  <2>1. Needs(q).src = {Ask(q).src} \cap There
    BY <1>1, <1>3 DEF Needs
  <2>2. Ask(q).src \in Needs(q).src
    BY <1>2, <1>3, <2>1 DEF There
  <2> QED
    BY <1>1, <2>2, Unlocked
<1> QED
  BY <1>1, <1>2, <1>3 DEF Mutations, TablesOK

LEMMA ReplyIs ==
    ASSUME NEW error
    PROVE  application_error_response(error) # "ok" /\ feed_token_error_response(error) # "ok"
           /\ auth_service_error_response(error) # "ok" /\ config_transfer_error_response(error) # "ok"
  BY DEF application_error_response, feed_token_error_response, auth_service_error_response, config_transfer_error_response

LEMMA CreateSourceStep == ASSUME WebIInv, NEW q \in Requests, CreateSource(q) PROVE StepOK(q)
<1> DEFINE s == Ask(q).src
           row == NewSource(Ask(q).row)
<1>1. At(q, "act", {"create_source"}) /\ Fresh(s)
  BY DEF CreateSource
<1>2. /\ req[q].at = "act" /\ Kind(q) \in Mutations \ {"preview"} /\ Kind(q) # "export" /\ tx[q] = NoTx
      /\ req[q].at # "done" /\ s \in Sources /\ TablesOK /\ IsSource(sources[s])
  BY <1>1, ActsOnSource
<1>3. CASE \E reply : Refused(q, reply)
  BY <1>2, <1>3, RefusedStep
<1>4. CASE ~\E reply : Refused(q, reply)
  <2>1. sources' = [sources EXCEPT ![s] = row] /\ Committed(q) /\ accounts' = accounts /\ lapsed' = lapsed /\ token' = token
    BY <1>4 DEF CreateSource
  <2>2. IsSource(row) /\ row.there
    BY NewRow
  <2>3. ~sources[s].there /\ \A r \in Requests : s \notin DOMAIN tx[r].src
    BY <1>1 DEF Fresh
  <2>4. token[s] = None /\ sources[s].gate # "risk_controlled"
    BY <1>2, <2>3 DEF TablesOK, IsSource, NoSource
  <2> HIDE DEF s, row
  <2>5. TablesOK' /\ SourceStep(q) /\ TokenStep(q) /\ RowsLeft(q)
    BY <1>2, <2>1, <2>2, <2>3, <2>4, RowChanges
  <2> QED
    BY <1>2, <2>1, <2>5, CommitStep
<1> QED
  BY <1>3, <1>4

LEMMA UpdateSourceStep == ASSUME WebIInv, NEW q \in Requests, UpdateSource(q) PROVE StepOK(q)
<1> DEFINE s == Ask(q).src
           row == apply_patch(sources[s], Ask(q).patch)
<1>1. req[q].at = "held" /\ Kind(q) = "update_source"
  BY DEF UpdateSource
<1>2. /\ Kind(q) \in Mutations \ {"preview"} /\ Kind(q) # "export" /\ tx[q] = NoTx
      /\ req[q].at # "done" /\ s \in Sources /\ TablesOK /\ IsSource(sources[s]) /\ IsAsk(Ask(q))
  BY <1>1, AtStep, ReqFacts DEF WebIInv, Mutations, TablesOK
<1>3. CASE \E reply : Refused(q, reply)
  BY <1>2, <1>3, RefusedStep
<1>4. CASE ~\E reply : Refused(q, reply)
  <2>1. /\ sources' = [sources EXCEPT ![s] = row] /\ Committed(q) /\ accounts' = accounts /\ lapsed' = lapsed /\ token' = token
        /\ sources[s].there /\ Waits(q) = {}
    BY <1>4 DEF UpdateSource
  <2>2. IsSource(row) /\ row.there /\ row.gate = sources[s].gate /\ OneAhead(sources[s], row)
    BY <1>2, <2>1, PatchedRow DEF IsAsk
  <2>3. s \in Needs(q).src
    BY <1>1, <1>2, <2>1 DEF Needs, There
  <2>4. \A r \in Requests \ {q} : s \notin DOMAIN tx[r].src
    BY <2>1, <2>3, Unlocked
  <2> HIDE DEF s, row
  <2>5. TablesOK' /\ SourceStep(q) /\ TokenStep(q) /\ RowsLeft(q)
    BY <1>2, <2>1, <2>2, <2>4, RowChanges
  <2> QED
    BY <1>1, <1>2, <2>1, <2>5, CommitStep
<1> QED
  BY <1>3, <1>4

LEMMA DeleteSourceStep == ASSUME WebIInv, NEW q \in Requests, DeleteSource(q) PROVE StepOK(q)
<1> DEFINE s == Ask(q).src
<1>1. At(q, "act", {"delete_source"})
  BY DEF DeleteSource
<1>2. /\ req[q].at = "act" /\ Kind(q) \in Mutations \ {"preview"} /\ Kind(q) # "export" /\ tx[q] = NoTx
      /\ req[q].at # "done" /\ s \in Sources
      /\ (sources[s].there => \A r \in Requests \ {q} : s \notin DOMAIN tx[r].src)
  BY <1>1, ActsOnSource
<1>3. CASE \E reply : Refused(q, reply)
  BY <1>2, <1>3, RefusedStep
<1>4. CASE ~\E reply : Refused(q, reply)
  <2>1. /\ sources' = [sources EXCEPT ![s] = NoSource] /\ Committed(q) /\ accounts' = accounts /\ lapsed' = lapsed
        /\ token' = [token EXCEPT ![s] = None] /\ sources[s].there
    BY <1>4 DEF DeleteSource
  <2> HIDE DEF s
  <2>5. TablesOK' /\ SourceStep(q) /\ TokenStep(q) /\ RowsLeft(q)
    BY <1>2, <2>1, NoRow, RowChanges
  <2> QED
    BY <1>2, <2>1, <2>5, CommitStep
<1> QED
  BY <1>3, <1>4

\* The enabled flag or the gate of a row.
LEMMA FieldRow ==
    ASSUME NEW row, IsSource(row), row.there, NEW field, NEW value,
           field = "enabled" \/ (field = "gate" /\ value \in Gates)
    PROVE  LET new == [row EXCEPT ![field] = value]
           IN  /\ IsSource(new) /\ new.there /\ OneAhead(row, new)
               /\ (field = "enabled" => new.gate = row.gate)
<1> DEFINE new == [row EXCEPT ![field] = value]
<1>1. row = [f \in SourceFields |-> row[f]] /\ row.rev \in Nat /\ row.gate \in Gates
  BY DEF IsSource
<1>2. new = [f \in SourceFields |-> new[f]]
  BY <1>1
<1>3. /\ new.there = row.there /\ new.rev = row.rev /\ new.book = row.book /\ new.look = row.look
      /\ new.gate = IF field = "gate" THEN value ELSE row.gate
  BY <1>1 DEF SourceFields, NoSource
<1> HIDE DEF new
<1>4. IsSource(new) /\ OneAhead(row, new)
  BY <1>1, <1>2, <1>3 DEF IsSource, OneAhead, FeedVisible
<1> QED
  BY <1>3, <1>4 DEF new

LEMMA SetFieldStep == ASSUME WebIInv, NEW q \in Requests, SetEnabled(q) \/ SetGate(q) PROVE StepOK(q)
<1> DEFINE s == Ask(q).src
<1>1. PICK kind, field, value : /\ SetField(q, kind, field, value)
                                /\ \/ kind = "set_enabled" /\ field = "enabled"
                                   \/ kind = "set_gate" /\ field = "gate" /\ value = Ask(q).gate
  BY DEF SetEnabled, SetGate
<1>2. At(q, "act", {kind})
  BY <1>1 DEF SetField
<1>3. /\ req[q].at = "act" /\ Kind(q) = kind /\ Kind(q) \in Mutations \ {"preview"} /\ Kind(q) # "export" /\ tx[q] = NoTx
      /\ req[q].at # "done" /\ s \in Sources /\ IsSource(sources[s]) /\ IsAsk(Ask(q))
      /\ (sources[s].there => \A r \in Requests \ {q} : s \notin DOMAIN tx[r].src)
  BY <1>1, <1>2, ActsOnSource
<1>4. CASE \E reply : Refused(q, reply)
  BY <1>3, <1>4, RefusedStep
<1>5. CASE ~\E reply : Refused(q, reply)
  <2> DEFINE row == [sources[s] EXCEPT ![field] = value]
  <2>1. /\ sources' = [sources EXCEPT ![s] = row] /\ Committed(q) /\ accounts' = accounts /\ lapsed' = lapsed /\ token' = token
        /\ sources[s].there
    BY <1>1, <1>5 DEF SetField
  <2>2. IsSource(row) /\ row.there /\ OneAhead(sources[s], row) /\ (field = "enabled" => row.gate = sources[s].gate)
    BY <1>1, <1>3, <2>1, FieldRow DEF IsAsk
  <2>3. sources[s].gate = "risk_controlled" /\ row.gate # "risk_controlled" => Kind(q) = "set_gate"
    BY <1>1, <1>3, <2>2
  <2>4. Ask(q).src = s
    OBVIOUS
  <2> HIDE DEF s, row
  <2>5. TablesOK' /\ SourceStep(q) /\ TokenStep(q) /\ RowsLeft(q)
    BY <1>3, <2>1, <2>2, <2>3, <2>4, RowChanges
  <2> QED
    BY <1>3, <2>1, <2>5, CommitStep
<1> QED
  BY <1>4, <1>5

LEMMA IssueFeedTokenStep == ASSUME WebIInv, NEW q \in Requests, IssueFeedToken(q) PROVE StepOK(q)
<1> DEFINE s == Ask(q).src
<1>1. At(q, "act", {"issue_feed_token"})
  BY DEF IssueFeedToken
<1>2. /\ req[q].at = "act" /\ Kind(q) \in Mutations \ {"preview"} /\ Kind(q) # "export" /\ tx[q] = NoTx
      /\ req[q].at # "done" /\ s \in Sources /\ TablesOK
  BY <1>1, ActsOnSource
<1>3. CASE \E reply : Refused(q, reply)
  BY <1>2, <1>3, RefusedStep
<1>4. CASE ~\E reply : Refused(q, reply)
  <2>1. /\ token' = [token EXCEPT ![s] = q] /\ Committed(q) /\ accounts' = accounts /\ lapsed' = lapsed /\ sources' = sources
        /\ sources[s].there
    BY <1>4 DEF IssueFeedToken, replace
  <2>2. TablesOK' /\ TokenStep(q)
    BY <1>2, <2>1 DEF TablesOK, TokenStep
  <2>3. SourceStep(q) /\ RowsLeft(q)
    BY <1>2, <2>1, SameRows DEF RowsLeft
  <2> QED
    BY <1>2, <2>1, <2>2, <2>3, CommitStep
<1> QED
  BY <1>3, <1>4

LEMMA CloseGateStep == ASSUME WebIInv, NEW q \in Requests, CloseGate(q) PROVE StepOK(q)
<1> DEFINE s == Ask(q).src
           gate == Ask(q).gate
           row == [sources[s] EXCEPT !.gate = gate, !.held = FALSE]
<1>1. req[q].at = "new" /\ Kind(q) = "close_gate" /\ Waits(q) = {} /\ Answer(q, "ok")
  BY DEF CloseGate, Sendable
<1>2. tx[q] = NoTx /\ s \in Sources /\ gate \in Gates /\ TablesOK /\ IsSource(sources[s])
  BY <1>1, NoTxHeld, ReqFacts DEF WebIInv, ImportSteps, TablesOK
<1>3. accounts' = accounts /\ lapsed' = lapsed /\ token' = token /\ edits' = edits /\ tx' = tx /\ UNCHANGED sessionVars
  BY DEF CloseGate
<1>4. TablesOK' /\ SourceStep(q) /\ TokenStep(q) /\ RowsLeft(q)
  <2>1. CASE ~sources[s].there
    <3>1. sources' = sources
      BY <2>1 DEF CloseGate
    <3> QED
      BY <1>2, <1>3, <3>1, SameRows DEF TablesOK, TokenStep, RowsLeft
  <2>2. CASE sources[s].there
    <3>1. sources' = [sources EXCEPT ![s] = row]
      BY <2>2 DEF CloseGate
    <3>2. sources[s] = [f \in SourceFields |-> sources[s][f]] /\ sources[s].rev \in Nat
      BY <1>2 DEF IsSource
    <3>3. row = [f \in SourceFields |-> row[f]]
      BY <3>2
    <3>4. /\ row.there = sources[s].there /\ row.rev = sources[s].rev /\ row.book = sources[s].book
          /\ row.look = sources[s].look /\ row.gate = gate
      BY <3>2 DEF SourceFields, NoSource
    <3>5. Ask(q).src = s
      OBVIOUS
    <3>6. Needs(q).src = {s} \cap There
      BY <1>1 DEF Needs
    <3>7. s \in Needs(q).src
      BY <1>2, <2>2, <3>6 DEF There
    <3>8. \A r \in Requests \ {q} : s \notin DOMAIN tx[r].src
      BY <1>1, <3>7, Unlocked
    <3> HIDE DEF row, s, gate
    <3>9. IsSource(row) /\ row.there /\ OneAhead(sources[s], row)
      BY <1>2, <2>2, <3>2, <3>3, <3>4 DEF IsSource, OneAhead, FeedVisible
    <3> QED
      BY <1>1, <1>2, <1>3, <3>1, <3>5, <3>8, <3>9, RowChanges
  <2> QED
    BY <2>1, <2>2
<1> QED
  BY <1>1, <1>2, <1>3, <1>4, SingleStep

LEMMA LapseStep == ASSUME WebIInv, NEW q \in Requests, Lapse(q) PROVE StepOK(q)
<1>1. req[q].at = "new" /\ Kind(q) = "lapse" /\ Answer(q, "ok")
  BY DEF Lapse, Sendable
<1>2. tx[q] = NoTx /\ TablesOK
  BY <1>1, NoTxHeld DEF WebIInv, ImportSteps
<1>3. accounts' = accounts /\ sources' = sources /\ token' = token /\ edits' = edits /\ tx' = tx /\ UNCHANGED sessionVars
  BY DEF Lapse
<1>4. TablesOK' /\ SourceStep(q) /\ TokenStep(q)
  BY <1>2, <1>3, SameRows DEF TablesOK, TokenStep
<1>5. RowsLeft(q)
  BY <1>3 DEF RowsLeft, Lapse
<1> QED
  BY <1>1, <1>2, <1>3, <1>4, <1>5, SingleStep

-----------------------------------------------------------------------------
(* Accounts. *)

\* What changes when an account's row does, and the sources it resumes.
LEMMA AccountChanges ==
    ASSUME WebIInv, NEW q \in Requests, tx[q] = NoTx, Waits(q) = {}, NEW a \in Accounts, NEW row, IsAccount(row),
           accounts' = [accounts EXCEPT ![a] = row], token' = token,
           lapsed' = lapsed \/ (lapsed' = lapsed \ {a} /\ a \in Needs(q).acc),
           sources' = sources \/ (sources' = SourcesResumed(q, a) /\ Needs(q).src = ResumedBy(q, a))
    PROVE  TablesOK' /\ SourceStep(q) /\ TokenStep(q) /\ RowsLeft(q)
<1>1. TablesOK
  BY DEF WebIInv
<1>2. accounts' = [x \in Accounts |-> accounts'[x]] /\ \A x \in Accounts : IsAccount(accounts'[x])
  BY <1>1 DEF TablesOK
<1>3. \A r \in Requests \ {q} : \A x \in DOMAIN tx[r].acc : x \in lapsed => x \in lapsed'
  BY Unlocked
<1>4. CASE sources' = sources
  BY <1>1, <1>2, <1>3, <1>4, SameRows DEF TablesOK, TokenStep, RowsLeft
<1>5. CASE sources' = SourcesResumed(q, a) /\ Needs(q).src = ResumedBy(q, a)
  <2>1. ASSUME NEW s \in ResumedBy(q, a)
        PROVE  s \in Sources /\ sources[s].there /\ sources[s].gate = "authentication_required"
    <3>1. s \in Gated(q, a)
      BY <2>1 DEF ResumedBy
    <3>2. SourceSeen(q, s) = sources[s]
      BY EmptyTx DEF SourceSeen
    <3> QED
      BY <3>1, <3>2 DEF Gated
  <2>2. ASSUME NEW s \in Sources
        PROVE  /\ s \in ResumedBy(q, a) => sources'[s] = ResumedSource(sources[s])
               /\ s \notin ResumedBy(q, a) => sources'[s] = sources[s]
    BY <1>5 DEF SourcesResumed
  <2>3. ASSUME NEW s \in Sources
        PROVE  /\ IsSource(sources'[s]) /\ sources'[s].there = sources[s].there
               /\ (sources[s].there => OneAhead(sources[s], sources'[s]))
               /\ (sources[s].gate = "risk_controlled" => sources'[s] = sources[s])
    <3>1. IsSource(sources[s])
      BY <1>1 DEF TablesOK
    <3>2. CASE s \in ResumedBy(q, a)
      BY <2>1, <2>2, <3>1, <3>2, ResumedRow DEF IsSource
    <3>3. CASE s \notin ResumedBy(q, a)
      BY <2>2, <3>1, <3>3 DEF OneAhead, IsSource
    <3> QED
      BY <3>2, <3>3
  <2>4. sources' = [s \in Sources |-> sources'[s]]
    BY <1>5 DEF SourcesResumed
  <2>5. TablesOK'
    BY <1>1, <1>2, <2>3, <2>4 DEF TablesOK
  <2>6. SourceStep(q) /\ TokenStep(q)
    BY <2>3 DEF SourceStep, TokenStep
  <2>7. RowsLeft(q)
    <3> SUFFICES ASSUME NEW r \in Requests \ {q}, NEW s \in DOMAIN tx[r].src PROVE sources'[s] = sources[s]
      BY <1>3 DEF RowsLeft
    <3>1. s \notin ResumedBy(q, a)
      BY <1>5, Unlocked
    <3>2. s \in Sources
      <4>1. Importing(r)
        BY DEF WebIInv, OnlyImportsHold
      <4> QED
        BY <4>1 DEF WebIInv, ImportsOK, ImportOK, RowsHeld
    <3> QED
      BY <2>2, <3>1, <3>2
  <2> QED
    BY <2>5, <2>6, <2>7
<1> QED
  BY <1>4, <1>5

LEMMA EnrolledIs ==
    /\ IsAccount(EnrolledRow) /\ IsAccount(NoAccount)
    /\ \A d \in BOOLEAN : IsAccount([EnrolledRow EXCEPT !.disabled = d])
  BY DEF IsAccount, EnrolledRow, NoAccount

\* Requests on one account.
LEMMA ActsOnAccount ==
    ASSUME WebIInv, NEW q \in Requests, Waits(q) = {},
           \/ req[q].at = "act" /\ Kind(q) \in {"provision", "delete_account"}
           \/ req[q].at = "late" /\ Kind(q) = "complete_qr" /\ ~req[q].result.steady
           \/ req[q].at = "held" /\ Kind(q) \in {"replace", "complete_qr", "set_account_enabled"}
    PROVE  /\ Kind(q) \in Mutations \ {"preview"} /\ Kind(q) # "export" /\ tx[q] = NoTx /\ req[q].at # "done"
           /\ req[q].at \in {"act", "late", "held"} /\ Ask(q).acct \in Accounts /\ IsAccount(accounts[Ask(q).acct])
           /\ (Kind(q) = "provision" \/ req[q].at = "late" \/ accounts[Ask(q).acct].state # "absent") =>
                 Ask(q).acct \in Needs(q).acc
           /\ req[q].at = "held" => Needs(q).src = ResumedBy(q, Ask(q).acct)
<1>1. req[q].at = "late" => Kind(q) # "preview"
  OBVIOUS
<1>2. tx[q] = NoTx /\ req[q].at # "done"
  BY AtStep
<1>3. Ask(q).acct \in Accounts /\ IsAccount(accounts[Ask(q).acct])
  BY ReqFacts DEF WebIInv, TablesOK
<1>4. Kind(q) = "provision" \/ req[q].at = "late" => Needs(q).acc = {Ask(q).acct}
  <2>1. CASE Kind(q) = "provision"
    BY <2>1 DEF Needs
  <2>2. CASE req[q].at = "late"
    BY <2>2 DEF Needs
  <2> QED
    BY <2>1, <2>2
<1>5. Kind(q) = "delete_account" => Needs(q).acc = {Ask(q).acct} \cap Known
  BY DEF Needs
<1>6. req[q].at = "held" =>
         Needs(q).acc = {Ask(q).acct} \cap Known /\ Needs(q).src = ResumedBy(q, Ask(q).acct)
  <2> SUFFICES ASSUME req[q].at = "held"
               PROVE  Needs(q).acc = {Ask(q).acct} \cap Known /\ Needs(q).src = ResumedBy(q, Ask(q).acct)
    OBVIOUS
  <2> DEFINE acc == {Ask(q).acct} \cap Known
             src == ResumedBy(q, Ask(q).acct)
  <2>1. Kind(q) # "update_source" /\ Kind(q) # "create_source"
    OBVIOUS
  <2>2. Needs(q) = [acc |-> acc, src |-> src, book |-> {}]
    BY <2>1 DEF Needs
  <2> HIDE DEF acc, src
  <2>3. Needs(q).acc = acc /\ Needs(q).src = src
    BY <2>2
  <2> QED
    BY <2>3 DEF acc, src
<1>7. accounts[Ask(q).acct].state # "absent" => Ask(q).acct \in Known
  BY <1>3 DEF Known
<1> QED
  BY <1>2, <1>3, <1>4, <1>5, <1>6, <1>7 DEF Mutations

LEMMA AccountStep ==
    ASSUME WebIInv, NEW q \in Requests,
           ProvisionAccount(q) \/ ReplaceAccount(q) \/ SetAccountEnabled(q) \/ DeleteAccount(q)
    PROVE  StepOK(q)
<1> DEFINE a == Ask(q).acct
<1>1. /\ Waits(q) = {}
      /\ \/ req[q].at = "act" /\ Kind(q) \in {"provision", "delete_account"}
         \/ req[q].at = "late" /\ Kind(q) = "complete_qr" /\ ~req[q].result.steady
         \/ req[q].at = "held" /\ Kind(q) \in {"replace", "complete_qr", "set_account_enabled"}
  BY DEF ProvisionAccount, ReplaceAccount, SetAccountEnabled, DeleteAccount, At
<1>2. /\ Kind(q) \in Mutations \ {"preview"} /\ Kind(q) # "export" /\ tx[q] = NoTx /\ req[q].at # "done"
      /\ req[q].at \in {"act", "late", "held"} /\ a \in Accounts /\ IsAccount(accounts[a])
  BY <1>1, ActsOnAccount
<1>3. CASE \E reply : Refused(q, reply)
  BY <1>2, <1>3, RefusedStep
<1>4. CASE ~\E reply : Refused(q, reply)
  <2>1. ASSUME NEW row, IsAccount(row), Committed(q), accounts' = [accounts EXCEPT ![a] = row], token' = token,
               lapsed' = lapsed \/ (lapsed' = lapsed \ {a} /\ a \in Needs(q).acc),
               sources' = sources \/ (sources' = SourcesResumed(q, a) /\ Needs(q).src = ResumedBy(q, a))
        PROVE  StepOK(q)
    <3>1. TablesOK' /\ SourceStep(q) /\ TokenStep(q) /\ RowsLeft(q)
      BY <1>1, <1>2, <2>1, AccountChanges
    <3> QED
      BY <1>2, <2>1, <3>1, CommitStep
  <2>2. CASE ProvisionAccount(q)
    <3>1. /\ Committed(q) /\ accounts' = [accounts EXCEPT ![a] = EnrolledRow] /\ token' = token
          /\ lapsed' = lapsed \ {a} /\ sources' = sources
          /\ (Kind(q) = "provision" \/ req[q].at = "late")
      BY <1>4, <2>2 DEF ProvisionAccount, At
    <3>2. a \in Needs(q).acc
      BY <1>1, <3>1, ActsOnAccount
    <3> QED
      BY <2>1, <3>1, <3>2, EnrolledIs
  <2>3. CASE ReplaceAccount(q)
    <3> DEFINE row == [EnrolledRow EXCEPT !.disabled = accounts[a].disabled]
    <3>1. /\ Committed(q) /\ accounts' = [accounts EXCEPT ![a] = row] /\ token' = token
          /\ lapsed' = lapsed \ {a} /\ sources' = SourcesResumed(q, a) /\ accounts[a].state # "absent"
          /\ req[q].at = "held"
      BY <2>3 DEF ReplaceAccount, At
    <3>2. a \in Needs(q).acc /\ Needs(q).src = ResumedBy(q, a)
      BY <1>1, <3>1, ActsOnAccount
    <3>3. IsAccount(row)
      BY <1>2, EnrolledIs DEF IsAccount
    <3> HIDE DEF row
    <3> QED
      BY <2>1, <3>1, <3>2, <3>3
  <2>4. CASE SetAccountEnabled(q)
    <3> DEFINE row == [accounts[a] EXCEPT !.disabled = ~Ask(q).on]
    <3>1. /\ Committed(q) /\ accounts' = [accounts EXCEPT ![a] = row] /\ token' = token
          /\ lapsed' = lapsed /\ sources' = SourcesResumed(q, a) /\ accounts[a].state # "absent"
          /\ req[q].at = "held"
      BY <2>4 DEF SetAccountEnabled, At
    <3>2. Needs(q).src = ResumedBy(q, a)
      BY <1>1, <3>1, ActsOnAccount
    <3>3. IsAccount(row)
      BY <1>2 DEF IsAccount
    <3> HIDE DEF row
    <3> QED
      BY <2>1, <3>1, <3>2, <3>3
  <2>5. CASE DeleteAccount(q)
    <3>1. /\ Committed(q) /\ accounts' = [accounts EXCEPT ![a] = NoAccount] /\ token' = token
          /\ lapsed' = lapsed \ {a} /\ sources' = sources /\ accounts[a].state # "absent"
          /\ Kind(q) = "delete_account"
      BY <1>4, <2>5 DEF DeleteAccount, At
    <3>2. a \in Needs(q).acc
      BY <1>1, <3>1, ActsOnAccount
    <3> QED
      BY <2>1, <3>1, <3>2, EnrolledIs
  <2> QED
    BY <2>2, <2>3, <2>4, <2>5
<1> QED
  BY <1>3, <1>4

-----------------------------------------------------------------------------
(* The statements of an import. *)

LEMMA ImportFacts ==
    ASSUME WebIInv, NEW q \in Requests, NEW at \in ImportSteps, At(q, at, {"import"})
    PROVE  /\ req[q].at = at /\ Kind(q) = "import" /\ Open(q) /\ req[q].at # "done" /\ Waits(q) = {}
           /\ ImportOK(q) /\ TxOK(tx[q]) /\ RequestsOK /\ TablesOK
           /\ Ids(BundleOf(q).accounts) \subseteq Accounts /\ Ids(BundleOf(q).sources) \subseteq Sources
           /\ DOMAIN BundleOf(q).accounts = 1 .. Len(BundleOf(q).accounts) /\ Len(BundleOf(q).accounts) \in Nat
           /\ DOMAIN BundleOf(q).sources = 1 .. Len(BundleOf(q).sources) /\ Len(BundleOf(q).sources) \in Nat
<1>1. req[q].at = at /\ Kind(q) = "import" /\ Waits(q) = {} /\ Open(q) /\ req[q].at # "done"
  BY DEF At, Open, ImportSteps
<1>2. ImportOK(q)
  BY <1>1 DEF WebIInv, ImportsOK, Importing
<1>3. IsBundle(BundleOf(q))
  BY <1>2 DEF ImportOK, BundleOK
<1>4. RequestsOK /\ TablesOK /\ TxOK(tx[q])
  BY DEF WebIInv, RequestsOK
<1> QED
  BY <1>1, <1>2, <1>3, <1>4 DEF IsBundle, Ids

\* What a statement leaves as it was.
StatementIs(q, at, held) ==
    /\ Acts(q) /\ req'[q].at = at /\ Ask(q)' = Ask(q) /\ BundleOf(q)' = BundleOf(q)
    /\ Ask(q).from # None => req'[Ask(q).from].at = "done"
    /\ tx'[q] = held /\ tx' = [r \in Requests |-> tx'[r]] /\ \A r \in Requests \ {q} : tx'[r] = tx[r]
    /\ accounts' = accounts /\ lapsed' = lapsed /\ sources' = sources /\ token' = token /\ edits' = edits

LEMMA StatementFacts ==
    ASSUME WebIInv, NEW q \in Requests, Importing(q), NEW at \in ImportSteps, at # req[q].at, NEW held,
           Statement(q, at, held)
    PROVE  StatementIs(q, at, held)
<1>1. RequestsOK /\ ImportOK(q) /\ Kind(q) = "import"
  BY ReqFacts DEF WebIInv, ImportsOK, Importing
<1>2. Move(q, at) /\ tx' = [tx EXCEPT ![q] = held]
  BY DEF Statement
<1>3. Acts(q) /\ req'[q].at = at /\ req'[q].ask = req[q].ask
  BY <1>1, <1>2, Moved DEF Importing, ImportSteps, Steps
<1>4. Ask(q).from # None => req[Ask(q).from].at = "done"
  BY <1>1 DEF ImportOK, BundleOK
<1>5. BundleOf(q)' = BundleOf(q)
  BY <1>1, <1>3, <1>4, ActsKeeps
<1>6. Ask(q).from # None => req'[Ask(q).from].at = "done"
  <2> SUFFICES ASSUME Ask(q).from # None PROVE req'[Ask(q).from].at = "done"
    OBVIOUS
  <2>1. Ask(q).from \in Requests
    BY <1>1, ReqFacts
  <2> QED
    BY <1>3, <1>4, <2>1 DEF Acts
<1>7. tx'[q] = held /\ tx' = [r \in Requests |-> tx'[r]] /\ \A r \in Requests \ {q} : tx'[r] = tx[r]
  BY <1>1, <1>2 DEF RequestsOK
<1>8. accounts' = accounts /\ lapsed' = lapsed /\ sources' = sources /\ token' = token /\ edits' = edits
  BY DEF Statement, dbVars
<1> QED
  BY <1>3, <1>5, <1>6, <1>7, <1>8 DEF StatementIs, Ask

LEMMA StatementStep ==
    ASSUME WebIInv, NEW q \in Requests, Importing(q), NEW at \in ImportSteps, NEW held, Statement(q, at, held),
           StatementIs(q, at, held), TxOK(held), ImportOK(q)',
           \A r \in Requests \ {q} : DOMAIN held.src \cap DOMAIN tx[r].src = {}
    PROVE  StepOK(q)
<1> USE DEF StatementIs
<1>1. TablesOK' /\ SourceStep(q)
  BY SameRows DEF TablesOK, WebIInv
<1>2. TokenStep(q) /\ EditStep(q) /\ edits' \in Nat /\ RowsLeft(q)
  BY DEF TokenStep, EditStep, WebIInv, RequestsOK, RowsLeft
<1>3. TxStep(q)
  BY DEF TxStep
<1>4. SessionsOK' /\ LimiterOK'
  <2>1. Open(q)
    BY DEF Importing, ImportSteps, Open
  <2> QED
    BY <2>1, SessionsStay DEF Statement
<1> QED
  BY <1>1, <1>2, <1>3, <1>4 DEF StepOK

\* The rows of sources stay as they are held while no record of them is written.
LEMMA RowsStay ==
    ASSUME NEW q \in Requests, RowsHeld(q), NEW at, NEW held, StatementIs(q, at, held), held.src = tx[q].src,
           SourcesWritten(q)' = SourcesWritten(q)
    PROVE  RowsHeld(q)'
<1> USE DEF StatementIs
<1>1. \A s, row : UnwrittenRow(q, s, row)' = UnwrittenRow(q, s, row) /\ WrittenRow(s, row)' = WrittenRow(s, row)
  BY DEF UnwrittenRow, WrittenRow
<1> QED
  BY <1>1 DEF RowsHeld

LEMMA LockAccountStep == ASSUME WebIInv, NEW q \in Requests, LockAccount(q) PROVE StepOK(q)
<1> DEFINE b == BundleOf(q)
           a == Record(q).id
           acc == IF accounts[a].state = "absent" THEN tx[q].acc ELSE Put(tx[q].acc, a, AccountSeen(q, a))
           held == [tx[q] EXCEPT !.acc = acc]
<1>1. At(q, "accounts", {"import"}) /\ Statement(q, "account_write", held)
  BY DEF LockAccount
<1>2. /\ req[q].at = "accounts" /\ ImportOK(q) /\ TxOK(tx[q]) /\ TablesOK /\ Importing(q)
      /\ Ids(b.accounts) \subseteq Accounts /\ DOMAIN b.accounts = 1 .. Len(b.accounts)
  BY <1>1, ImportFacts DEF ImportSteps, Importing
<1>3. tx[q].i \in 1 .. Len(b.accounts) /\ a = b.accounts[tx[q].i].id
  BY <1>2 DEF ImportOK, BundleOK, Record
<1>4. a \in Ids(b.accounts) /\ a \in Accounts
  BY <1>2, <1>3 DEF Ids
<1>5. /\ TxOK(held) /\ held.acc = acc /\ held.src = tx[q].src /\ held.i = tx[q].i
      /\ held.known = tx[q].known /\ held.usable = tx[q].usable
  BY <1>2 DEF TxOK, TxFields
<1>6. /\ DOMAIN tx[q].acc \subseteq DOMAIN acc /\ DOMAIN acc \subseteq DOMAIN tx[q].acc \cup {a}
      /\ \A x \in DOMAIN tx[q].acc : acc[x] = tx[q].acc[x]
      /\ \A x \in DOMAIN acc : IsAccount(acc[x]) /\ acc[x].state # "absent"
  <2>1. CASE accounts[a].state = "absent"
    BY <1>2, <2>1 DEF ImportOK, AccountsHeld
  <2>2. CASE accounts[a].state # "absent"
    <3>1. IF a \in DOMAIN tx[q].acc THEN AccountSeen(q, a) = tx[q].acc[a]
          ELSE AccountSeen(q, a) = accounts[a] /\ IsAccount(accounts[a])
      BY <1>2, <1>4 DEF AccountSeen, TablesOK
    <3>2. \A x \in DOMAIN tx[q].acc : IsAccount(tx[q].acc[x]) /\ tx[q].acc[x].state # "absent"
      BY <1>2 DEF ImportOK, AccountsHeld
    <3>3. /\ DOMAIN acc = DOMAIN tx[q].acc \cup {a} /\ acc[a] = AccountSeen(q, a)
          /\ \A y \in DOMAIN tx[q].acc \ {a} : acc[y] = tx[q].acc[y]
      BY <2>2 DEF Put
    <3> HIDE DEF acc, a
    <3>4. IsAccount(acc[a]) /\ acc[a].state # "absent"
      BY <2>2, <3>1, <3>2, <3>3
    <3> QED
      BY <3>1, <3>2, <3>3, <3>4
  <2> QED
    BY <2>1, <2>2
<1> HIDE DEF acc, held
<1>7. StatementIs(q, "account_write", held)
  BY <1>1, <1>2, StatementFacts DEF ImportSteps
<1>8. ImportOK(q)'
  <2> USE <1>7 DEF StatementIs
  <2>1. BundleOK(q)'
    BY <1>2, <1>5 DEF ImportOK, BundleOK
  <2>2. SourcesWritten(q) = {} /\ SourcesWritten(q)' = {} /\ AccountsWritten(q)' = AccountsWritten(q)
    BY <1>2, <1>5 DEF SourcesWritten, AccountsWritten
  <2>3. RowsHeld(q)' /\ RowsAsAsked(q)'
    BY <1>2, <1>5, <2>2, RowsStay DEF ImportOK, RowsAsAsked
  <2>4. AccountsHeld(q)'
    BY <1>2, <1>4, <1>5, <1>6, <2>2 DEF ImportOK, AccountsHeld
  <2>5. StatesRead(q)'
    BY DEF StatesRead
  <2> QED
    BY <2>1, <2>3, <2>4, <2>5 DEF ImportOK
<1> QED
  BY <1>1, <1>2, <1>5, <1>7, <1>8, StatementStep DEF WebIInv, RowsExclusive, ImportSteps

LEMMA ImportedAccountIs ==
    ASSUME NEW row, IsAccount(row), NEW p, p.enabled \in BOOLEAN
    PROVE  LET new == ImportedAccount(row, p)
           IN  IsAccount(new) /\ new.state # "absent" /\ new.name = p.name /\ new.disabled = ~p.enabled
<1>1. CASE row.state = "absent"
  BY <1>1 DEF ImportedAccount, IsAccount
<1>2. CASE row.state # "absent"
  <2> DEFINE new == [row EXCEPT !.name = p.name, !.disabled = ~p.enabled]
  <2>1. ImportedAccount(row, p) = new
    BY <1>2 DEF ImportedAccount
  <2>2. row = [state |-> row.state, name |-> row.name, disabled |-> row.disabled]
        /\ row.state \in {"absent", "setup_required", "enrolled"}
    BY DEF IsAccount
  <2>3. row = [f \in {"state", "name", "disabled"} |-> row[f]]
    BY <2>2
  <2>4. new = [f \in {"state", "name", "disabled"} |-> new[f]]
    BY <2>3
  <2>5. new.state = row.state /\ new.name = p.name /\ new.disabled = ~p.enabled
    BY <2>3
  <2> HIDE DEF new
  <2>6. new = [state |-> new.state, name |-> new.name, disabled |-> new.disabled]
    BY <2>4
  <2>7. new.disabled \in BOOLEAN
    BY <2>5
  <2>8. IsAccount(new)
    BY <2>2, <2>5, <2>6, <2>7 DEF IsAccount
  <2> QED
    BY <1>2, <2>1, <2>5, <2>8
<1> QED
  BY <1>1, <1>2

LEMMA WriteAccountStep == ASSUME WebIInv, NEW q \in Requests, WriteAccount(q) PROVE StepOK(q)
<1> DEFINE b == BundleOf(q)
           p == Record(q)
           n == Len(b.accounts)
           k == tx[q].i
           S == ResumesOf(q)
           at == IF k < n THEN "accounts" ELSE "states"
           acc == Put(tx[q].acc, p.id, ImportedAccount(AccountSeen(q, p.id), p))
           src == [s \in DOMAIN tx[q].src \cup S |->
                      IF s \in S THEN ResumedSource(SourceSeen(q, s)) ELSE tx[q].src[s]]
           i == IF k < n THEN k + 1 ELSE 1
           found == p.id \in DOMAIN tx[q].acc
           counts == Add(tx[q].counts, IF found THEN {"accounts_updated"} ELSE {"accounts_created"})
           held == [tx[q] EXCEPT !.acc = acc, !.src = src, !.i = i, !.counts = counts]
<1>1. At(q, "account_write", {"import"})
  BY DEF WriteAccount
<1>2. /\ req[q].at = "account_write" /\ ImportOK(q) /\ TxOK(tx[q]) /\ TablesOK /\ Importing(q) /\ Waits(q) = {}
      /\ Ids(b.accounts) \subseteq Accounts /\ DOMAIN b.accounts = 1 .. n /\ n \in Nat /\ req[q].at # "done"
      /\ Kind(q) = "import"
  BY <1>1, ImportFacts DEF ImportSteps, Importing
<1>3. CASE \E reply : Rollback(q, reply)
  BY <1>2, <1>3, RollbackStep
<1>4. CASE Statement(q, at, held)
  <2>1. k \in 1 .. n /\ p = b.accounts[k] /\ p.id \in Ids(b.accounts) /\ p.id \in Accounts /\ p.enabled \in BOOLEAN
    <3>1. k \in 1 .. n /\ p = b.accounts[k] /\ IsBundle(b)
      BY <1>2 DEF ImportOK, BundleOK, Record
    <3>2. p.id \in Ids(b.accounts)
      BY <1>2, <3>1 DEF Ids
    <3> QED
      BY <1>2, <3>1, <3>2 DEF IsBundle
  <2>2. Needs(q).src = S
    BY <1>2 DEF Needs
  <2>3. ASSUME NEW s \in S
        PROVE  /\ s \in Sources /\ sources[s].there /\ SourceSeen(q, s) = sources[s] /\ sources[s].account = p.id
               /\ sources[s].gate = "authentication_required"
    <3>1. s \in Sources /\ SourceSeen(q, s).there /\ SourceSeen(q, s).account = p.id
          /\ SourceSeen(q, s).gate = "authentication_required"
      BY <2>3 DEF ResumesOf, Gated
    <3>2. SourceSeen(q, s) = sources[s]
      <4>1. CASE s \in DOMAIN tx[q].src
        <5>1. SourceSeen(q, s) = tx[q].src[s]
          BY <4>1 DEF SourceSeen
        <5>2. UnwrittenRow(q, s, tx[q].src[s])
          BY <1>2, <4>1 DEF ImportOK, RowsHeld, SourcesWritten
        <5>3. IsSource(sources[s]) /\ sources[s].there
          BY <1>2, <3>1, <5>2 DEF UnwrittenRow, TablesOK
        <5>4. ResumedSource(sources[s]).gate = "ready"
          BY <5>3, ResumedRow
        <5> QED
          BY <3>1, <5>1, <5>2, <5>4 DEF UnwrittenRow
      <4>2. CASE s \notin DOMAIN tx[q].src
        BY <4>2 DEF SourceSeen
      <4> QED
        BY <4>1, <4>2
    <3> QED
      BY <3>1, <3>2
  <2> HIDE DEF S, p
  <2>4. /\ DOMAIN acc = DOMAIN tx[q].acc \cup {p.id} /\ acc[p.id] = ImportedAccount(AccountSeen(q, p.id), p)
        /\ \A y \in DOMAIN tx[q].acc \ {p.id} : acc[y] = tx[q].acc[y]
    BY DEF Put
  <2>5. IsAccount(acc[p.id]) /\ acc[p.id].state # "absent" /\ acc[p.id].name = p.name /\ acc[p.id].disabled = ~p.enabled
    <3>1. IsAccount(AccountSeen(q, p.id))
      BY <1>2, <2>1 DEF AccountSeen, TablesOK, ImportOK, AccountsHeld
    <3>2. PICK row : row = AccountSeen(q, p.id)
      OBVIOUS
    <3>3. acc[p.id] = ImportedAccount(row, p) /\ IsAccount(row)
      BY <2>4, <3>1, <3>2
    <3> QED
      BY <2>1, <3>3, ImportedAccountIs
  <2>6. /\ DOMAIN src = DOMAIN tx[q].src \cup S
        /\ \A s \in S : src[s] = ResumedSource(sources[s])
        /\ \A s \in DOMAIN tx[q].src \ S : src[s] = tx[q].src[s]
    BY <2>3
  <2> HIDE DEF acc, src
  <2>7. i \in Nat /\ at \in {"accounts", "states"} /\ (at = "accounts" => k < n /\ i = k + 1) /\ (at = "states" => k = n /\ i = 1)
    BY <1>2, <2>1
  <2> HIDE DEF i, at, counts
  <2>8. /\ TxOK(held) /\ held.acc = acc /\ held.src = src /\ held.i = i
    BY <1>2 DEF TxOK, TxFields
  <2> HIDE DEF held
  <2>9. StatementIs(q, at, held)
    BY <1>2, <1>4, <2>7, StatementFacts DEF ImportSteps
  <2>10. ImportOK(q)'
    <3> USE <2>9 DEF StatementIs
    <3>1. BundleOK(q)'
      BY <1>2, <2>1, <2>7, <2>8 DEF ImportOK, BundleOK
    <3>2. SourcesWritten(q) = {} /\ SourcesWritten(q)' = {}
      BY <1>2, <2>7 DEF SourcesWritten
    <3>3. AccountsWritten(q)' = AccountsWritten(q) \cup {p.id}
      <4>1. AccountsWritten(q) = {b.accounts[j].id : j \in 1 .. k - 1}
        BY <1>2 DEF AccountsWritten
      <4>2. AccountsWritten(q)' = {b.accounts[j].id : j \in 1 .. k}
        <5>1. CASE at = "accounts"
          <6>1. AccountsWritten(q)' = {b.accounts[j].id : j \in 1 .. i - 1}
            BY <2>8, <5>1 DEF AccountsWritten
          <6> QED
            BY <2>1, <2>7, <5>1, <6>1
        <5>2. CASE at = "states"
          <6>1. AccountsWritten(q)' = Ids(b.accounts)
            BY <5>2 DEF AccountsWritten
          <6> QED
            BY <1>2, <2>7, <5>2, <6>1 DEF Ids
        <5> QED
          BY <2>7, <5>1, <5>2
      <4>3. 1 .. k = (1 .. k - 1) \cup {k}
        BY <2>1
      <4> QED
        BY <2>1, <4>1, <4>2, <4>3
    <3>4. RowsHeld(q)'
      <4> SUFFICES ASSUME NEW s \in DOMAIN src
                   PROVE  s \in Sources /\ IsSource(src[s]) /\ src[s].there /\ UnwrittenRow(q, s, tx[q].src[s])'
        BY <2>8, <3>2 DEF RowsHeld
      <4>1. CASE s \in S
        <5>1. IsSource(sources[s])
          BY <1>2, <2>3, <4>1 DEF TablesOK
        <5>2. IsSource(src[s]) /\ src[s].there
          BY <2>3, <2>6, <4>1, <5>1, ResumedRow
        <5> QED
          BY <2>1, <2>3, <2>6, <2>8, <4>1, <5>2 DEF UnwrittenRow
      <4>2. CASE s \notin S
        <5>1. s \in DOMAIN tx[q].src /\ src[s] = tx[q].src[s]
          BY <2>6, <4>2
        <5>2. s \in Sources /\ IsSource(tx[q].src[s]) /\ tx[q].src[s].there /\ UnwrittenRow(q, s, tx[q].src[s])
          BY <1>2, <3>2, <5>1 DEF ImportOK, RowsHeld
        <5> QED
          BY <2>8, <5>1, <5>2 DEF UnwrittenRow
      <4> QED
        BY <4>1, <4>2
    <3>5. RowsAsAsked(q)'
      BY <3>2 DEF RowsAsAsked
    <3>6. AccountsHeld(q)'
      <4>1. AccountsHeld(q) /\ Distinct(b.accounts, "id")
        BY <1>2 DEF ImportOK, BundleOK
      <4>2. AccountsWritten(q)' \subseteq DOMAIN acc /\ DOMAIN acc \subseteq Ids(b.accounts)
        BY <2>1, <2>4, <3>3, <4>1 DEF AccountsHeld
      <4>3. \A a \in DOMAIN acc : IsAccount(acc[a]) /\ acc[a].state # "absent"
        BY <2>4, <2>5, <4>1 DEF AccountsHeld
      <4>4. ASSUME NEW j \in DOMAIN b.accounts, b.accounts[j].id \in AccountsWritten(q)'
            PROVE  /\ acc[b.accounts[j].id].name = b.accounts[j].name
                   /\ acc[b.accounts[j].id].disabled = ~b.accounts[j].enabled
        <5>1. CASE b.accounts[j].id = p.id
          <6>1. j = k
            BY <1>2, <2>1, <4>1, <5>1 DEF Distinct
          <6> QED
            BY <2>1, <2>5, <6>1
        <5>2. CASE b.accounts[j].id # p.id
          <6>1. b.accounts[j].id \in AccountsWritten(q) /\ b.accounts[j].id \in DOMAIN tx[q].acc
            BY <3>3, <4>1, <4>4, <5>2 DEF AccountsHeld
          <6> QED
            BY <2>4, <4>1, <5>2, <6>1 DEF AccountsHeld
        <5> QED
          BY <5>1, <5>2
      <4> QED
        BY <2>8, <4>2, <4>3, <4>4 DEF AccountsHeld
    <3>7. StatesRead(q)'
      BY <2>7 DEF StatesRead
    <3> QED
      BY <3>1, <3>4, <3>5, <3>6, <3>7 DEF ImportOK
  <2>11. \A r \in Requests \ {q} : DOMAIN held.src \cap DOMAIN tx[r].src = {}
    <3>1. \A r \in Requests \ {q} : DOMAIN tx[q].src \cap DOMAIN tx[r].src = {}
      BY DEF WebIInv, RowsExclusive
    <3>2. \A r \in Requests \ {q} : S \cap DOMAIN tx[r].src = {}
      BY <1>2, <2>2, Unlocked
    <3> QED
      BY <2>6, <2>8, <3>1, <3>2
  <2> QED
    BY <1>2, <1>4, <2>7, <2>8, <2>9, <2>10, <2>11, StatementStep DEF ImportSteps
<1> QED
  BY <1>3, <1>4 DEF WriteAccount

LEMMA ReadAccountStatesStep == ASSUME WebIInv, NEW q \in Requests, ReadAccountStates(q) PROVE StepOK(q)
<1> DEFINE b == BundleOf(q)
           at == IF b.sources = <<>> THEN "commit" ELSE "lock"
           known == {a \in Accounts : AccountSeen(q, a).state # "absent"}
           usable == {a \in Accounts : Usable(AccountSeen(q, a), a)}
           held == [tx[q] EXCEPT !.known = known, !.usable = usable]
<1>1. At(q, "states", {"import"}) /\ Statement(q, at, held)
  BY DEF ReadAccountStates
<1>2. /\ req[q].at = "states" /\ ImportOK(q) /\ TxOK(tx[q]) /\ TablesOK /\ Importing(q)
      /\ Ids(b.accounts) \subseteq Accounts /\ DOMAIN b.sources = 1 .. Len(b.sources) /\ Len(b.sources) \in Nat
  BY <1>1, ImportFacts DEF ImportSteps, Importing
<1>3. \A a \in DOMAIN tx[q].acc : a \in Accounts /\ AccountSeen(q, a) = tx[q].acc[a] /\ tx[q].acc[a].state # "absent"
  BY <1>2 DEF ImportOK, AccountsHeld, AccountSeen
<1>4. at \in {"commit", "lock"} /\ (at = "commit" => b.sources = <<>>) /\ (at = "lock" => b.sources # <<>>)
  OBVIOUS
<1>5. /\ \A a \in DOMAIN tx[q].acc : a \in known /\ (Usable(tx[q].acc[a], a) => a \in usable)
      /\ \A a \in DOMAIN tx[q].acc : a \in usable => tx[q].acc[a].state = "enrolled" /\ ~tx[q].acc[a].disabled
  BY <1>3 DEF Usable
<1> HIDE DEF known, usable, at
<1>6. /\ TxOK(held) /\ held.acc = tx[q].acc /\ held.src = tx[q].src /\ held.i = tx[q].i
      /\ held.known = known /\ held.usable = usable
  BY <1>2 DEF TxOK, TxFields
<1> HIDE DEF held
<1>7. StatementIs(q, at, held)
  BY <1>1, <1>2, <1>4, StatementFacts DEF ImportSteps
<1>8. ImportOK(q)'
  <2> USE <1>7 DEF StatementIs
  <2>1. BundleOK(q)'
    <3>1. at = "lock" => 1 \in 1 .. Len(b.sources)
      <4> SUFFICES ASSUME at = "lock", Len(b.sources) = 0 PROVE FALSE
        BY <1>2
      <4>1. b.sources = [j \in 1 .. 0 |-> b.sources[j]]
        BY <1>2 DEF ImportOK, BundleOK, IsBundle
      <4>2. b.sources = <<>>
        BY <4>1
      <4> QED
        BY <1>4, <4>2
    <3>2. tx[q].i = 1
      BY <1>2 DEF ImportOK, BundleOK
    <3> QED
      BY <1>2, <1>4, <1>6, <3>1, <3>2 DEF ImportOK, BundleOK
  <2>2. SourcesWritten(q) = {} /\ SourcesWritten(q)' = {}
    <3>1. SourcesWritten(q) = {}
      BY <1>2 DEF SourcesWritten
    <3>2. CASE at = "lock"
      <4>1. tx'[q].i = 1
        BY <1>2, <1>6 DEF ImportOK, BundleOK
      <4>2. 1 .. 1 - 1 = {}
        OBVIOUS
      <4>3. SourcesWritten(q)' = {b.sources[j].id : j \in 1 .. 1 - 1}
        BY <3>2, <4>1 DEF SourcesWritten
      <4> QED
        BY <3>1, <4>2, <4>3
    <3>3. CASE at = "commit"
      <4>1. Ids(b.sources) = {}
        BY <1>4, <3>3 DEF Ids
      <4> QED
        BY <3>1, <3>3, <4>1 DEF SourcesWritten
    <3> QED
      BY <1>4, <3>2, <3>3
  <2>3. AccountsWritten(q)' = AccountsWritten(q)
    BY <1>2, <1>4 DEF AccountsWritten
  <2>4. RowsHeld(q)' /\ RowsAsAsked(q)'
    BY <1>2, <1>6, <2>2, RowsStay DEF ImportOK, RowsAsAsked
  <2>5. AccountsHeld(q)'
    BY <1>2, <1>6, <2>3 DEF ImportOK, AccountsHeld
  <2>6. StatesRead(q)'
    BY <1>5, <1>6 DEF StatesRead, Usable
  <2> QED
    BY <2>1, <2>4, <2>5, <2>6 DEF ImportOK
<1> QED
  BY <1>1, <1>2, <1>4, <1>6, <1>7, <1>8, StatementStep DEF WebIInv, RowsExclusive, ImportSteps

LEMMA LockSourceStep == ASSUME WebIInv, NEW q \in Requests, LockSource(q) PROVE StepOK(q)
<1> DEFINE b == BundleOf(q)
           s == Record(q).id
           src == IF SourceSeen(q, s).there THEN Put(tx[q].src, s, SourceSeen(q, s)) ELSE tx[q].src
           held == [tx[q] EXCEPT !.src = src]
<1>1. At(q, "lock", {"import"}) /\ Statement(q, "write", held)
  BY DEF LockSource
<1>2. /\ req[q].at = "lock" /\ ImportOK(q) /\ TxOK(tx[q]) /\ TablesOK /\ Importing(q) /\ Waits(q) = {}
      /\ Ids(b.sources) \subseteq Sources /\ DOMAIN b.sources = 1 .. Len(b.sources) /\ Kind(q) = "import"
  BY <1>1, ImportFacts DEF ImportSteps, Importing
<1>3. tx[q].i \in 1 .. Len(b.sources) /\ s = b.sources[tx[q].i].id
  BY <1>2 DEF ImportOK, BundleOK, Record
<1>4. s \in Sources
  BY <1>2, <1>3 DEF Ids
<1>5. Needs(q).src = {s} \cap There
  BY <1>2 DEF Needs
<1>6. /\ TxOK(held) /\ held.src = src /\ held.acc = tx[q].acc /\ held.i = tx[q].i
      /\ held.known = tx[q].known /\ held.usable = tx[q].usable
  BY <1>2 DEF TxOK, TxFields
\* A row that was not held is taken as it is committed.
<1>7. /\ DOMAIN tx[q].src \subseteq DOMAIN src /\ \A x \in DOMAIN tx[q].src : src[x] = tx[q].src[x]
      /\ \A x \in DOMAIN src \ DOMAIN tx[q].src : x = s /\ src[x] = sources[x] /\ sources[x].there
  <2>1. CASE ~SourceSeen(q, s).there
    BY <2>1
  <2>2. CASE SourceSeen(q, s).there
    <3>1. /\ DOMAIN src = DOMAIN tx[q].src \cup {s} /\ src[s] = SourceSeen(q, s)
          /\ \A y \in DOMAIN tx[q].src \ {s} : src[y] = tx[q].src[y]
      BY <2>2 DEF Put
    <3>2. IF s \in DOMAIN tx[q].src THEN SourceSeen(q, s) = tx[q].src[s] ELSE SourceSeen(q, s) = sources[s]
      BY DEF SourceSeen
    <3> HIDE DEF src, s
    <3> QED
      BY <2>2, <3>1, <3>2
  <2> QED
    BY <2>1, <2>2
<1> HIDE DEF src, held
<1>8. StatementIs(q, "write", held)
  BY <1>1, <1>2, StatementFacts DEF ImportSteps
<1>9. ImportOK(q)'
  <2> USE <1>8 DEF StatementIs
  <2>1. BundleOK(q)'
    BY <1>2, <1>6 DEF ImportOK, BundleOK
  <2>2. SourcesWritten(q)' = SourcesWritten(q) /\ AccountsWritten(q)' = AccountsWritten(q)
    BY <1>2, <1>6 DEF SourcesWritten, AccountsWritten
  <2>3. RowsHeld(q)'
    <3>1. RowsHeld(q)
      BY <1>2 DEF ImportOK
    <3> SUFFICES ASSUME NEW x \in DOMAIN src
                 PROVE  /\ x \in Sources /\ IsSource(src[x]) /\ src[x].there
                        /\ IF x \in SourcesWritten(q) THEN WrittenRow(x, tx[q].src[x])' ELSE UnwrittenRow(q, x, tx[q].src[x])'
      BY <1>6, <1>7, <2>2, <3>1 DEF RowsHeld
    <3>2. CASE x \in DOMAIN tx[q].src
      BY <1>6, <1>7, <3>1, <3>2 DEF RowsHeld, WrittenRow, UnwrittenRow
    <3>3. CASE x \notin DOMAIN tx[q].src
      <4>1. x = s /\ src[x] = sources[x] /\ sources[x].there /\ x \notin SourcesWritten(q)
        BY <1>7, <3>1, <3>3 DEF RowsHeld
      <4> QED
        BY <1>2, <1>4, <1>6, <4>1 DEF TablesOK, UnwrittenRow
    <3> QED
      BY <3>2, <3>3
  <2>4. RowsAsAsked(q)'
    <3>1. \A x \in SourcesWritten(q) : x \in DOMAIN tx[q].src /\ src[x] = tx[q].src[x]
      BY <1>2, <1>7 DEF ImportOK, RowsHeld
    <3> QED
      BY <1>2, <1>6, <2>2, <3>1 DEF ImportOK, RowsAsAsked, AsAsked
  <2>5. AccountsHeld(q)'
    BY <1>2, <1>6, <2>2 DEF ImportOK, AccountsHeld
  <2>6. StatesRead(q)'
    BY <1>2, <1>6 DEF ImportOK, StatesRead, Usable
  <2> QED
    BY <2>1, <2>3, <2>4, <2>5, <2>6 DEF ImportOK
<1>10. \A r \in Requests \ {q} : DOMAIN held.src \cap DOMAIN tx[r].src = {}
  <2>1. \A r \in Requests \ {q} : DOMAIN tx[q].src \cap DOMAIN tx[r].src = {}
    BY DEF WebIInv, RowsExclusive
  <2>2. ASSUME NEW x \in DOMAIN src \ DOMAIN tx[q].src, NEW r \in Requests \ {q} PROVE x \notin DOMAIN tx[r].src
    <3>1. x \in Needs(q).src
      BY <1>4, <1>5, <1>7 DEF There
    <3> QED
      BY <1>2, <3>1, Unlocked
  <2> QED
    BY <1>6, <2>1, <2>2
<1> QED
  BY <1>1, <1>2, <1>6, <1>8, <1>9, <1>10, StatementStep DEF ImportSteps

\* What an import makes of a row.
Standing(p, known, usable) ==
    LET account == ResolvedAccount(p, known)
    IN  IF account = None THEN "unbound" ELSE IF account \in usable THEN "usable" ELSE "unusable"

RowImported(row, p, known, usable, new) ==
    /\ IsSource(new) /\ new.there /\ (row.there => OneAhead(row, new))
    /\ new.gate = imported_source_gate(row.gate, Standing(p, known, usable))
    /\ new.account = ResolvedAccount(p, known)
    /\ \A f \in Portable \ {"account"} : new[f] = p[f]

LEMMA ImportedRow ==
    ASSUME NEW row, IsSource(row), NEW p, DOMAIN p = Portable \cup {"id"}, NEW known, NEW usable
    PROVE  RowImported(row, p, known, usable, ImportedSource(row, p, known, usable))
<1> DEFINE account == ResolvedAccount(p, known)
           standing == Standing(p, known, usable)
           resumes == row.gate = "authentication_required" /\ standing = "usable"
           fields == [p EXCEPT !.account = account]
           patch == [f \in Portable |-> fields[f]]
           written == IF row.there THEN apply_patch(row, patch) ELSE NewSource(fields)
           gate == imported_source_gate(row.gate, standing)
           held == written.held /\ ~resumes
           new == [written EXCEPT !.gate = gate, !.held = held]
<1>1. ImportedSource(row, p, known, usable) = new
  BY DEF ImportedSource, Standing
<1>2. fields.account = account /\ \A f \in Portable \ {"account"} : fields[f] = p[f]
  BY DEF Portable
<1> HIDE DEF account, standing, fields
<1>3. /\ IsSource(written) /\ written.there /\ (row.there => OneAhead(row, written))
      /\ \A f \in Portable : written[f] = fields[f]
  <2>1. CASE row.there
    <3>1. DOMAIN patch = Portable /\ \A f \in Portable : patch[f] = fields[f]
      OBVIOUS
    <3>2. written = apply_patch(row, patch)
      BY <2>1
    <3> HIDE DEF patch, written
    <3> QED
      BY <2>1, <3>1, <3>2, PatchedRow
  <2>2. CASE ~row.there
    <3>1. written = NewSource(fields)
      BY <2>2
    <3> HIDE DEF written
    <3> QED
      BY <2>2, <3>1, NewRow
  <2> QED
    BY <2>1, <2>2
<1> HIDE DEF written
<1>4. gate \in Gates
  BY DEF imported_source_gate, Gates
<1>5. gate = imported_source_gate(row.gate, standing)
  OBVIOUS
<1> HIDE DEF gate, held
<1>6. written = [f \in SourceFields |-> written[f]] /\ written.rev \in Nat
  BY <1>3 DEF IsSource
<1>7. new = [f \in SourceFields |-> new[f]]
  BY <1>6
<1>8. /\ new.there = written.there /\ new.gate = gate /\ new.rev = written.rev
      /\ \A f \in Portable : new[f] = written[f]
  BY <1>6 DEF SourceFields, NoSource, Portable
<1> HIDE DEF new
<1>9. FeedVisible(new) = FeedVisible(written)
  BY <1>8 DEF FeedVisible, Portable
<1>10. IsSource(new) /\ new.there
  BY <1>3, <1>4, <1>6, <1>7, <1>8 DEF IsSource
<1>11. row.there => OneAhead(row, new)
  BY <1>3, <1>8, <1>9 DEF OneAhead
<1>12. new.account = account /\ \A f \in Portable \ {"account"} : new[f] = p[f]
  BY <1>2, <1>3, <1>8 DEF Portable
<1> QED
  BY <1>1, <1>5, <1>8, <1>10, <1>11, <1>12 DEF account, standing, RowImported

LEMMA WriteSourceStep == ASSUME WebIInv, NEW q \in Requests, WriteSource(q) PROVE StepOK(q)
<1> DEFINE b == BundleOf(q)
           p == Record(q)
           n == Len(b.sources)
           k == tx[q].i
           at == IF k < n THEN "lock" ELSE "commit"
           found == p.id \in DOMAIN tx[q].src
           src == Put(tx[q].src, p.id, ImportedSource(SourceSeen(q, p.id), p, tx[q].known, tx[q].usable))
           i == IF k < n THEN k + 1 ELSE 1
           counts == Add(tx[q].counts, {IF found THEN "sources_updated" ELSE "sources_created"}
                                \cup (IF p.account \in tx[q].known THEN {"account_bindings_preserved"}
                                      ELSE IF p.account # None THEN {"account_bindings_cleared"} ELSE {}))
           held == [tx[q] EXCEPT !.src = src, !.i = i, !.counts = counts]
<1>1. At(q, "write", {"import"})
  BY DEF WriteSource
<1>2. /\ req[q].at = "write" /\ ImportOK(q) /\ TxOK(tx[q]) /\ TablesOK /\ Importing(q) /\ Waits(q) = {}
      /\ Ids(b.sources) \subseteq Sources /\ DOMAIN b.sources = 1 .. n /\ n \in Nat /\ req[q].at # "done"
      /\ Kind(q) = "import" /\ Ids(b.accounts) \subseteq Accounts
  BY <1>1, ImportFacts DEF ImportSteps, Importing
<1>3. CASE \E reply : Rollback(q, reply)
  BY <1>2, <1>3, RollbackStep
<1>4. CASE Statement(q, at, held) /\ (found \/ ~sources[p.id].there)
  <2>1. k \in 1 .. n /\ p = b.sources[k] /\ p.id \in Sources /\ DOMAIN p = Portable \cup {"id"}
    <3>1. k \in 1 .. n /\ p = b.sources[k] /\ IsBundle(b)
      BY <1>2 DEF ImportOK, BundleOK, Record
    <3> QED
      BY <1>2, <3>1 DEF IsBundle
  <2>2. Needs(q).src = {p.id}
    BY <1>2 DEF Needs
  <2>3. SourcesWritten(q) = {b.sources[j].id : j \in 1 .. k - 1}
    BY <1>2 DEF SourcesWritten
  <2>4. p.id \notin SourcesWritten(q)
    <3> SUFFICES ASSUME NEW j \in 1 .. k - 1, b.sources[j].id = p.id PROVE FALSE
      BY <2>3
    <3>1. Distinct(b.sources, "id") /\ j \in DOMAIN b.sources /\ k \in DOMAIN b.sources
      BY <1>2, <2>1 DEF ImportOK, BundleOK
    <3>2. j = k
      BY <2>1, <3>1 DEF Distinct
    <3> QED
      BY <2>1, <3>2
  <2> HIDE DEF p
  <2>5. PICK row : row = SourceSeen(q, p.id)
    OBVIOUS
  \* The row as it was committed, or that row resumed, or none.
  <2>6. /\ IsSource(row)
        /\ \/ row = sources[p.id]
           \/ /\ sources[p.id].there /\ row = ResumedSource(sources[p.id]) /\ sources[p.id].gate = "authentication_required"
    <3>1. CASE found
      <4>1. row = tx[q].src[p.id]
        BY <2>5, <3>1 DEF SourceSeen
      <4> QED
        BY <1>2, <2>4, <3>1, <4>1 DEF ImportOK, RowsHeld, UnwrittenRow
    <3>2. CASE ~found
      <4>1. row = sources[p.id]
        BY <2>5, <3>2 DEF SourceSeen
      <4> QED
        BY <1>2, <2>1, <4>1 DEF TablesOK
    <3> QED
      BY <3>1, <3>2
  <2> DEFINE new == ImportedSource(row, p, tx[q].known, tx[q].usable)
  <2>7. /\ IsSource(new) /\ new.there /\ (row.there => OneAhead(row, new))
        /\ new.gate = imported_source_gate(row.gate, Standing(p, tx[q].known, tx[q].usable))
        /\ new.account = ResolvedAccount(p, tx[q].known)
        /\ \A f \in Portable \ {"account"} : new[f] = p[f]
    <3>1. RowImported(row, p, tx[q].known, tx[q].usable, new)
      BY <2>1, <2>6, ImportedRow
    <3> HIDE DEF new
    <3> QED
      BY <3>1 DEF RowImported
  <2>8. src = Put(tx[q].src, p.id, new)
    BY <2>5
  <2> HIDE DEF new
  <2>9. WrittenRow(p.id, new)
    <3>1. CASE row = sources[p.id]
      <4>1. row.gate = "risk_controlled" => new.gate = "risk_controlled"
        BY <2>7 DEF imported_source_gate
      <4> QED
        BY <2>7, <3>1, <4>1 DEF WrittenRow
    <3>2. CASE sources[p.id].there /\ row = ResumedSource(sources[p.id]) /\ sources[p.id].gate = "authentication_required"
      <4>1. IsSource(sources[p.id])
        BY <1>2, <2>1 DEF TablesOK
      <4>2. row.there /\ row.rev = sources[p.id].rev /\ FeedVisible(row) = FeedVisible(sources[p.id])
        BY <3>2, <4>1, ResumedRow
      <4>3. OneAhead(sources[p.id], new)
        BY <2>7, <4>2 DEF OneAhead
      <4> QED
        BY <3>2, <4>3 DEF WrittenRow
    <3> QED
      BY <2>6, <3>1, <3>2
  <2>10. AsAsked(q, p, new)
    <3>1. new.account \in {p.account, None}
      BY <2>7 DEF ResolvedAccount
    <3>2. ASSUME p.account \in Ids(b.accounts)
          PROVE  /\ new.account = p.account
                 /\ new.gate # IF p.account \in tx[q].usable THEN "authentication_required" ELSE "ready"
      <4>1. p.account \in tx[q].known /\ p.account # None
        <5>1. AccountsWritten(q) = Ids(b.accounts)
          BY <1>2 DEF AccountsWritten
        <5>2. p.account \in DOMAIN tx[q].acc
          BY <1>2, <3>2, <5>1 DEF ImportOK, AccountsHeld
        <5> QED
          BY <1>2, <3>2, <5>2, WebAssumption DEF ImportOK, StatesRead
      <4>2. ResolvedAccount(p, tx[q].known) = p.account
        BY <4>1 DEF ResolvedAccount
      <4>3. Standing(p, tx[q].known, tx[q].usable) = IF p.account \in tx[q].usable THEN "usable" ELSE "unusable"
        BY <4>1, <4>2 DEF Standing
      <4>4. CASE p.account \in tx[q].usable
        <5>1. new.gate \in {"risk_controlled", "ready"}
          BY <2>7, <4>3, <4>4 DEF imported_source_gate
        <5> QED
          BY <2>7, <4>2, <4>4, <5>1
      <4>5. CASE p.account \notin tx[q].usable
        <5>1. new.gate \in {"risk_controlled", "authentication_required"}
          BY <2>7, <4>3, <4>5 DEF imported_source_gate
        <5> QED
          BY <2>7, <4>2, <4>5, <5>1
      <4> QED
        BY <4>4, <4>5
    <3> QED
      BY <2>7, <3>1, <3>2 DEF AsAsked
  <2>11. /\ DOMAIN src = DOMAIN tx[q].src \cup {p.id} /\ src[p.id] = new
         /\ \A y \in DOMAIN tx[q].src \ {p.id} : src[y] = tx[q].src[y]
    BY <2>8 DEF Put
  <2>12. i \in Nat /\ at \in {"lock", "commit"} /\ (at = "lock" => k < n /\ i = k + 1) /\ (at = "commit" => k = n)
    BY <1>2, <2>1
  <2> HIDE DEF i, at, counts, src
  <2>13. /\ TxOK(held) /\ held.acc = tx[q].acc /\ held.src = src /\ held.i = i
         /\ held.known = tx[q].known /\ held.usable = tx[q].usable
    BY <1>2 DEF TxOK, TxFields
  <2> HIDE DEF held
  <2>14. StatementIs(q, at, held)
    BY <1>2, <1>4, <2>12, StatementFacts DEF ImportSteps
  <2>15. ImportOK(q)'
    <3> USE <2>14 DEF StatementIs
    <3>1. BundleOK(q)'
      BY <1>2, <2>1, <2>12, <2>13 DEF ImportOK, BundleOK
    <3>2. SourcesWritten(q)' = SourcesWritten(q) \cup {p.id}
      <4>1. SourcesWritten(q)' = {b.sources[j].id : j \in 1 .. k}
        <5>1. CASE at = "lock"
          <6>1. SourcesWritten(q)' = {b.sources[j].id : j \in 1 .. i - 1}
            BY <2>13, <5>1 DEF SourcesWritten
          <6> QED
            BY <2>1, <2>12, <5>1, <6>1
        <5>2. CASE at = "commit"
          <6>1. SourcesWritten(q)' = Ids(b.sources)
            BY <5>2 DEF SourcesWritten
          <6> QED
            BY <1>2, <2>12, <5>2, <6>1 DEF Ids
        <5> QED
          BY <2>12, <5>1, <5>2
      <4>2. 1 .. k = (1 .. k - 1) \cup {k}
        BY <2>1
      <4> QED
        BY <2>1, <2>3, <4>1, <4>2
    <3>3. AccountsWritten(q)' = AccountsWritten(q)
      BY <1>2, <2>12 DEF AccountsWritten
    <3>4. RowsHeld(q)'
      <4>1. RowsHeld(q)
        BY <1>2 DEF ImportOK
      <4> SUFFICES ASSUME NEW x \in DOMAIN src
                   PROVE  /\ x \in Sources /\ IsSource(src[x]) /\ src[x].there
                          /\ IF x \in SourcesWritten(q)' THEN WrittenRow(x, tx[q].src[x])' ELSE UnwrittenRow(q, x, tx[q].src[x])'
        BY <2>11, <2>13, <3>2, <4>1 DEF RowsHeld
      <4>2. CASE x = p.id
        BY <2>1, <2>7, <2>9, <2>11, <2>13, <3>2, <4>2 DEF WrittenRow
      <4>3. CASE x # p.id
        <5>1. x \in DOMAIN tx[q].src /\ src[x] = tx[q].src[x] /\ (x \in SourcesWritten(q)' <=> x \in SourcesWritten(q))
          BY <2>11, <3>2, <4>3
        <5> QED
          BY <2>13, <4>1, <5>1 DEF RowsHeld, WrittenRow, UnwrittenRow
      <4> QED
        BY <4>2, <4>3
    <3>5. RowsAsAsked(q)'
      <4> SUFFICES ASSUME NEW j \in DOMAIN b.sources, b.sources[j].id \in SourcesWritten(q)'
                   PROVE  AsAsked(q, BundleOf(q).sources[j], tx[q].src[BundleOf(q).sources[j].id])'
        BY DEF RowsAsAsked
      <4>1. CASE b.sources[j].id = p.id
        <5>1. j = k
          BY <1>2, <2>1, <4>1 DEF ImportOK, BundleOK, Distinct
        <5> QED
          BY <2>1, <2>10, <2>11, <2>13, <5>1 DEF AsAsked
      <4>2. CASE b.sources[j].id # p.id
        <5>1. b.sources[j].id \in SourcesWritten(q) /\ b.sources[j].id \in DOMAIN tx[q].src
          BY <1>2, <3>2, <4>2 DEF ImportOK, RowsHeld
        <5>2. AsAsked(q, b.sources[j], tx[q].src[b.sources[j].id])
          BY <1>2, <5>1 DEF ImportOK, RowsAsAsked
        <5> QED
          BY <2>11, <2>13, <4>2, <5>1, <5>2 DEF AsAsked
      <4> QED
        BY <4>1, <4>2
    <3>6. AccountsHeld(q)'
      BY <1>2, <2>13, <3>3 DEF ImportOK, AccountsHeld
    <3>7. StatesRead(q)'
      BY <1>2, <2>13 DEF ImportOK, StatesRead, Usable
    <3> QED
      BY <3>1, <3>4, <3>5, <3>6, <3>7 DEF ImportOK
  <2>16. \A r \in Requests \ {q} : DOMAIN held.src \cap DOMAIN tx[r].src = {}
    <3>1. \A r \in Requests \ {q} : DOMAIN tx[q].src \cap DOMAIN tx[r].src = {}
      BY DEF WebIInv, RowsExclusive
    <3>2. \A r \in Requests \ {q} : p.id \notin DOMAIN tx[r].src
      BY <1>2, <2>2, Unlocked
    <3> QED
      BY <2>11, <2>13, <3>1, <3>2
  <2> QED
    BY <1>2, <1>4, <2>12, <2>13, <2>14, <2>15, <2>16, StatementStep DEF ImportSteps
<1> QED
  BY <1>3, <1>4 DEF WriteSource

\* What the commit of an import leaves: its whole bundle.
LEMMA CommitIsWhole ==
    ASSUME WebIInv, NEW q \in Requests, NEW reply, CommitImport(q, reply)
    PROVE  /\ WholeBundle(q) /\ TablesOK' /\ SourceStep(q) /\ RowsLeft(q)
<1> DEFINE b == BundleOf(q)
<1>1. At(q, "commit", {"import"})
  BY DEF CommitImport
<1>2. /\ req[q].at = "commit" /\ ImportOK(q) /\ TablesOK
      /\ Ids(b.accounts) \subseteq Accounts /\ Ids(b.sources) \subseteq Sources
  BY <1>1, ImportFacts DEF ImportSteps
<1>3. SourcesWritten(q) = Ids(b.sources) /\ AccountsWritten(q) = Ids(b.accounts)
  BY <1>2 DEF SourcesWritten, AccountsWritten
<1>4. RowsHeld(q) /\ RowsAsAsked(q) /\ AccountsHeld(q) /\ StatesRead(q)
  BY <1>2 DEF ImportOK
<1>5. accounts' = [a \in Accounts |-> AccountSeen(q, a)] /\ sources' = [s \in Sources |-> SourceSeen(q, s)] /\ token' = token
      /\ lapsed' = lapsed
  BY DEF CommitImport
<1>6. \A s \in Sources : sources'[s] = IF s \in DOMAIN tx[q].src THEN tx[q].src[s] ELSE sources[s]
  BY <1>5 DEF SourceSeen
<1>7. \A a \in Accounts : accounts'[a] = IF a \in DOMAIN tx[q].acc THEN tx[q].acc[a] ELSE accounts[a]
  BY <1>5 DEF AccountSeen
<1>8. TablesOK'
  <2>1. accounts' = [a \in Accounts |-> accounts'[a]] /\ sources' = [s \in Sources |-> sources'[s]]
    BY <1>5
  <2>2. \A a \in Accounts : IsAccount(accounts'[a])
    BY <1>2, <1>4, <1>7 DEF TablesOK, AccountsHeld
  <2>3. \A s \in Sources : IsSource(sources'[s]) /\ (sources[s].there => sources'[s].there)
    BY <1>2, <1>4, <1>6 DEF TablesOK, RowsHeld
  <2> QED
    BY <1>2, <1>5, <2>1, <2>2, <2>3 DEF TablesOK
<1>9. SourceStep(q)
  <2> SUFFICES ASSUME NEW s \in Sources
               PROVE  /\ sources[s].there /\ sources'[s].there => OneAhead(sources[s], sources'[s])
                      /\ sources[s].gate = "risk_controlled" => sources'[s].gate = "risk_controlled"
    BY DEF SourceStep
  <2>1. IsSource(sources[s])
    BY <1>2 DEF TablesOK
  <2>2. CASE s \notin DOMAIN tx[q].src
    BY <1>6, <2>1, <2>2 DEF OneAhead, IsSource
  <2>3. CASE s \in DOMAIN tx[q].src /\ s \in SourcesWritten(q)
    BY <1>4, <1>6, <2>3 DEF RowsHeld, WrittenRow
  <2>4. CASE s \in DOMAIN tx[q].src /\ s \notin SourcesWritten(q)
    <3>1. UnwrittenRow(q, s, sources'[s])
      BY <1>4, <1>6, <2>4 DEF RowsHeld
    <3>2. CASE sources'[s] = sources[s]
      BY <2>1, <3>2 DEF OneAhead, IsSource
    <3>3. CASE sources'[s] # sources[s]
      <4>1. sources'[s] = ResumedSource(sources[s]) /\ sources[s].there /\ sources[s].gate = "authentication_required"
        BY <3>1, <3>3 DEF UnwrittenRow
      <4> QED
        BY <2>1, <4>1, ResumedRow
    <3> QED
      BY <3>2, <3>3
  <2> QED
    BY <2>2, <2>3, <2>4
<1>10. RowsLeft(q)
  <2>1. ASSUME NEW r \in Requests \ {q}, NEW s \in DOMAIN tx[r].src PROVE sources'[s] = sources[s]
    <3>1. s \notin DOMAIN tx[q].src
      BY DEF WebIInv, RowsExclusive
    <3>2. s \in Sources
      <4>1. Importing(r)
        BY DEF WebIInv, OnlyImportsHold
      <4> QED
        BY <4>1 DEF WebIInv, ImportsOK, ImportOK, RowsHeld
    <3> QED
      BY <1>6, <3>1, <3>2
  <2> QED
    BY <1>5, <2>1 DEF RowsLeft
<1>11. ASSUME NEW i \in DOMAIN b.sources
       PROVE  LET p == b.sources[i]
                  row == sources'[p.id]
              IN  /\ row.there
                  /\ \A f \in Portable \ {"account"} : row[f] = p[f]
                  /\ row.account \in {p.account, None}
                  /\ p.account \in Ids(b.accounts) =>
                        /\ row.account = p.account
                        /\ accounts'[p.account].state = "enrolled" /\ ~accounts'[p.account].disabled
                               /\ p.account \notin lapsed
                           => row.gate # "authentication_required"
                        /\ accounts'[p.account].state # "enrolled" \/ accounts'[p.account].disabled
                           => row.gate # "ready"
  <2> DEFINE p == b.sources[i]
             row == sources'[p.id]
  <2>1. p.id \in Ids(b.sources)
    BY DEF Ids
  <2>2. p.id \in Sources /\ p.id \in DOMAIN tx[q].src /\ row = tx[q].src[p.id] /\ row.there
    BY <1>2, <1>3, <1>4, <1>6, <2>1 DEF RowsHeld
  <2>3. AsAsked(q, p, row)
    BY <1>3, <1>4, <2>1, <2>2 DEF RowsAsAsked
  <2> HIDE DEF p, row
  <2>4. ASSUME p.account \in Ids(b.accounts)
        PROVE  /\ row.account = p.account
               /\ accounts'[p.account].state = "enrolled" /\ ~accounts'[p.account].disabled
                      /\ p.account \notin lapsed
                  => row.gate # "authentication_required"
               /\ accounts'[p.account].state # "enrolled" \/ accounts'[p.account].disabled
                  => row.gate # "ready"
    <3> DEFINE a == p.account
    <3>1. a \in DOMAIN tx[q].acc /\ a \in Accounts
      BY <1>2, <1>3, <1>4, <2>4 DEF AccountsHeld
    <3>2. accounts'[a] = tx[q].acc[a]
      BY <1>7, <3>1
    <3>3. row.account = a /\ row.gate # IF a \in tx[q].usable THEN "authentication_required" ELSE "ready"
      BY <2>3, <2>4 DEF AsAsked
    <3>4. /\ Usable(tx[q].acc[a], a) => a \in tx[q].usable
          /\ a \in tx[q].usable => tx[q].acc[a].state = "enrolled" /\ ~tx[q].acc[a].disabled
      BY <1>2, <1>4, <3>1 DEF StatesRead
    <3> QED
      BY <3>2, <3>3, <3>4 DEF Usable
  <2>5. row.account \in {p.account, None} /\ \A f \in Portable \ {"account"} : row[f] = p[f]
    BY <2>3 DEF AsAsked
  <2> QED
    BY <2>2, <2>4, <2>5 DEF p, row
<1>12. \A i \in DOMAIN b.accounts :
          /\ accounts'[b.accounts[i].id].name = b.accounts[i].name
          /\ accounts'[b.accounts[i].id].disabled = ~b.accounts[i].enabled
  <2> SUFFICES ASSUME NEW i \in DOMAIN b.accounts
               PROVE  /\ accounts'[b.accounts[i].id].name = b.accounts[i].name
                      /\ accounts'[b.accounts[i].id].disabled = ~b.accounts[i].enabled
    OBVIOUS
  <2>1. b.accounts[i].id \in Ids(b.accounts)
    BY DEF Ids
  <2>2. b.accounts[i].id \in DOMAIN tx[q].acc /\ b.accounts[i].id \in Accounts
    BY <1>2, <1>3, <1>4, <2>1 DEF AccountsHeld
  <2> QED
    BY <1>3, <1>4, <1>7, <2>1, <2>2 DEF AccountsHeld
<1>13. \A s \in Sources \ Ids(b.sources) :
          \/ sources'[s] = sources[s]
          \/ /\ sources[s].account \in Ids(b.accounts)
             /\ sources'[s] = ResumedSource(sources[s])
  BY <1>3, <1>4, <1>6 DEF RowsHeld, UnwrittenRow
<1>14. \A a \in Accounts \ Ids(b.accounts) : accounts'[a] = accounts[a]
  BY <1>4, <1>7 DEF AccountsHeld
<1>15. WholeBundle(q)
  BY <1>11, <1>12, <1>13, <1>14 DEF WholeBundle
<1> QED
  BY <1>8, <1>9, <1>10, <1>15

LEMMA CommitImportStep == ASSUME WebIInv, NEW q \in Requests, NEW reply, CommitImport(q, reply) PROVE StepOK(q)
<1>1. At(q, "commit", {"import"})
  BY DEF CommitImport
<1>2. req[q].at = "commit" /\ Kind(q) = "import" /\ Open(q) /\ req[q].at # "done" /\ RequestsOK /\ ReqOK(req[q])
  BY <1>1, ImportFacts DEF ImportSteps, RequestsOK
<1>3. WholeBundle(q) /\ TablesOK' /\ SourceStep(q) /\ RowsLeft(q)
  BY CommitIsWhole
<1> DEFINE result == [req[q].result EXCEPT !.counts = tx[q].counts, !.base = edits]
<1>4. req' = [req EXCEPT ![q] = [@ EXCEPT !.at = "done", !.reply = reply, !.result = result]]
  BY DEF CommitImport
<1>5. result = [f \in ResultFields |-> result[f]]
  BY <1>2 DEF ReqOK
<1> HIDE DEF result
<1>6. Acts(q) /\ req'[q].at = "done"
  BY <1>2, <1>4, <1>5, AnsweredWith
<1>7. TokenStep(q) /\ EditStep(q) /\ edits' \in Nat
  BY <1>2, <1>3, <1>6 DEF CommitImport, TokenStep, EditStep, RequestsOK, Mutations
<1>8. TxStep(q)
  <2>1. tx' = [r \in Requests |-> tx'[r]] /\ (\A r \in Requests \ {q} : tx'[r] = tx[r]) /\ tx'[q] = NoTx
    BY <1>2 DEF RequestsOK, CommitImport
  <2> QED
    BY <1>6, <2>1, EmptyTx DEF TxStep, ImportSteps
<1>9. SessionsOK' /\ LimiterOK'
  BY <1>2, <1>6, SessionsStay DEF CommitImport
<1> QED
  BY <1>3, <1>6, <1>7, <1>8, <1>9 DEF StepOK

LEMMA ImportStepStep ==
    ASSUME WebIInv, NEW q \in Requests, ImportStep(q) \/ DeadlockVictim(q) \/ StorageFails(q) PROVE StepOK(q)
<1>1. CASE DeadlockVictim(q)
  BY <1>1, RollbackStep DEF DeadlockVictim
<1>2. CASE StorageFails(q)
  <2>1. req[q].at # "done" /\ (Rollback(q, "unavailable") \/ CommitImport(q, "unavailable"))
    BY <1>2 DEF StorageFails
  <2> QED
    BY <2>1, RollbackStep, CommitImportStep
<1>3. CASE CommitImport(q, "ok")
  BY <1>3, CommitImportStep
<1> QED
  BY <1>1, <1>2, <1>3, LockAccountStep, WriteAccountStep, ReadAccountStatesStep, LockSourceStep, WriteSourceStep
     DEF ImportStep

-----------------------------------------------------------------------------
(* All steps. *)

LEMMA RequestStep ==
    ASSUME WebIInv, NEW q \in Requests,
           \/ Receive(q) \/ Login(q) \/ ResolveToken(q) \/ Progress(q) \/ CloseGate(q) \/ Lapse(q) \/ StorageFails(q)
    PROVE  StepOK(q)
<1>1. CASE Progress(q)
  BY <1>1, ResolveIdentityStep, CreateSourceStep, UpdateSourceStep, DeleteSourceStep, SetFieldStep, IssueFeedTokenStep,
     ReadStep, SelectStep, AccountStep, LookUpStep, ExportStep, PreviewAccountsStep, PreviewSourcesStep, ImportStepStep
     DEF Progress
<1> QED
  BY <1>1, ReceiveStep, LoginStep, ResolveTokenStep, CloseGateStep, LapseStep, ImportStepStep

LEMMA TickKeeps == ASSUME WebIInv, Tick \/ UNCHANGED vars PROVE WebIInv'
<1>1. /\ (now' = now + 1 \/ now' = now) /\ limiter' = limiter /\ session' = session /\ guesses' = guesses
      /\ req' = req /\ tx' = tx
      /\ accounts' = accounts /\ lapsed' = lapsed /\ sources' = sources /\ token' = token /\ edits' = edits
  BY DEF Tick, dbVars, vars, sessionVars
<1>2. LimiterOK'
  BY <1>1, TickLimits DEF WebIInv, SessionsOK
<1>3. SessionsOK'
  BY <1>1 DEF WebIInv, SessionsOK, Open, Kind, Ask, HoldsSession
<1>4. TablesOK' /\ RequestsOK' /\ OnlyImportsHold' /\ RowsExclusive'
  BY <1>1 DEF WebIInv, TablesOK, RequestsOK, OnlyImportsHold, RowsExclusive, Importing, Ask, Kind
<1>5. ImportsOK'
  <2>1. \A r : BundleOf(r)' = BundleOf(r)
    BY <1>1 DEF BundleOf, Ask
  <2>2. ASSUME NEW r \in Requests, ImportOK(r) PROVE ImportOK(r)'
    <3>1. SourcesWritten(r)' = SourcesWritten(r) /\ AccountsWritten(r)' = AccountsWritten(r)
      BY <1>1, <2>1 DEF SourcesWritten, AccountsWritten
    <3>2. BundleOK(r)'
      BY <1>1, <2>1, <2>2 DEF ImportOK, BundleOK, Ask
    <3>3. RowsHeld(r)'
      BY <1>1, <2>1, <2>2, <3>1 DEF ImportOK, RowsHeld, WrittenRow, UnwrittenRow
    <3>4. RowsAsAsked(r)'
      BY <1>1, <2>1, <2>2, <3>1 DEF ImportOK, RowsAsAsked, AsAsked
    <3>5. AccountsHeld(r)' /\ StatesRead(r)'
      BY <1>1, <2>1, <2>2, <3>1 DEF ImportOK, AccountsHeld, StatesRead, Usable
    <3> QED
      BY <3>2, <3>3, <3>4, <3>5 DEF ImportOK
  <2> QED
    BY <1>1, <2>2 DEF WebIInv, ImportsOK, Importing
<1> QED
  BY <1>2, <1>3, <1>4, <1>5 DEF WebIInv

\* A restart ends every request that was received.
LEMMA RestartIs ==
    ASSUME WebIInv, Restart, NEW r \in Requests
    PROVE  /\ req[r].at \in {"new", "done"} => req'[r] = req[r]
           /\ req[r].at \notin {"new", "done"} => /\ req'[r].at = "done" /\ req'[r].reply = "lost"
           /\ req'[r].ask = req[r].ask /\ req'[r].at \in {"new", "done"} /\ ReqOK(req'[r])
<1>1. ReqOK(req[r])
  BY DEF WebIInv, RequestsOK
<1>2. CASE req[r].at \in {"new", "done"}
  BY <1>1, <1>2 DEF Restart
<1>3. CASE req[r].at \notin {"new", "done"}
  <2> DEFINE new == [req[r] EXCEPT !.at = "done", !.reply = "lost"]
  <2>1. req'[r] = new
    BY <1>3 DEF Restart
  <2>2. /\ new = [f \in ReqFields |-> new[f]] /\ new.at = "done" /\ new.reply = "lost" /\ new.ask = req[r].ask
        /\ new.result = req[r].result
    BY <1>1 DEF ReqOK, ReqFields
  <2> HIDE DEF new
  <2>3. ReqOK(new)
    BY <1>1, <2>2 DEF ReqOK, Steps, ImportSteps
  <2> QED
    BY <1>3, <2>1, <2>2, <2>3
<1> QED
  BY <1>2, <1>3

LEMMA RestartKeeps == ASSUME WebIInv, Restart PROVE WebIInv'
<1>1. /\ accounts' = accounts /\ lapsed' = lapsed /\ sources' = sources /\ token' = token /\ edits' = edits
      /\ now' = now /\ session' = session /\ tx' = [r \in Requests |-> NoTx]
  BY DEF Restart, dbVars, LimiterLost
<1>2. LimiterOK'
  <2>1. NoGuesses' /\ now' \in Nat
    BY <1>1 DEF Restart, LimiterLost, NoGuesses, WebIInv, SessionsOK
  <2>2. (now \in Nat /\ NoGuesses => LimiterOK)'
    BY FreshLimits, PTL
  <2> QED
    BY <2>1, <2>2
<1>3. TablesOK'
  BY <1>1 DEF WebIInv, TablesOK
<1>4. \A r \in Requests : Kind(r)' = Kind(r) /\ Ask(r)' = Ask(r)
  BY RestartIs DEF Kind, Ask
<1>5. RequestsOK'
  <2>1. req' = [r \in Requests |-> req'[r]]
    BY DEF Restart
  <2>2. \A r \in Requests : ReqOK(req'[r])
    BY RestartIs
  <2>3. ASSUME NEW r \in Requests, Ask(r)'.from # None PROVE Kind(Ask(r).from)' = "export"
    <3>1. Ask(r)'.from = Ask(r).from /\ Ask(r).from \in Requests /\ Kind(Ask(r).from) = "export"
      BY <1>4, <2>3, ReqFacts DEF WebIInv
    <3> DEFINE f == Ask(r).from
    <3>2. Kind(f)' = req'[Ask(r)'.from].ask.kind /\ req'[Ask(r).from].ask.kind = req[Ask(r).from].ask.kind
      BY <3>1, RestartIs DEF Kind
    <3> QED
      BY <3>1, <3>2 DEF Kind
  <2>4. tx' = [r \in Requests |-> tx'[r]] /\ \A r \in Requests : TxOK(tx'[r])
    BY <1>1, EmptyTx
  <2> QED
    BY <1>1, <2>1, <2>2, <2>3, <2>4 DEF RequestsOK, WebIInv
<1>6. \A r \in Requests : ~Importing(r)' /\ ~Open(r)' /\ tx'[r] = NoTx
  BY <1>1, RestartIs DEF Importing, ImportSteps, Open
<1>7. OnlyImportsHold' /\ RowsExclusive' /\ ImportsOK'
  BY <1>6, EmptyTx DEF OnlyImportsHold, RowsExclusive, ImportsOK
<1>8. SessionsOK'
  <2>1. ASSUME NEW c \in Requests \ {Boot}, session[c] # 0 PROVE Ask(c)'.right /\ req'[c].reply = "ok"
    <3>1. Ask(c).right /\ req[c].reply = "ok"
      BY <2>1 DEF WebIInv, SessionsOK
    <3>2. req[c].at = "done"
      BY <3>1, ReqFacts DEF WebIInv, None
    <3> QED
      BY <1>4, <3>1, <3>2, RestartIs
  <2> QED
    BY <1>1, <1>6, <2>1 DEF WebIInv, SessionsOK
<1> QED
  BY <1>2, <1>3, <1>5, <1>7, <1>8 DEF WebIInv

LEMMA InitKeeps == Init => WebIInv
<1> SUFFICES ASSUME Init PROVE WebIInv
  OBVIOUS
<1>1. PICK w \in Workloads :
        /\ accounts = w.accounts /\ lapsed = w.lapsed /\ sources = w.sources
        /\ token = [s \in Sources |-> None]
        /\ req = [r \in Requests |->
                     [ask |-> w.asks[r], reply |-> None, result |-> NoResult,
                      at |-> IF w.asks[r].kind = "idle" THEN "done" ELSE "new"]]
        /\ tx = [r \in Requests |-> NoTx] /\ edits = 0
        /\ SessionsInit(Requests \cup {Boot}, {Boot})
  BY DEF Init
<1>2. IsWorkload(w)
  BY WebAssumption
<1>3. TablesOK
  BY <1>1, <1>2 DEF IsWorkload, TablesOK
<1>4. ASSUME NEW r \in Requests
      PROVE  /\ ReqOK(req[r]) /\ req[r].ask = w.asks[r] /\ req[r].at \in {"new", "done"} /\ req[r].reply = None
             /\ tx[r] = NoTx
  <2> DEFINE at == IF w.asks[r].kind = "idle" THEN "done" ELSE "new"
             x == [ask |-> w.asks[r], reply |-> None, result |-> NoResult, at |-> at]
  <2>1. req[r] = x /\ tx[r] = NoTx
    BY <1>1
  <2>2. at \in {"new", "done"} /\ (at = "done" <=> w.asks[r].kind = "idle")
    OBVIOUS
  <2> HIDE DEF at
  <2>3. /\ x = [f \in ReqFields |-> x[f]] /\ x.ask = w.asks[r] /\ x.reply = None /\ x.result = NoResult /\ x.at = at
    BY DEF ReqFields
  <2> HIDE DEF x
  <2>4. NoResult = [f \in ResultFields |-> NoResult[f]]
    BY DEF NoResult, ResultFields
  <2>5. IsAsk(w.asks[r]) /\ None # "ok"
    BY <1>2 DEF IsWorkload, None
  <2>6. ReqOK(x)
    BY <2>2, <2>3, <2>4, <2>5 DEF ReqOK, Steps, ImportSteps
  <2> QED
    BY <2>1, <2>2, <2>3, <2>6
<1>5. RequestsOK
  <2>1. req = [r \in Requests |-> req[r]] /\ tx = [r \in Requests |-> tx[r]] /\ edits \in Nat
    BY <1>1
  <2>2. ASSUME NEW r \in Requests, Ask(r).from # None PROVE Kind(Ask(r).from) = "export"
    <3>1. IsAsk(w.asks[r]) /\ w.asks[r].from # None /\ w.asks[w.asks[r].from].kind = "export"
      BY <1>2, <1>4, <2>2 DEF IsWorkload, Ask
    <3>2. w.asks[r].from \in Requests
      BY <3>1 DEF IsAsk
    <3> QED
      BY <1>4, <3>1, <3>2 DEF Kind, Ask
  <2> QED
    BY <1>4, <2>1, <2>2, EmptyTx DEF RequestsOK
<1>6. OnlyImportsHold /\ RowsExclusive /\ ImportsOK
  BY <1>4, EmptyTx DEF OnlyImportsHold, RowsExclusive, ImportsOK, Importing, ImportSteps
<1>7. SessionsOK
  <2>1. now = 0 /\ session = [c \in Requests \cup {Boot} |-> IF c \in {Boot} THEN SESSION_TTL ELSE 0]
    BY <1>1 DEF SessionsInit
  <2> QED
    BY <1>4, <2>1, SessionTimesAssumption DEF SessionsOK, Open
<1>8. LimiterOK
  BY <1>1, FreshLimits DEF SessionsInit, NoGuesses
<1> QED
  BY <1>3, <1>5, <1>6, <1>7, <1>8 DEF WebIInv

LEMMA NextKeeps == WebIInv /\ [Next]_vars => WebIInv'
<1> SUFFICES ASSUME WebIInv, [Next]_vars PROVE WebIInv'
  OBVIOUS
<1>1. ASSUME NEW q \in Requests,
             \/ Receive(q) \/ Login(q) \/ ResolveToken(q) \/ Progress(q) \/ CloseGate(q) \/ Lapse(q) \/ StorageFails(q)
      PROVE  WebIInv'
  BY <1>1, RequestStep, StepKeeps
<1> QED
  BY <1>1, TickKeeps, RestartKeeps DEF Next

\* The inductive invariant: what open imports hold is explained by what is
\* committed, and nobody else writes it.
THEOREM WebAdminInductive == Spec => []WebIInv
  BY InitKeeps, NextKeeps, PTL DEF Spec

\* What a step may do, for the action properties.
LEMMA NextStep ==
    ASSUME WebIInv, Next
    PROVE  \/ \E q \in Requests : StepOK(q)
           \/ /\ sources' = sources /\ token' = token /\ edits' = edits
              /\ \A r \in Requests : req[r].reply = "ok" => req'[r] = req[r]
<1>1. CASE Tick
  BY <1>1 DEF Tick, dbVars
<1>2. CASE Restart
  <2>1. sources' = sources /\ token' = token /\ edits' = edits
    BY <1>2 DEF Restart, dbVars
  <2>2. ASSUME NEW r \in Requests, req[r].reply = "ok" PROVE req'[r] = req[r]
    <3>1. req[r].at = "done"
      BY <2>2, ReqFacts DEF WebIInv, None
    <3> QED
      BY <1>2, <3>1, RestartIs
  <2> QED
    BY <2>1, <2>2
<1>3. ASSUME NEW q \in Requests,
             \/ Receive(q) \/ Login(q) \/ ResolveToken(q) \/ Progress(q) \/ CloseGate(q) \/ Lapse(q) \/ StorageFails(q)
      PROVE  StepOK(q)
  BY <1>3, RequestStep
<1> QED
  BY <1>1, <1>2, <1>3 DEF Next

\* Tables and transactions keep their shape; whatever is guessed from one address,
\* over any windows and restarts, stays within the limiter's bound; and an article
\* is ascribed to the account that its own address or page names.
THEOREM WebAdminIsSound == Spec => []WebInv
<1>1. ASSUME WebIInv PROVE WebInv
  <2>1. TypeOK
    <3>1. \A a \in Accounts : accounts[a].state \in {"absent", "setup_required", "enrolled"}
      BY <1>1 DEF WebIInv, TablesOK, IsAccount
    <3>2. \A s \in Sources : sources[s].gate \in Gates /\ token[s] \in Requests \cup {None}
      BY <1>1 DEF WebIInv, TablesOK, IsSource
    <3>3. \A r \in Requests : req[r].at \in Steps /\ Kind(r) \in Kinds
      BY <1>1, ReqFacts DEF WebIInv
    <3>4. \A r \in Requests : req[r].at \in {"new", "done"} => tx[r] = NoTx
      BY <1>1, NoTxHeld DEF ImportSteps
    <3> QED
      BY <3>1, <3>2, <3>3, <3>4 DEF TypeOK
  <2>2. GuessesBounded
    BY <1>1, WindowsBound DEF WebIInv, SessionsOK
  <2> QED
    BY <2>1, <2>2, AlwaysAscribed DEF WebInv
<1> QED
  BY <1>1, WebAdminInductive, PTL

\* A row's revision follows what readers see of it, and risk control is lifted by
\* nobody but set_gate and the workers, whoever writes the row and however the
\* statements of imports interleave with it.
THEOREM SourcesAreKept == Spec => SourcesKept
<1>1. ASSUME WebIInv, [Next]_vars
      PROVE  [\A s \in Sources : sources[s].there /\ sources'[s].there =>
                 sources'[s].rev = sources[s].rev
                     + (IF FeedVisible(sources'[s]) # FeedVisible(sources[s]) THEN 1 ELSE 0)]_vars
  <2> SUFFICES ASSUME Next, NEW s \in Sources, sources[s].there, sources'[s].there PROVE OneAhead(sources[s], sources'[s])
    BY <1>1 DEF OneAhead
  <2>1. CASE \E q \in Requests : StepOK(q)
    BY <2>1 DEF StepOK, SourceStep
  <2>2. CASE sources' = sources
    BY <1>1, <2>2 DEF OneAhead, WebIInv, TablesOK, IsSource
  <2> QED
    BY <1>1, <2>1, <2>2, NextStep
<1>2. ASSUME WebIInv, [Next]_vars
      PROVE  [\A s \in Sources :
                 (sources[s].gate = "risk_controlled" /\ sources'[s].there /\ sources'[s].gate # "risk_controlled")
                     => \E r \in Requests : /\ Kind(r) \in {"set_gate", "close_gate"} /\ Ask(r).src = s
                                           /\ req[r].at # req'[r].at]_vars
  <2> SUFFICES ASSUME Next, NEW s \in Sources, sources[s].gate = "risk_controlled", sources'[s].there,
                      sources'[s].gate # "risk_controlled"
               PROVE  \E r \in Requests : /\ Kind(r) \in {"set_gate", "close_gate"} /\ Ask(r).src = s
                                          /\ req[r].at # req'[r].at
    BY <1>2
  <2>1. PICK q \in Requests : StepOK(q)
    BY <1>2, NextStep
  <2> QED
    BY <2>1 DEF StepOK, SourceStep, Acts
<1> QED
  BY <1>1, <1>2, WebAdminInductive, PTL DEF Spec, SourcesKept, RevisionFollowsFeed, RiskStaysClosed

\* A feed URL that stopped working never works again, and nothing is changed but
\* by a request with the cookie and the CSRF token of a login that succeeded.
THEOREM AccessIsKept == Spec => AccessKept
<1>1. ASSUME WebIInv, [Next]_vars PROVE [Retired \subseteq Retired']_vars
  <2> SUFFICES ASSUME Next, NEW r \in Retired PROVE r \in Retired'
    BY <1>1
  <2>1. /\ r \in Requests /\ Kind(r) = "issue_feed_token" /\ req[r].reply = "ok" /\ r # None
        /\ \A s \in Sources : token[s] = r => ~sources[s].there
    BY WebAssumption DEF Retired, Issued
  <2>2. \A s \in Sources : token[s] # r
    BY <1>1, <2>1 DEF WebIInv, TablesOK
  <2>3. CASE \E q \in Requests : StepOK(q)
    <3>1. PICK q \in Requests : StepOK(q)
      BY <2>3
    <3>2. r # q
      BY <1>1, <2>1, <3>1, ReqFacts DEF StepOK, Acts, WebIInv, None
    <3>3. req'[r] = req[r]
      BY <2>1, <3>1, <3>2 DEF StepOK, Acts
    <3>4. \A s \in Sources : token'[s] # r
      BY <2>1, <2>2, <3>1, <3>2 DEF StepOK, TokenStep
    <3> QED
      BY <2>1, <3>3, <3>4 DEF Retired, Issued, Kind, Ask
  <2>4. CASE token' = token /\ req'[r] = req[r]
    BY <2>1, <2>2, <2>4 DEF Retired, Issued, Kind, Ask
  <2> QED
    BY <1>1, <2>1, <2>3, <2>4, NextStep
<1>2. ASSUME WebIInv, [Next]_vars
      PROVE  [edits' # edits =>
                \E r \in Requests : /\ req[r].at \notin {"new", "done"} /\ req'[r].at = "done"
                                    /\ Ask(r).cookie = Ask(r).csrf
                                    /\ \/ Ask(r).cookie = Boot
                                       \/ /\ Ask(r).cookie \in Requests /\ Ask(Ask(r).cookie).right
                                          /\ req[Ask(r).cookie].reply = "ok"]_vars
  <2> SUFFICES ASSUME Next, edits' # edits
               PROVE  \E r \in Requests : /\ req[r].at \notin {"new", "done"} /\ req'[r].at = "done"
                                          /\ HoldsSession(r)
    BY <1>2 DEF HoldsSession
  <2>1. PICK q \in Requests : StepOK(q)
    BY <1>2, NextStep
  <2>2. Open(q) /\ req'[q].at = "done" /\ Kind(q) \in Mutations
    BY <2>1 DEF StepOK, EditStep
  <2>3. HoldsSession(q)
    BY <1>2, <2>2 DEF WebIInv, SessionsOK
  <2> QED
    BY <2>2, <2>3 DEF Open
<1> QED
  BY <1>1, <1>2, WebAdminInductive, PTL DEF Spec, AccessKept, RetiredTokenStaysRetired, OnlySessionsChange

\* What is committed with an import is its whole bundle and nothing else, whatever
\* other requests commit between its statements.
THEOREM ImportsAreWhole == Spec => ImportIsWhole
<1>1. ASSUME WebIInv, [Next]_vars PROVE [\A r \in Requests : Imports(r) => WholeBundle(r)]_vars
  <2> SUFFICES ASSUME Next, NEW r \in Requests, Imports(r) PROVE WholeBundle(r)
    BY <1>1
  <2>1. req[r].at = "commit" /\ req'[r].at = "done" /\ edits' > edits /\ edits \in Nat
    BY <1>1 DEF Imports, WebIInv, RequestsOK
  <2>2. PICK q \in Requests : StepOK(q)
    BY <1>1, <2>1, NextStep
  <2>3. r = q
    BY <2>1, <2>2 DEF StepOK, Acts
  <2>4. edits' # edits
    BY <2>1, <2>2 DEF StepOK
  <2> QED
    BY <2>1, <2>2, <2>3, <2>4 DEF StepOK, EditStep
<1> QED
  BY <1>1, WebAdminInductive, PTL DEF Spec, ImportIsWhole

-----------------------------------------------------------------------------
(* Bundles.  Rows that are valid and books that are distinct stay so, in   *)
(* the tables and in what every import sees of them.                       *)

View(r) == [s \in Sources |-> SourceSeen(r, s)]
BooksApart ==
    \A q, r \in Requests : q # r =>
        \A s \in DOMAIN tx[q].src, o \in DOMAIN tx[r].src : tx[q].src[s].book # tx[r].src[o].book
BooksOK ==
    /\ GoodRows(sources) /\ \A a \in Accounts : Named(accounts[a])
    /\ \A r \in Requests :
          /\ GoodRows(View(r)) /\ \A a \in DOMAIN tx[r].acc : Named(tx[r].acc[a])
          /\ Importing(r) => ValidBundle(BundleOf(r))
    /\ BooksApart

\* A request was sent when those it builds on were answered.
SentOK ==
    \A r \in Requests :
        /\ Open(r) \/ req[r].reply # None =>
              /\ \A w \in Requests : w \in Ask(r).after => req[w].at = "done"
              /\ Ask(r).from # None => req[Ask(r).from].reply = "ok"
        /\ Kind(r) = "preview" => req[r].at \in {"new", "act", "late", "done"}
        /\ Kind(r) = "export" => req[r].at \in {"new", "act", "done"}

\* No row but its own has the book of a record.
NoClash(b, rows) ==
    \A i \in DOMAIN b.sources, s \in Sources :
        s # b.sources[i].id /\ rows[s].there => rows[s].book # b.sources[i].book
Told(b, known, rows) == preview_sources(b, preview_accounts(b, known), known, rows)

\* Files and previews speak of the tables for as long as nothing is committed.
FilesOK ==
    \A e \in Requests : Kind(e) = "export" /\ req[e].reply = "ok" =>
        /\ ValidBundle(req[e].result.file) /\ req[e].result.base \in 0 .. edits
        /\ req[e].result.base = edits => NoClash(req[e].result.file, sources)
ToldOK ==
    \A p \in Requests : Kind(p) = "preview" =>
        /\ req[p].at = "late" =>
              /\ tx[p].i \in 0 .. edits
              /\ tx[p].i = edits => tx[p].known = Known /\ tx[p].counts = preview_accounts(BundleOf(p), Known)
        /\ req[p].reply = "ok" =>
              /\ req[p].result.base \in 0 .. edits
              /\ req[p].result.base = edits /\ req[p].result.steady =>
                    /\ req[p].result.counts = Told(BundleOf(p), Known, sources).counts
                    /\ req[p].result.conflicts = Told(BundleOf(p), Known, sources).conflicts

\* What r was told before it was sent is still so.
Undisturbed(r) ==
    \E w \in Requests :
        /\ req[w].reply = "ok" /\ req[w].result.base = edits
        /\ \/ Kind(w) = "preview" /\ w \in Ask(r).after
           \/ Kind(w) = "export" /\ w = Ask(r).from

\* Then an import finds every row as it was when it started.
AccountsDone(r) ==
    IF req[r].at \in {"accounts", "account_write"} THEN 1 .. tx[r].i - 1 ELSE DOMAIN BundleOf(r).accounts
SourcesDone(r) ==
    IF req[r].at \in {"lock", "write"} THEN 1 .. tx[r].i - 1
    ELSE IF req[r].at = "commit" THEN DOMAIN BundleOf(r).sources ELSE {}
Tally(ac, au, sc, su, kept, lost) ==
    [accounts_created |-> ac, accounts_updated |-> au, sources_created |-> sc, sources_updated |-> su,
     account_bindings_preserved |-> kept, account_bindings_cleared |-> lost]
Planned(b, known, rows, as, ss) ==
    LET new == {i \in as : b.accounts[i].id \notin known}
        there == {i \in ss : rows[b.sources[i].id].there}
        kept == {i \in ss : b.sources[i].account \in known \cup Ids(b.accounts)}
        bound == {i \in ss : b.sources[i].account # None}
    IN  Tally(Cardinality(new), Cardinality(as \ new), Cardinality(ss \ there), Cardinality(there),
              Cardinality(kept), Cardinality(bound \ kept))
AsPlanned(r) ==
    /\ tx[r].counts = Planned(BundleOf(r), Known, sources, AccountsDone(r), SourcesDone(r))
    /\ req[r].at = "accounts" => DOMAIN tx[r].acc = AccountsWritten(r)
    /\ req[r].at = "account_write" => DOMAIN tx[r].acc = AccountsWritten(r) \cup ({Record(r).id} \cap Known)
    /\ req[r].at = "states" => DOMAIN tx[r].acc = AccountsWritten(r)
    /\ req[r].at \in {"lock", "write", "commit"} => tx[r].known = Known \cup Ids(BundleOf(r).accounts)
    /\ req[r].at = "write" /\ sources[Record(r).id].there => Record(r).id \in DOMAIN tx[r].src
PlansOK == \A r \in Requests : Importing(r) /\ Undisturbed(r) => AsPlanned(r)

BundleInv == BooksOK /\ SentOK /\ FilesOK /\ ToldOK /\ PlansOK /\ BundlesAgree

StepOf(q) ==
    \/ Receive(q) \/ Login(q) \/ ResolveToken(q) \/ Progress(q) \/ CloseGate(q) \/ Lapse(q) \/ StorageFails(q)

\* new has no book that row has not.
Keeps(row, new) ==
    new.there => row.there /\ new.book = row.book /\ (ValidSource(row) => ValidSource(new))

LEMMA GoodKept ==
    ASSUME NEW rows, NEW new, GoodRows(rows), \A s \in Sources : Keeps(rows[s], new[s])
    PROVE  GoodRows(new)
  BY DEF GoodRows, Keeps

LEMMA ViewIs ==
    WebIInv => \A r \in Requests :
        /\ \A s \in DOMAIN tx[r].src : s \in Sources /\ View(r)[s] = tx[r].src[s] /\ tx[r].src[s].there
        /\ \A s \in Sources : s \notin DOMAIN tx[r].src => View(r)[s] = sources[s]
        /\ \A s \in Sources : View(r)[s] = SourceSeen(r, s)
        /\ tx[r].src = <<>> => DOMAIN tx[r].src = {}
<1> SUFFICES ASSUME WebIInv, NEW r \in Requests
             PROVE  /\ \A s \in DOMAIN tx[r].src : s \in Sources /\ View(r)[s] = tx[r].src[s] /\ tx[r].src[s].there
                    /\ \A s \in Sources : s \notin DOMAIN tx[r].src => View(r)[s] = sources[s]
                    /\ \A s \in Sources : View(r)[s] = SourceSeen(r, s)
                    /\ tx[r].src = <<>> => DOMAIN tx[r].src = {}
  OBVIOUS
<1>1. \A s \in DOMAIN tx[r].src : s \in Sources /\ tx[r].src[s].there
  <2>1. CASE Importing(r)
    BY <2>1 DEF WebIInv, ImportsOK, ImportOK, RowsHeld
  <2>2. CASE ~Importing(r)
    <3>1. tx[r].src = <<>>
      BY <2>2 DEF WebIInv, OnlyImportsHold
    <3> QED
      BY <3>1
  <2> QED
    BY <2>1, <2>2
<1>2. \A s \in Sources : View(r)[s] = SourceSeen(r, s)
  BY DEF View
<1>3. \A s \in Sources : s \notin DOMAIN tx[r].src => View(r)[s] = sources[s]
  BY <1>2 DEF SourceSeen
<1>4. \A s \in DOMAIN tx[r].src : View(r)[s] = tx[r].src[s]
  BY <1>1, <1>2 DEF SourceSeen
<1> QED
  BY <1>1, <1>2, <1>3, <1>4

HeldSeen ==
    \A r \in Requests : \A s \in DOMAIN tx[r].src : s \in Sources /\ View(r)[s] = tx[r].src[s] /\ tx[r].src[s].there

LEMMA HeldIsSeen == WebIInv => HeldSeen
  BY ViewIs DEF HeldSeen

\* The bundle of a request that imports stays, and was valid.
LEMMA BundleStays ==
    ASSUME WebIInv, NEW q \in Requests, Acts(q), NEW r \in Requests, Importing(r)
    PROVE  BundleOf(r)' = BundleOf(r)
  BY ActsKeeps DEF WebIInv, ImportsOK, ImportOK, BundleOK

\* A step of q does not concern what another request holds.
LEMMA OthersView ==
    ASSUME WebIInv, NEW q \in Requests, StepOK(q), NEW r \in Requests \ {q}
    PROVE  /\ tx'[r] = tx[r] /\ (Importing(r)' <=> Importing(r))
           /\ \A s \in DOMAIN tx[r].src : View(r)'[s] = View(r)[s]
           /\ \A s \in Sources : s \notin DOMAIN tx[r].src => View(r)'[s] = sources'[s] /\ View(r)[s] = sources[s]
<1>1. tx'[r] = tx[r] /\ req'[r] = req[r]
  BY DEF StepOK, TxStep, Acts
<1>2. Importing(r)' <=> Importing(r)
  BY <1>1 DEF Importing
<1>3. \A s \in DOMAIN tx[r].src : s \in Sources
  BY ViewIs
<1>4. \A s \in Sources : View(r)'[s] = SourceSeen(r, s)' /\ View(r)[s] = SourceSeen(r, s)
  BY DEF View
<1> QED
  BY <1>1, <1>2, <1>3, <1>4 DEF SourceSeen

\* What a step of q has to show: its own view, and that its books are its own.
LEMMA BooksNext ==
    ASSUME WebIInv, BooksOK, NEW q \in Requests, StepOK(q),
           GoodRows(sources'), \A a \in Accounts : Named(accounts'[a]),
           \A r \in Requests \ {q} : GoodRows(View(r)'),
           GoodRows(View(q)'), \A a \in DOMAIN tx'[q].acc : Named(tx'[q].acc[a]),
           Importing(q)' => ValidBundle(BundleOf(q)'),
           \A r \in Requests \ {q} : \A s \in DOMAIN tx'[q].src, o \in DOMAIN tx[r].src :
              tx'[q].src[s].book # tx[r].src[o].book
    PROVE  BooksOK'
<1>1. \A r \in Requests \ {q} : tx'[r] = tx[r]
  BY OthersView
<1>2. ASSUME NEW r \in Requests
      PROVE  /\ GoodRows(View(r)') /\ (\A a \in DOMAIN tx'[r].acc : Named(tx'[r].acc[a]))
             /\ (Importing(r)' => ValidBundle(BundleOf(r)'))
  <2>1. CASE r = q
    BY <2>1
  <2>2. CASE r # q
    <3>1. \A a \in DOMAIN tx[r].acc : Named(tx[r].acc[a])
      BY DEF BooksOK
    <3>2. ASSUME Importing(r)' PROVE ValidBundle(BundleOf(r)')
      <4>1. Importing(r)
        BY <2>2, <3>2, OthersView
      <4>2. BundleOf(r)' = BundleOf(r)
        BY <4>1, BundleStays DEF StepOK
      <4> QED
        BY <4>1, <4>2 DEF BooksOK
    <3> QED
      BY <1>1, <2>2, <3>1, <3>2
  <2> QED
    BY <2>1, <2>2
<1>3. BooksApart'
  <2> SUFFICES ASSUME NEW p \in Requests, NEW r \in Requests, p # r,
                      NEW s \in DOMAIN tx'[p].src, NEW o \in DOMAIN tx'[r].src
               PROVE  tx'[p].src[s].book # tx'[r].src[o].book
    BY DEF BooksApart
  <2>1. CASE p # q /\ r # q
    BY <1>1, <2>1 DEF BooksOK, BooksApart
  <2>2. CASE p = q
    BY <1>1, <2>2
  <2>3. CASE r = q
    BY <1>1, <2>3
  <2> QED
    BY <2>1, <2>2, <2>3
<1> QED
  BY <1>2, <1>3 DEF BooksOK

\* q holds nothing and gives no row a new book.
LEMMA BooksStay ==
    ASSUME WebIInv, BooksOK, NEW q \in Requests, StepOK(q), tx'[q].src = <<>>, tx'[q].acc = <<>>,
           \A s \in Sources : Keeps(sources[s], sources'[s]), \A a \in Accounts : Named(accounts'[a]),
           Importing(q)' => ValidBundle(BundleOf(q)')
    PROVE  BooksOK'
<1>1. GoodRows(sources')
  BY GoodKept DEF BooksOK
<1>2. ASSUME NEW r \in Requests \ {q} PROVE GoodRows(View(r)')
  <2>1. \A s \in Sources : View(r)'[s] = View(r)[s] \/ Keeps(View(r)[s], View(r)'[s])
    BY OthersView
  <2>2. \A s \in Sources : Keeps(View(r)[s], View(r)'[s])
    BY <2>1 DEF Keeps
  <2> QED
    BY <2>2, GoodKept DEF BooksOK
<1>3. GoodRows(View(q)')
  <2>1. \A s \in Sources : View(q)'[s] = sources'[s]
    BY DEF View, SourceSeen
  <2> QED
    BY <1>1, <2>1 DEF GoodRows
<1>4. DOMAIN tx'[q].src = {} /\ DOMAIN tx'[q].acc = {}
  OBVIOUS
<1> QED
  BY <1>1, <1>2, <1>3, <1>4, BooksNext

\* One row is given a book that nobody has or holds.
LEMMA BooksWritten ==
    ASSUME WebIInv, BooksOK, NEW q \in Requests, StepOK(q), tx[q] = NoTx, tx'[q].src = <<>>, tx'[q].acc = <<>>, ~Importing(q)',
           NEW s \in Sources, NEW row, sources' = [sources EXCEPT ![s] = row], accounts' = accounts,
           ValidSource(row), ~BookTaken(q, s, row.book),
           \A r \in Requests \ {q} : s \notin DOMAIN tx[r].src /\ row.book \notin BooksHeld(r)
    PROVE  BooksOK'
<1>1. sources'[s] = row /\ \A o \in Sources \ {s} : sources'[o] = sources[o]
  BY DEF WebIInv, TablesOK
<1>2. \A o \in Sources \ {s} : sources[o].there => sources[o].book # row.book
  <2>1. \A o \in Sources : SourceSeen(q, o) = sources[o]
    BY EmptyTx DEF SourceSeen
  <2> QED
    BY <2>1 DEF BookTaken
<1>3. GoodRows(sources')
  BY <1>1, <1>2 DEF BooksOK, GoodRows
<1>4. ASSUME NEW r \in Requests \ {q} PROVE GoodRows(View(r)')
  <2>1. \A o \in Sources \ {s} : View(r)'[o] = View(r)[o]
    BY <1>1, OthersView
  <2>2. View(r)'[s] = row
    BY <1>1, OthersView
  <2>3. \A o \in Sources \ {s} : View(r)[o].there => View(r)[o].book # row.book
    <3> SUFFICES ASSUME NEW o \in Sources \ {s}, View(r)[o].there, View(r)[o].book = row.book PROVE FALSE
      OBVIOUS
    <3>1. CASE o \in DOMAIN tx[r].src
      <4>1. tx[r].src[o].book \in BooksHeld(r)
        BY <3>1 DEF BooksHeld
      <4> QED
        BY <3>1, <4>1, ViewIs
    <3>2. CASE o \notin DOMAIN tx[r].src
      BY <1>2, <3>2, ViewIs
    <3> QED
      BY <3>1, <3>2
  <2>4. GoodRows(View(r))
    BY DEF BooksOK
  <2> QED
    BY <2>1, <2>2, <2>3, <2>4 DEF GoodRows
<1>5. GoodRows(View(q)')
  <2>1. \A o \in Sources : View(q)'[o] = sources'[o]
    BY DEF View, SourceSeen
  <2> QED
    BY <1>3, <2>1 DEF GoodRows
<1>6. DOMAIN tx'[q].src = {} /\ DOMAIN tx'[q].acc = {} /\ \A a \in Accounts : Named(accounts'[a])
  BY DEF BooksOK
<1> QED
  BY <1>3, <1>4, <1>5, <1>6, BooksNext

\* A statement of an import that writes no record.
LEMMA BooksLocked ==
    ASSUME WebIInv, BooksOK, NEW q \in Requests, StepOK(q), Importing(q), sources' = sources, accounts' = accounts,
           \A s \in Sources : Keeps(View(q)[s], View(q)'[s]), \A a \in DOMAIN tx'[q].acc : Named(tx'[q].acc[a])
    PROVE  BooksOK'
<1>1. GoodRows(View(q)')
  BY GoodKept DEF BooksOK
<1>2. ASSUME NEW r \in Requests \ {q} PROVE GoodRows(View(r)')
  <2>1. \A s \in Sources : View(r)'[s] = View(r)[s]
    BY OthersView
  <2> QED
    BY <2>1 DEF BooksOK, GoodRows
<1>3. ValidBundle(BundleOf(q)')
  BY BundleStays DEF BooksOK, StepOK
<1>4. ASSUME NEW r \in Requests \ {q}, NEW s \in DOMAIN tx'[q].src, NEW o \in DOMAIN tx[r].src
      PROVE  tx'[q].src[s].book # tx[r].src[o].book
  <2>1. WebIInv'
    BY StepKeeps
  <2>2. s \in Sources /\ View(q)'[s] = tx'[q].src[s] /\ tx'[q].src[s].there
    <3>1. (WebIInv => HeldSeen)'
      BY HeldIsSeen, PTL
    <3> QED
      BY <2>1, <3>1 DEF HeldSeen
  <2>3. View(q)[s].there /\ View(q)[s].book = tx'[q].src[s].book
    BY <2>2 DEF Keeps
  <2>4. CASE s \in DOMAIN tx[q].src
    BY <2>3, <2>4, ViewIs DEF BooksOK, BooksApart
  <2>5. CASE s \notin DOMAIN tx[q].src
    <3>1. s \notin DOMAIN tx[r].src
      BY <1>4 DEF StepOK, TxStep
    <3>2. View(r)[s] = View(q)[s] /\ View(r)[o] = tx[r].src[o] /\ tx[r].src[o].there /\ o \in Sources
      BY <2>2, <2>5, <3>1, ViewIs
    <3>3. GoodRows(View(r)) /\ s # o
      BY <3>1 DEF BooksOK
    <3> QED
      BY <2>2, <2>3, <3>2, <3>3 DEF GoodRows
  <2> QED
    BY <2>4, <2>5
<1> QED
  BY <1>1, <1>2, <1>3, <1>4, BooksNext DEF BooksOK

LEMMA ResumedKeeps == ASSUME NEW row, IsSource(row), row.there PROVE Keeps(row, ResumedSource(row))
<1>1. row = [f \in SourceFields |-> row[f]]
  BY DEF IsSource
<1>2. /\ ResumedSource(row).book = row.book /\ ResumedSource(row).look = row.look /\ ResumedSource(row).pace = row.pace
  BY <1>1 DEF ResumedSource, SourceFields, NoSource
<1> QED
  BY <1>2 DEF Keeps, ValidSource

\* A request that is not an import does not become one.
LEMMA NotImport ==
    ASSUME WebIInv, NEW q \in Requests, StepOK(q), Kind(q) # "import" \/ req'[q].at = "done"
    PROVE  ~Importing(q)' /\ tx'[q].src = <<>> /\ tx'[q].acc = <<>>
<1>1. req'[q].at \notin ImportSteps
  <2>1. ReqOK(req'[q]) /\ req'[q].ask.kind = Kind(q)
    BY DEF StepOK, Acts, SameAsk, Kind, Ask
  <2> QED
    BY <2>1 DEF ReqOK, ImportSteps
<1> QED
  BY <1>1 DEF Importing, StepOK, TxStep

LEMMA BooksQuiet ==
    ASSUME WebIInv, BooksOK, NEW q \in Requests, StepOK(q), Kind(q) # "import" \/ req'[q].at = "done",
           sources' = sources, accounts' = accounts
    PROVE  BooksOK'
<1>1. \A s \in Sources : Keeps(sources[s], sources'[s])
  BY DEF Keeps
<1>2. \A a \in Accounts : Named(accounts'[a])
  BY DEF BooksOK
<1> QED
  BY <1>1, <1>2, NotImport, BooksStay

\* Handlers that leave the tables of sources and accounts alone.
LEMMA BooksRead ==
    ASSUME WebIInv, BooksOK, NEW q \in Requests,
           \/ Login(q) \/ ResolveToken(q) \/ ResolveIdentity(q) \/ IssueFeedToken(q) \/ DeliverFeed(q)
           \/ GetSource(q) \/ GetAccount(q) \/ ListSyncRuns(q) \/ LookUpAccount(q) \/ Lapse(q)
           \/ ExportConfig(q) \/ PreviewAccounts(q) \/ PreviewSources(q) \/ SelectSource(q) \/ SelectAccount(q)
    PROVE  BooksOK'
<1>1. sources' = sources /\ accounts' = accounts
  BY DEF Login, ResolveToken, ResolveIdentity, IssueFeedToken, DeliverFeed, GetSource, GetAccount, ListSyncRuns,
         LookUpAccount, Lapse, ExportConfig, PreviewAccounts, PreviewSources, SelectSource, SelectAccount, Refused, dbVars
<1>2. Kind(q) # "import"
  <2>1. Kind(q) = "import" => req[q].at \in ImportSteps \cup {"new", "done"}
    BY ReqFacts DEF WebIInv
  <2> QED
    BY <2>1 DEF Login, ResolveToken, ResolveIdentity, IssueFeedToken, DeliverFeed, GetSource, GetAccount, ListSyncRuns,
         LookUpAccount, Lapse, ExportConfig, PreviewAccounts, PreviewSources, SelectSource, SelectAccount, At, ImportSteps
<1>3. StepOK(q)
  BY RequestStep DEF Progress
<1> QED
  BY <1>1, <1>2, <1>3, BooksQuiet

LEMMA BooksReceive == ASSUME WebIInv, BooksOK, NEW q \in Requests, Receive(q) PROVE BooksOK'
<1>1. sources' = sources /\ accounts' = accounts /\ Sendable(q) /\ StepOK(q) /\ tx' = tx
  BY RequestStep DEF Receive, dbVars
<1>2. Ask(q).from # None => req[Ask(q).from].at = "done"
  <2> SUFFICES ASSUME Ask(q).from # None PROVE req[Ask(q).from].at = "done"
    OBVIOUS
  <2>1. Ask(q).from \in Requests /\ req[Ask(q).from].reply = "ok"
    BY <1>1, ReqFacts DEF Sendable, WebIInv
  <2> QED
    BY <2>1, ReqFacts DEF WebIInv, None
<1>3. BundleOf(q)' = BundleOf(q)
  BY <1>1, <1>2, ActsKeeps DEF WebIInv, StepOK
<1>4. ASSUME Importing(q)' PROVE ValidBundle(BundleOf(q)')
  <2>1. Kind(q) = "import" /\ req'[q].at # "done"
    BY <1>1, <1>4, NotImport DEF Importing, ImportSteps
  <2>2. ~Malformed(q)
    <3>1. \A reply : ~Answer(q, reply)
      BY <2>1 DEF Answer, WebIInv, RequestsOK, ReqOK, ReqFields
    <3> QED
      BY <3>1 DEF Receive
  <2> QED
    BY <1>3, <2>1, <2>2 DEF Malformed
<1>5. tx'[q].src = <<>> /\ tx'[q].acc = <<>>
  <2>1. tx[q] = NoTx
    BY <1>1, NoTxHeld DEF Sendable, ImportSteps
  <2> QED
    BY <1>1, <2>1, EmptyTx
<1>6. \A s \in Sources : Keeps(sources[s], sources'[s])
  BY <1>1 DEF Keeps
<1>7. \A a \in Accounts : Named(accounts'[a])
  BY <1>1 DEF BooksOK
<1> QED
  BY <1>1, <1>4, <1>5, <1>6, <1>7, BooksStay

\* Handlers that write one row, and no book.
LEMMA BooksRow ==
    ASSUME WebIInv, BooksOK, NEW q \in Requests, DeleteSource(q) \/ SetEnabled(q) \/ SetGate(q) \/ CloseGate(q)
    PROVE  BooksOK'
<1> DEFINE s == Ask(q).src
<1>1. Kind(q) # "import" /\ accounts' = accounts
  BY DEF DeleteSource, SetEnabled, SetGate, SetField, CloseGate, At, Refused, dbVars
<1>2. StepOK(q) /\ s \in Sources /\ IsSource(sources[s]) /\ TablesOK
  BY RequestStep, ReqFacts DEF Progress, WebIInv, TablesOK
<1>3. \/ sources' = sources
      \/ \E row : /\ sources' = [sources EXCEPT ![s] = row] /\ sources[s].there
                  /\ \/ row = NoSource \/ row = [sources[s] EXCEPT !["enabled"] = Ask(q).on]
                     \/ row = [sources[s] EXCEPT !["gate"] = Ask(q).gate]
                     \/ row = [sources[s] EXCEPT !.gate = Ask(q).gate, !.held = FALSE]
  BY DEF DeleteSource, SetEnabled, SetGate, SetField, CloseGate, Refused, dbVars
<1>4. \A o \in Sources : Keeps(sources[o], sources'[o])
  <2>1. CASE sources' = sources
    BY <2>1 DEF Keeps
  <2>2. CASE sources' # sources
    <3>1. PICK row : /\ sources' = [sources EXCEPT ![s] = row] /\ sources[s].there
                     /\ \/ row = NoSource \/ row = [sources[s] EXCEPT !["enabled"] = Ask(q).on]
                        \/ row = [sources[s] EXCEPT !["gate"] = Ask(q).gate]
                        \/ row = [sources[s] EXCEPT !.gate = Ask(q).gate, !.held = FALSE]
      BY <1>3, <2>2
    <3>2. sources[s] = [f \in SourceFields |-> sources[s][f]]
      BY <1>2 DEF IsSource
    <3>3. row.there => row.book = sources[s].book /\ row.look = sources[s].look /\ row.pace = sources[s].pace
      <4>1. CASE row = NoSource
        BY <4>1, NoRow
      <4>2. CASE row # NoSource
        BY <3>1, <3>2, <4>2 DEF SourceFields, NoSource
      <4> QED
        BY <4>1, <4>2
    <3>4. sources'[s] = row /\ \A o \in Sources \ {s} : sources'[o] = sources[o]
      BY <1>2, <3>1 DEF TablesOK
    <3> QED
      BY <3>1, <3>3, <3>4 DEF Keeps, ValidSource
  <2> QED
    BY <2>1, <2>2
<1>5. \A a \in Accounts : Named(accounts'[a])
  BY <1>1 DEF BooksOK
<1> QED
  BY <1>1, <1>2, <1>4, <1>5, NotImport, BooksStay

\* Handlers that write an account, and resume its sources.
LEMMA BooksAccount ==
    ASSUME WebIInv, BooksOK, NEW q \in Requests,
           ProvisionAccount(q) \/ ReplaceAccount(q) \/ SetAccountEnabled(q) \/ DeleteAccount(q)
    PROVE  BooksOK'
<1> DEFINE a == Ask(q).acct
<1>1. Kind(q) # "import"
  BY DEF ProvisionAccount, ReplaceAccount, SetAccountEnabled, DeleteAccount, At
<1>2. StepOK(q) /\ a \in Accounts /\ IsAccount(accounts[a]) /\ TablesOK
  BY RequestStep, ReqFacts DEF Progress, WebIInv, TablesOK
<1>3. sources' = sources \/ sources' = SourcesResumed(q, a)
  BY DEF ProvisionAccount, ReplaceAccount, SetAccountEnabled, DeleteAccount, Refused, dbVars
<1>4. \/ accounts' = accounts
      \/ \E row : /\ accounts' = [accounts EXCEPT ![a] = row]
                  /\ \/ row = EnrolledRow \/ row = [EnrolledRow EXCEPT !.disabled = accounts[a].disabled] \/ row = NoAccount
                     \/ row = [accounts[a] EXCEPT !.disabled = ~Ask(q).on] /\ accounts[a].state # "absent"
  BY DEF ProvisionAccount, ReplaceAccount, SetAccountEnabled, DeleteAccount, Refused, dbVars
<1>5. \A x \in Accounts : Named(accounts'[x])
  <2>1. CASE accounts' = accounts
    BY <2>1 DEF BooksOK
  <2>2. CASE accounts' # accounts
    <3>1. PICK row :
             /\ accounts' = [accounts EXCEPT ![a] = row]
             /\ \/ row = EnrolledRow \/ row = [EnrolledRow EXCEPT !.disabled = accounts[a].disabled] \/ row = NoAccount
                \/ row = [accounts[a] EXCEPT !.disabled = ~Ask(q).on] /\ accounts[a].state # "absent"
      BY <1>4, <2>2
    <3>2. Named(row)
      <4>1. accounts[a] = [state |-> accounts[a].state, name |-> accounts[a].name, disabled |-> accounts[a].disabled]
            /\ Named(accounts[a])
        BY <1>2 DEF IsAccount, BooksOK
      <4>2. CASE row = EnrolledRow \/ row = [EnrolledRow EXCEPT !.disabled = accounts[a].disabled] \/ row = NoAccount
        BY <4>2 DEF Named, EnrolledRow, NoAccount, Blank
      <4>3. CASE row = [accounts[a] EXCEPT !.disabled = ~Ask(q).on]
        <5>1. row.state = accounts[a].state /\ row.name = accounts[a].name
          BY <4>1, <4>3
        <5> QED
          BY <4>1, <5>1 DEF Named
      <4> QED
        BY <3>1, <4>2, <4>3
    <3> QED
      BY <1>2, <3>1, <3>2 DEF TablesOK, BooksOK
  <2> QED
    BY <2>1, <2>2
<1>6. ASSUME NEW s \in Sources PROVE Keeps(sources[s], sources'[s])
  <2>1. CASE sources'[s] = sources[s]
    BY <2>1 DEF Keeps
  <2>2. CASE sources'[s] # sources[s]
    <3>1. sources'[s] = ResumedSource(sources[s]) /\ s \in ResumedBy(q, a)
      BY <1>3, <2>2 DEF SourcesResumed
    <3>2. SourceSeen(q, s).there
      BY <3>1 DEF ResumedBy, Gated
    <3>3. SourceSeen(q, s) = sources[s]
      <4>1. ~Importing(q)
        BY <1>1, ReqFacts DEF Importing, WebIInv
      <4>2. DOMAIN tx[q].src = {}
        BY <4>1 DEF WebIInv, OnlyImportsHold
      <4> QED
        BY <4>2 DEF SourceSeen
    <3>4. IsSource(sources[s])
      BY <1>2 DEF TablesOK
    <3> QED
      BY <3>1, <3>2, <3>3, <3>4, ResumedKeeps
  <2> QED
    BY <2>1, <2>2
<1> QED
  BY <1>1, <1>2, <1>5, <1>6, NotImport, BooksStay

\* Create and update: the index lets a row in when its book is nobody's.
LEMMA BooksEdit == ASSUME WebIInv, BooksOK, NEW q \in Requests, CreateSource(q) \/ UpdateSource(q) PROVE BooksOK'
<1> DEFINE s == Ask(q).src
<1>1. Kind(q) # "import" /\ accounts' = accounts /\ req[q].at \in {"act", "held"} /\ (req[q].at = "act" => Kind(q) # "preview")
  BY DEF CreateSource, UpdateSource, At, Refused, dbVars
<1>2. StepOK(q) /\ s \in Sources /\ TablesOK /\ IsSource(sources[s])
  BY RequestStep, ReqFacts DEF Progress, WebIInv, TablesOK
<1>3. CASE sources' = sources
  BY <1>1, <1>2, <1>3, BooksQuiet
<1>4. ASSUME sources' # sources
      PROVE  \E row : /\ sources' = [sources EXCEPT ![s] = row] /\ ValidSource(row) /\ ~BookTaken(q, s, row.book)
                      /\ \A r \in Requests \ {q} : s \notin DOMAIN tx[r].src
                      /\ row.book \in Needs(q).book /\ Waits(q) = {}
  <2>1. CASE CreateSource(q)
    <3> DEFINE row == NewSource(Ask(q).row)
    <3>1. /\ sources' = [sources EXCEPT ![s] = row] /\ ValidSource(Ask(q).row) /\ ~BookTaken(q, s, Ask(q).row.book)
          /\ Fresh(s) /\ Waits(q) = {}
      BY <1>4, <2>1 DEF CreateSource, At, Refused, dbVars
    <3>2. row.book = Ask(q).row.book /\ row.look = Ask(q).row.look /\ row.pace = Ask(q).row.pace
      BY DEF NewSource, SourceFields, NoSource, Portable
    <3>3. Needs(q).book = {Ask(q).row.book}
      BY <2>1 DEF CreateSource, At, Needs
    <3> HIDE DEF row
    <3>4. ValidSource(row)
      BY <3>1, <3>2 DEF ValidSource
    <3> QED
      BY <3>1, <3>2, <3>3, <3>4 DEF Fresh
  <2>2. CASE UpdateSource(q)
    <3> DEFINE row == apply_patch(sources[s], Ask(q).patch)
    <3>1. /\ sources' = [sources EXCEPT ![s] = row] /\ ValidSource(row) /\ ~BookTaken(q, s, row.book) /\ sources[s].there
          /\ Waits(q) = {}
      BY <1>4, <2>2 DEF UpdateSource, Refused, dbVars
    <3>2. Needs(q).book = {row.book} /\ Needs(q).src = {s} \cap There
      <4>1. req[q].at = "held" /\ Kind(q) = "update_source"
        BY <2>2 DEF UpdateSource
      <4>2. Needs(q) = [acc |-> {}, src |-> {s} \cap There, book |-> {row.book}]
        BY <4>1 DEF Needs
      <4> HIDE DEF row
      <4> QED
        BY <4>2
    <3>3. \A r \in Requests \ {q} : s \notin DOMAIN tx[r].src
      BY <1>2, <3>1, <3>2, Unlocked DEF There
    <3> HIDE DEF row
    <3> QED
      BY <3>1, <3>2, <3>3
  <2> QED
    BY <2>1, <2>2
<1>5. CASE sources' # sources
  <2>1. PICK row : /\ sources' = [sources EXCEPT ![s] = row] /\ ValidSource(row) /\ ~BookTaken(q, s, row.book)
                   /\ \A r \in Requests \ {q} : s \notin DOMAIN tx[r].src
                   /\ row.book \in Needs(q).book /\ Waits(q) = {}
    BY <1>4, <1>5
  <2>2. \A r \in Requests \ {q} : row.book \notin BooksHeld(r)
    BY <2>1 DEF Waits
  <2>3. tx[q] = NoTx
    BY <1>1, AtStep
  <2>4. tx'[q].src = <<>> /\ tx'[q].acc = <<>> /\ ~Importing(q)'
    BY <1>1, <1>2, NotImport
  <2> HIDE DEF s
  <2> QED
    BY <1>1, <1>2, <2>1, <2>2, <2>3, <2>4, BooksWritten
<1> QED
  BY <1>3, <1>5

\* The statements of an import that write no record of a source.
LEMMA BooksStatement ==
    ASSUME WebIInv, BooksOK, NEW q \in Requests,
           LockAccount(q) \/ WriteAccount(q) \/ ReadAccountStates(q) \/ LockSource(q)
    PROVE  BooksOK'
<1>1. StepOK(q) /\ sources' = sources /\ accounts' = accounts
  BY RequestStep DEF Progress, ImportStep, LockAccount, WriteAccount, ReadAccountStates, LockSource, Statement, Rollback, dbVars
<1>2. Importing(q) /\ Kind(q) = "import" /\ ImportOK(q) /\ TablesOK /\ TxOK(tx[q]) /\ tx = [r \in Requests |-> tx[r]]
  <2>1. req[q].at \in {"accounts", "account_write", "states", "lock"} /\ Kind(q) = "import"
    BY DEF LockAccount, WriteAccount, ReadAccountStates, LockSource, At
  <2>2. Importing(q)
    BY <2>1 DEF Importing, ImportSteps
  <2> QED
    BY <2>1, <2>2 DEF WebIInv, ImportsOK, RequestsOK
<1>3. ValidBundle(BundleOf(q)) /\ (\A a \in DOMAIN tx[q].acc : Named(tx[q].acc[a])) /\ (\A a \in Accounts : Named(accounts[a]))
  BY <1>2 DEF BooksOK
<1>4. \A s \in Sources : View(q)[s] = SourceSeen(q, s) /\ View(q)'[s] = SourceSeen(q, s)'
  BY DEF View
<1>5. ASSUME tx'[q].src = tx[q].src PROVE \A s \in Sources : Keeps(View(q)[s], View(q)'[s])
  BY <1>1, <1>4, <1>5 DEF SourceSeen, Keeps
<1>6. CASE LockAccount(q)
  <2> DEFINE a == Record(q).id
             acc == IF accounts[a].state = "absent" THEN tx[q].acc ELSE Put(tx[q].acc, a, AccountSeen(q, a))
  <2>1. tx' = [tx EXCEPT ![q] = [tx[q] EXCEPT !.acc = acc]] /\ req[q].at = "accounts"
    BY <1>6 DEF LockAccount, Statement, At
  <2>2. tx'[q].acc = acc /\ tx'[q].src = tx[q].src
    BY <1>2, <2>1 DEF TxOK, TxFields
  <2>3. a \in Accounts
    BY <1>2, <2>1 DEF ImportOK, BundleOK, IsBundle, Record
  <2>4. \A x \in DOMAIN acc : Named(acc[x])
    BY <1>3, <2>3 DEF Put, AccountSeen
  <2> HIDE DEF acc
  <2> QED
    BY <1>1, <1>2, <1>5, <2>2, <2>4, BooksLocked
<1>7. CASE WriteAccount(q)
  <2>1. CASE \E reply : Rollback(q, reply)
    <3>1. req'[q].at = "done"
      BY <2>1 DEF Rollback, WebIInv, RequestsOK, ReqOK, ReqFields
    <3> QED
      BY <1>1, <3>1, BooksQuiet
  <2>2. CASE ~\E reply : Rollback(q, reply)
    <3> DEFINE p == Record(q)
               S == ResumesOf(q)
               new == ImportedAccount(AccountSeen(q, p.id), p)
               acc == Put(tx[q].acc, p.id, new)
               src == [s \in DOMAIN tx[q].src \cup S |->
                         IF s \in S THEN ResumedSource(SourceSeen(q, s)) ELSE tx[q].src[s]]
    <3>1. tx'[q].acc = acc /\ tx'[q].src = src /\ req[q].at = "account_write"
      <4> DEFINE n == Len(BundleOf(q).accounts)
                 i == IF tx[q].i < n THEN tx[q].i + 1 ELSE 1
                 fields == IF p.id \in DOMAIN tx[q].acc THEN {"accounts_updated"} ELSE {"accounts_created"}
                 counts == Add(tx[q].counts, fields)
                 held == [tx[q] EXCEPT !.acc = acc, !.src = src, !.i = i, !.counts = counts]
      <4>1. tx' = [tx EXCEPT ![q] = held] /\ req[q].at = "account_write"
        BY <1>7, <2>2 DEF WriteAccount, Statement, At
      <4> HIDE DEF acc, src, i, counts
      <4> QED
        BY <1>2, <4>1 DEF TxOK, TxFields
    <3>2. p \in {BundleOf(q).accounts[j] : j \in DOMAIN BundleOf(q).accounts} /\ p.id \in Accounts
      BY <1>2, <3>1 DEF ImportOK, BundleOK, IsBundle, Record
    <3>3. p.name # Blank /\ p.enabled \in BOOLEAN
      BY <1>2, <1>3, <3>2 DEF ValidBundle, ImportOK, BundleOK, IsBundle
    <3>4. Named(new)
      <4>1. IsAccount(AccountSeen(q, p.id))
        BY <1>2, <3>2 DEF AccountSeen, TablesOK, ImportOK, AccountsHeld
      <4>2. new.name = p.name
        BY <3>3, <4>1, ImportedAccountIs
      <4> HIDE DEF new
      <4> QED
        BY <3>3, <4>2 DEF Named
    <3> HIDE DEF new, p
    <3>5. \A x \in DOMAIN acc : Named(acc[x])
      BY <1>3, <3>4 DEF Put
    <3>6. ASSUME NEW s \in Sources PROVE Keeps(View(q)[s], View(q)'[s])
      <4>1. CASE s \in S
        <5>1. SourceSeen(q, s).there /\ SourceSeen(q, s)' = ResumedSource(SourceSeen(q, s))
          BY <3>1, <4>1 DEF ResumesOf, Gated, SourceSeen
        <5>2. IsSource(SourceSeen(q, s))
          BY <1>2 DEF SourceSeen, TablesOK, ImportOK, RowsHeld
        <5> QED
          BY <1>4, <5>1, <5>2, ResumedKeeps
      <4>2. CASE s \notin S
        BY <1>1, <1>4, <3>1, <4>2 DEF SourceSeen, Keeps
      <4> QED
        BY <4>1, <4>2
    <3> HIDE DEF acc, src, S
    <3> QED
      BY <1>1, <1>2, <3>1, <3>5, <3>6, BooksLocked
  <2> QED
    BY <2>1, <2>2
<1>8. CASE ReadAccountStates(q)
  <2>1. tx'[q].acc = tx[q].acc /\ tx'[q].src = tx[q].src
    BY <1>2, <1>8 DEF ReadAccountStates, Statement, TxOK, TxFields
  <2> QED
    BY <1>1, <1>2, <1>3, <1>5, <2>1, BooksLocked
<1>9. CASE LockSource(q)
  <2> DEFINE s == Record(q).id
             src == IF SourceSeen(q, s).there THEN Put(tx[q].src, s, SourceSeen(q, s)) ELSE tx[q].src
  <2>1. tx'[q].acc = tx[q].acc /\ tx'[q].src = src
    BY <1>2, <1>9 DEF LockSource, Statement, TxOK, TxFields
  <2>2. ASSUME NEW o \in Sources PROVE Keeps(View(q)[o], View(q)'[o])
    <3>1. SourceSeen(q, o)' = SourceSeen(q, o)
      BY <1>1, <2>1 DEF SourceSeen, Put
    <3> QED
      BY <1>4, <3>1 DEF Keeps
  <2> QED
    BY <1>1, <1>2, <1>3, <2>1, <2>2, BooksLocked
<1> QED
  BY <1>6, <1>7, <1>8, <1>9

\* The record of a source is written when its book is nobody's.
LEMMA BooksWriteSource == ASSUME WebIInv, BooksOK, NEW q \in Requests, WriteSource(q) PROVE BooksOK'
<1> DEFINE p == Record(q)
           new == ImportedSource(SourceSeen(q, p.id), p, tx[q].known, tx[q].usable)
<1>1. StepOK(q) /\ sources' = sources /\ accounts' = accounts /\ At(q, "write", {"import"})
  BY RequestStep DEF Progress, ImportStep, WriteSource, Statement, Rollback, dbVars
<1>2. /\ Importing(q) /\ Kind(q) = "import" /\ ImportOK(q) /\ TablesOK /\ TxOK(tx[q]) /\ tx = [r \in Requests |-> tx[r]]
      /\ req[q].at = "write" /\ Waits(q) = {}
  BY <1>1, ImportFacts DEF Importing, ImportSteps, RequestsOK
<1>3. CASE \E reply : Rollback(q, reply)
  <2>1. req'[q].at = "done"
    BY <1>3 DEF Rollback, WebIInv, RequestsOK, ReqOK, ReqFields
  <2> QED
    BY <1>1, <2>1, BooksQuiet
<1>4. CASE ~\E reply : Rollback(q, reply)
  <2>1. tx'[q].src = Put(tx[q].src, p.id, new) /\ tx'[q].acc = tx[q].acc /\ ~BookTaken(q, p.id, p.book)
    <3> DEFINE n == Len(BundleOf(q).sources)
               i == IF tx[q].i < n THEN tx[q].i + 1 ELSE 1
               fields == {IF p.id \in DOMAIN tx[q].src THEN "sources_updated" ELSE "sources_created"}
                            \cup (IF p.account \in tx[q].known THEN {"account_bindings_preserved"}
                                  ELSE IF p.account # None THEN {"account_bindings_cleared"} ELSE {})
               counts == Add(tx[q].counts, fields)
               src == Put(tx[q].src, p.id, new)
               held == [tx[q] EXCEPT !.src = src, !.i = i, !.counts = counts]
    <3>1. tx' = [tx EXCEPT ![q] = held] /\ ~BookTaken(q, p.id, p.book)
      BY <1>4 DEF WriteSource, Statement
    <3> HIDE DEF src, i, counts
    <3>2. tx'[q].src = src /\ tx'[q].acc = tx[q].acc
      BY <1>2, <3>1 DEF TxOK, TxFields
    <3> QED
      BY <3>1, <3>2 DEF src
  <2>2. p \in {BundleOf(q).sources[j] : j \in DOMAIN BundleOf(q).sources} /\ p.id \in Sources /\ DOMAIN p = Portable \cup {"id"}
    BY <1>2 DEF ImportOK, BundleOK, IsBundle, Record
  <2>3. ValidSource(p)
    BY <1>2, <2>2 DEF BooksOK, ValidBundle
  <2>4. p.book \in Needs(q).book
    BY <1>2 DEF Needs
  <2> HIDE DEF p
  <2>5. IsSource(SourceSeen(q, p.id))
    BY <1>2, <2>2 DEF SourceSeen, TablesOK, ImportOK, RowsHeld
  <2>6. new.there /\ new.book = p.book /\ new.look = p.look /\ new.pace = p.pace
    BY <2>2, <2>5, ImportedRow DEF RowImported, Portable
  <2> HIDE DEF new
  <2>7. ValidSource(new)
    BY <2>3, <2>6 DEF ValidSource
  <2>8. View(q)'[p.id] = new /\ \A o \in Sources \ {p.id} : View(q)'[o] = View(q)[o] /\ View(q)[o] = SourceSeen(q, o)
    BY <1>1, <2>1, <2>2 DEF View, SourceSeen, Put
  <2>9. GoodRows(View(q)')
    <3>1. \A o \in Sources \ {p.id} : View(q)[o].there => View(q)[o].book # new.book
      BY <2>1, <2>6, <2>8 DEF BookTaken
    <3>2. GoodRows(View(q))
      BY DEF BooksOK
    <3> QED
      BY <2>2, <2>7, <2>8, <3>1, <3>2 DEF GoodRows
  <2>10. ASSUME NEW r \in Requests \ {q} PROVE GoodRows(View(r)')
    <3>1. \A s \in Sources : View(r)'[s] = View(r)[s]
      BY <1>1, OthersView
    <3> QED
      BY <3>1 DEF BooksOK, GoodRows
  <2>11. ASSUME NEW r \in Requests \ {q}, NEW s \in DOMAIN tx'[q].src, NEW o \in DOMAIN tx[r].src
         PROVE  tx'[q].src[s].book # tx[r].src[o].book
    <3>1. CASE s = p.id
      <4>1. tx[r].src[o].book \in BooksHeld(r) /\ p.book \notin BooksHeld(r)
        BY <1>2, <2>4 DEF BooksHeld, Waits
      <4> QED
        BY <2>1, <2>6, <3>1, <4>1 DEF Put
    <3>2. CASE s # p.id
      <4>1. s \in DOMAIN tx[q].src /\ tx'[q].src[s] = tx[q].src[s]
        BY <2>1, <3>2 DEF Put
      <4> QED
        BY <4>1 DEF BooksOK, BooksApart
    <3> QED
      BY <3>1, <3>2
  <2>12. ValidBundle(BundleOf(q)') /\ \A a \in DOMAIN tx'[q].acc : Named(tx'[q].acc[a])
    BY <1>1, <1>2, <2>1, BundleStays DEF BooksOK, StepOK
  <2> QED
    BY <1>1, <2>9, <2>10, <2>11, <2>12, BooksNext DEF BooksOK
<1> QED
  BY <1>3, <1>4

\* A commit shows every other import the books of this one.
LEMMA BooksCommit == ASSUME WebIInv, BooksOK, NEW q \in Requests, NEW reply, CommitImport(q, reply) PROVE BooksOK'
<1>1. StepOK(q) /\ req'[q].at = "done"
  <2>1. req'[q].at = "done"
    BY DEF CommitImport, WebIInv, RequestsOK, ReqOK, ReqFields
  <2> QED
    BY <2>1, CommitImportStep
<1>2. ~Importing(q)' /\ tx'[q].src = <<>> /\ tx'[q].acc = <<>>
  BY <1>1, NotImport
<1>3. (\A s \in Sources : sources'[s] = View(q)[s]) /\ \A a \in Accounts : accounts'[a] = AccountSeen(q, a)
  BY DEF CommitImport, View
<1>4. GoodRows(View(q)) /\ \A a \in Accounts : Named(AccountSeen(q, a))
  BY DEF BooksOK, AccountSeen
<1>5. GoodRows(sources')
  BY <1>3, <1>4 DEF GoodRows
<1>6. GoodRows(View(q)')
  <2>1. \A s \in Sources : View(q)'[s] = sources'[s]
    BY <1>2 DEF View, SourceSeen
  <2> QED
    BY <1>5, <2>1 DEF GoodRows
<1>7. ASSUME NEW r \in Requests \ {q} PROVE GoodRows(View(r)')
  <2>1. /\ \A s \in DOMAIN tx[r].src : View(r)'[s] = View(r)[s] /\ View(r)[s] = tx[r].src[s] /\ s \in Sources
        /\ \A s \in Sources : s \notin DOMAIN tx[r].src => View(r)'[s] = View(q)[s] /\ View(r)[s] = sources[s]
        /\ \A s \in DOMAIN tx[q].src : View(q)[s] = tx[q].src[s]
        /\ \A s \in Sources : s \notin DOMAIN tx[q].src => View(q)[s] = sources[s]
    BY <1>1, <1>3, OthersView, ViewIs
  <2>2. GoodRows(View(r))
    BY DEF BooksOK
  <2>3. \A s \in Sources : View(r)'[s].there => ValidSource(View(r)'[s])
    BY <1>4, <2>1, <2>2 DEF GoodRows
  <2>4. ASSUME NEW s \in DOMAIN tx[r].src, NEW o \in Sources, o \notin DOMAIN tx[r].src,
               View(r)'[s].there, View(r)'[o].there
        PROVE  View(r)'[s].book # View(r)'[o].book
    <3>1. CASE o \in DOMAIN tx[q].src
      BY <2>1, <2>4, <3>1 DEF BooksOK, BooksApart
    <3>2. CASE o \notin DOMAIN tx[q].src
      <4>1. View(r)'[o] = View(r)[o]
        BY <2>1, <2>4, <3>2
      <4> QED
        BY <2>1, <2>2, <2>4, <4>1 DEF GoodRows
    <3> QED
      BY <3>1, <3>2
  <2>5. ASSUME NEW s \in Sources, NEW o \in Sources, View(r)'[s].there, View(r)'[o].there, View(r)'[s].book = View(r)'[o].book
        PROVE  s = o
    <3>1. CASE s \in DOMAIN tx[r].src /\ o \in DOMAIN tx[r].src
      BY <2>1, <2>2, <2>5, <3>1 DEF GoodRows
    <3>2. CASE s \notin DOMAIN tx[r].src /\ o \notin DOMAIN tx[r].src
      BY <1>4, <2>1, <2>5, <3>2 DEF GoodRows
    <3> QED
      BY <2>4, <2>5, <3>1, <3>2
  <2> QED
    BY <2>3, <2>5 DEF GoodRows
<1>8. DOMAIN tx'[q].src = {} /\ DOMAIN tx'[q].acc = {}
  BY <1>2
<1>9. \A a \in Accounts : Named(accounts'[a])
  BY <1>3, <1>4
<1> QED
  BY <1>1, <1>2, <1>5, <1>6, <1>7, <1>8, <1>9, BooksNext

LEMMA BooksRollback ==
    ASSUME WebIInv, BooksOK, NEW q \in Requests, StepOK(q), NEW reply, Rollback(q, reply) PROVE BooksOK'
<1>1. req'[q].at = "done" /\ sources' = sources /\ accounts' = accounts
  BY DEF Rollback, WebIInv, RequestsOK, ReqOK, ReqFields, dbVars
<1> QED
  BY <1>1, BooksQuiet

LEMMA BooksStep == ASSUME WebIInv, BooksOK, NEW q \in Requests, StepOf(q) PROVE BooksOK'
<1>1. StepOK(q)
  BY RequestStep DEF StepOf
<1>2. CASE \E reply : Rollback(q, reply) \/ CommitImport(q, reply)
  BY <1>1, <1>2, BooksRollback, BooksCommit
<1>3. CASE Progress(q)
  BY <1>2, <1>3, BooksRead, BooksRow, BooksAccount, BooksEdit, BooksStatement, BooksWriteSource
     DEF Progress, ImportStep, DeadlockVictim
<1> QED
  BY <1>2, <1>3, BooksReceive, BooksRead, BooksRow DEF StepOf, StorageFails

-----------------------------------------------------------------------------
(* What previews and exports said. *)

\* No row comes, goes or takes another book, and no account changes.
Calm ==
    /\ edits' = edits /\ accounts' = accounts
    /\ \A s \in Sources : sources'[s].there = sources[s].there /\ sources'[s].book = sources[s].book

LEMMA CalmIs ==
    ASSUME TablesOK, edits' = edits, accounts' = accounts, sources' = sources PROVE Calm
  BY DEF Calm

\* A step changes nothing that was told, or is counted as an edit.
LEMMA StepFate == ASSUME WebIInv, NEW q \in Requests, StepOf(q) PROVE Calm \/ edits' = edits + 1
<1>1. CASE CloseGate(q)
  <2> DEFINE s == Ask(q).src
             row == [sources[s] EXCEPT !.gate = Ask(q).gate, !.held = FALSE]
  <2>1. edits' = edits /\ accounts' = accounts
    BY <1>1 DEF CloseGate
  <2>2. CASE sources' = sources
    BY <2>1, <2>2, CalmIs DEF WebIInv
  <2>3. CASE sources' # sources
    <3>1. sources' = [sources EXCEPT ![s] = row]
      BY <1>1, <2>3 DEF CloseGate
    <3>2. s \in Sources /\ TablesOK
      BY ReqFacts DEF WebIInv
    <3>3. sources[s] = [f \in SourceFields |-> sources[s][f]]
      BY <3>2 DEF TablesOK, IsSource
    <3>4. row.there = sources[s].there /\ row.book = sources[s].book
      BY <3>3 DEF SourceFields, NoSource
    <3> HIDE DEF row
    <3>5. sources'[s] = row /\ \A o \in Sources \ {s} : sources'[o] = sources[o]
      BY <3>1, <3>2 DEF TablesOK
    <3> QED
      BY <2>1, <3>4, <3>5 DEF Calm
  <2> QED
    BY <2>2, <2>3
<1>2. CASE edits' = edits /\ accounts' = accounts /\ sources' = sources
  BY <1>2, CalmIs DEF WebIInv
<1>3. CASE \E reply : CommitImport(q, reply)
  BY <1>3 DEF CommitImport
<1>4. CASE \E reply : Rollback(q, reply)
  BY <1>2, <1>4 DEF Rollback, dbVars
<1>5. CASE \E at, held : Statement(q, at, held)
  BY <1>2, <1>5 DEF Statement, dbVars
<1>6. CASE \E reply : Refused(q, reply)
  BY <1>2, <1>6 DEF Refused, dbVars
<1>7. CASE Committed(q)
  BY <1>7 DEF Committed
<1>8. CASE ImportStep(q)
  BY <1>3, <1>4, <1>5, <1>8
     DEF ImportStep, LockAccount, WriteAccount, ReadAccountStates, LockSource, WriteSource
<1>9. CASE Receive(q) \/ Login(q) \/ Lapse(q)
  BY <1>2, <1>9 DEF Receive, Login, Lapse, dbVars
<1>10. CASE ResolveToken(q) \/ ResolveIdentity(q) \/ LookUpAccount(q) \/ ExportConfig(q) \/ PreviewAccounts(q) \/ PreviewSources(q)
  BY <1>2, <1>6, <1>10 DEF ResolveToken, ResolveIdentity, LookUpAccount, ExportConfig, PreviewAccounts, PreviewSources, dbVars
<1>11. CASE CreateSource(q) \/ UpdateSource(q) \/ DeleteSource(q) \/ SetEnabled(q) \/ SetGate(q) \/ IssueFeedToken(q)
  BY <1>6, <1>7, <1>11 DEF CreateSource, UpdateSource, DeleteSource, SetEnabled, SetGate, SetField, IssueFeedToken
<1>12. CASE ProvisionAccount(q) \/ ReplaceAccount(q) \/ SetAccountEnabled(q) \/ DeleteAccount(q)
  BY <1>6, <1>7, <1>12 DEF ProvisionAccount, ReplaceAccount, SetAccountEnabled, DeleteAccount
<1>13. CASE GetSource(q) \/ GetAccount(q) \/ ListSyncRuns(q) \/ DeliverFeed(q)
  BY <1>6, <1>13 DEF GetSource, GetAccount, ListSyncRuns, DeliverFeed
<1>14. CASE StorageFails(q) \/ DeadlockVictim(q)
  BY <1>3, <1>4, <1>14 DEF StorageFails, DeadlockVictim
<1>15. CASE SelectSource(q) \/ SelectAccount(q)
  BY <1>2, <1>6, <1>15 DEF SelectSource, SelectAccount, dbVars
<1> QED
  BY <1>1, <1>8, <1>9, <1>10, <1>11, <1>12, <1>13, <1>14, <1>15 DEF StepOf, Progress

\* Which steps the requests about bundles take.
LEMMA StepKinds ==
    ASSUME WebIInv, SentOK, NEW q \in Requests, StepOf(q)
    PROVE  /\ req[q].at = "new" => Sendable(q)
           /\ Kind(q) = "preview" => Receive(q) \/ PreviewAccounts(q) \/ PreviewSources(q) \/ StorageFails(q)
           /\ Kind(q) = "export" => Receive(q) \/ ExportConfig(q) \/ StorageFails(q)
           /\ Kind(q) = "import" => Receive(q) \/ ImportStep(q) \/ DeadlockVictim(q) \/ StorageFails(q)
<1> USE DEF At
<1>1. CASE Receive(q)
  BY <1>1 DEF Receive
<1>2. CASE Login(q) \/ ResolveToken(q) \/ CloseGate(q) \/ Lapse(q)
  BY <1>2 DEF Login, ResolveToken, CloseGate, Lapse
<1>3. CASE StorageFails(q)
  BY <1>3 DEF StorageFails
<1>4. CASE ImportStep(q) \/ ExportConfig(q) \/ PreviewAccounts(q) \/ PreviewSources(q)
  BY <1>4 DEF ImportStep, LockAccount, WriteAccount, ReadAccountStates, LockSource, WriteSource, CommitImport,
              ExportConfig, PreviewAccounts, PreviewSources
<1>5. CASE ResolveIdentity(q) \/ LookUpAccount(q)
  <2>1. req[q].at \in {"resolve", "load"}
    BY <1>5 DEF ResolveIdentity, LookUpAccount
  <2>2. Kind(q) = "import" => req[q].at \in ImportSteps \cup {"new", "done"}
    BY ReqFacts DEF WebIInv
  <2> QED
    BY <2>1, <2>2 DEF SentOK, ImportSteps
<1>6. CASE CreateSource(q) \/ UpdateSource(q) \/ DeleteSource(q) \/ SetEnabled(q) \/ SetGate(q) \/ IssueFeedToken(q)
             \/ DeliverFeed(q) \/ GetSource(q) \/ GetAccount(q) \/ ListSyncRuns(q) \/ ProvisionAccount(q)
             \/ ReplaceAccount(q) \/ SetAccountEnabled(q) \/ DeleteAccount(q) \/ SelectSource(q) \/ SelectAccount(q)
  BY <1>6 DEF CreateSource, UpdateSource, DeleteSource, SetEnabled, SetGate, SetField, IssueFeedToken, DeliverFeed,
              GetSource, GetAccount, ListSyncRuns, ProvisionAccount, ReplaceAccount, SetAccountEnabled, DeleteAccount,
              SelectSource, SelectAccount
<1>7. CASE DeadlockVictim(q)
  <2>1. Waits(q) # {} /\ req[q].at # "new"
    BY <1>7 DEF DeadlockVictim, Deadlocked
  <2>2. Kind(q) \in {"preview", "export"} => Needs(q) = [acc |-> {}, src |-> {}, book |-> {}]
    <3>1. Kind(q) \in {"preview", "export"} => req[q].at \in {"new", "act", "late", "done"}
      BY DEF SentOK
    <3> QED
      BY <3>1 DEF Needs
  <2>3. Kind(q) \notin {"preview", "export"}
    BY <2>1, <2>2 DEF Waits
  <2> QED
    BY <1>7, <2>1, <2>3
<1> QED
  BY <1>1, <1>2, <1>3, <1>4, <1>5, <1>6, <1>7 DEF StepOf, Progress

\* A request that is answered was sent after those it builds on.
LEMMA SentBefore ==
    ASSUME WebIInv, SentOK, NEW q \in Requests, StepOf(q), StepOK(q)
    PROVE  /\ \A w \in Requests : w \in Ask(q).after => req[w].at = "done"
           /\ Ask(q).from # None => req[Ask(q).from].reply = "ok"
<1>1. CASE req[q].at = "new"
  BY <1>1, StepKinds DEF Sendable
<1>2. CASE req[q].at # "new"
  <2>1. Open(q)
    BY <1>2 DEF StepOK, Acts, Open
  <2> QED
    BY <2>1 DEF SentOK
<1> QED
  BY <1>1, <1>2

LEMMA RepliedIsDone == ASSUME WebIInv, NEW r \in Requests, req[r].reply = "ok" PROVE req[r].at = "done"
  BY ReqFacts DEF WebIInv, None

\* A bundle that was read stays.
LEMMA BundleKept ==
    ASSUME WebIInv, SentOK, NEW q \in Requests, StepOf(q), StepOK(q), NEW r \in Requests,
           r = q \/ Open(r) \/ req[r].reply # None
    PROVE  BundleOf(r)' = BundleOf(r) /\ (Ask(r).from # None => req[Ask(r).from].reply = "ok")
<1>1. Ask(r).from # None => req[Ask(r).from].reply = "ok" /\ Ask(r).from \in Requests
  BY SentBefore, ReqFacts DEF SentOK, WebIInv
<1>2. Ask(r).from # None => req[Ask(r).from].at = "done"
  BY <1>1, RepliedIsDone
<1> QED
  BY <1>1, <1>2, ActsKeeps DEF WebIInv, StepOK

LEMMA ReceiveIs ==
    ASSUME WebIInv, NEW q \in Requests, Receive(q), Kind(q) \in {"preview", "export", "import"}
    PROVE  /\ tx' = tx /\ req[q].at = "new"
           /\ \/ req'[q].at = "done" /\ req'[q].reply \notin {"ok", "conflict"}
              \/ req'[q].at = FirstStep(q) /\ req'[q].reply = None
<1>1. ReqOK(req[q]) /\ req = [r \in Requests |-> req[r]] /\ req[q].at = "new" /\ tx' = tx
  BY DEF WebIInv, RequestsOK, Receive, Sendable
<1>2. Verdict(q) = "ok" \/ Verdict(q) \notin {"ok", "conflict"}
  BY DEF Verdict, auth_error_response, Mutations, Reads, Pages
<1>3. ASSUME NEW reply, reply \notin {"ok", "conflict"}, Answer(q, reply)
      PROVE  req'[q].at = "done" /\ req'[q].reply \notin {"ok", "conflict"}
  BY <1>1, <1>3 DEF Answer, ReqOK, ReqFields
<1>4. ASSUME Move(q, FirstStep(q)) PROVE req'[q].at = FirstStep(q) /\ req'[q].reply = None
  BY <1>1, <1>4 DEF Move, ReqOK, ReqFields
<1>5. \/ \E reply : reply \notin {"ok", "conflict"} /\ Answer(q, reply)
      \/ Move(q, FirstStep(q))
  BY <1>2 DEF Receive
<1> QED
  BY <1>1, <1>3, <1>4, <1>5

LEMMA SentStep == ASSUME WebIInv, SentOK, NEW q \in Requests, StepOf(q) PROVE SentOK'
<1>1. StepOK(q)
  BY RequestStep DEF StepOf
<1>2. \A w \in Requests : req[w].at = "done" => req'[w] = req[w]
  BY <1>1 DEF StepOK, Acts
<1>3. \A r \in Requests : Kind(r)' = Kind(r) /\ Ask(r)'.after = Ask(r).after /\ Ask(r)'.from = Ask(r).from
  BY <1>1, ActsKeeps DEF StepOK, WebIInv, SameAsk
<1>4. ASSUME NEW r \in Requests, Open(r)' \/ req'[r].reply # None
      PROVE  /\ \A w \in Requests : w \in Ask(r)'.after => req'[w].at = "done"
             /\ Ask(r)'.from # None => req'[Ask(r)'.from].reply = "ok"
  <2>1. /\ \A w \in Requests : w \in Ask(r).after => req[w].at = "done"
        /\ Ask(r).from # None => req[Ask(r).from].reply = "ok"
    <3>1. CASE r = q
      BY <1>1, <3>1, SentBefore
    <3>2. CASE r # q
      <4>1. Open(r) \/ req[r].reply # None
        BY <1>1, <1>4, <3>2 DEF StepOK, Acts, Open
      <4> QED
        BY <4>1 DEF SentOK
    <3> QED
      BY <3>1, <3>2
  <2>2. Ask(r).from # None => Ask(r).from \in Requests
    BY ReqFacts DEF WebIInv
  <2> QED
    BY <1>2, <1>3, <2>1, <2>2, RepliedIsDone
<1>5. ASSUME NEW r \in Requests
      PROVE  /\ Kind(r) = "preview" => req'[r].at \in {"new", "act", "late", "done"}
             /\ Kind(r) = "export" => req'[r].at \in {"new", "act", "done"}
  <2>1. CASE r # q
    BY <1>1, <2>1 DEF StepOK, Acts, SentOK
  <2>2. CASE r = q /\ Kind(q) \in {"preview", "export"}
    <3>1. ReqOK(req[q]) /\ req = [x \in Requests |-> req[x]]
      BY DEF WebIInv, RequestsOK
    <3>2. CASE Receive(q)
      <4>1. FirstStep(q) = "act"
        BY <2>2 DEF FirstStep
      <4> QED
        BY <2>2, <3>2, <4>1, ReceiveIs
    <3>3. CASE ExportConfig(q)
      <4>1. req'[q].at = "done"
        BY <3>1, <3>3 DEF ExportConfig, Refused, Answer, ReqOK, ReqFields
      <4> QED
        BY <2>2, <4>1
    <3>4. CASE PreviewAccounts(q)
      <4>1. req'[q].at = "late" /\ Kind(q) = "preview"
        BY <3>1, <3>4 DEF PreviewAccounts, Move, At, ReqOK, ReqFields
      <4> QED
        BY <2>2, <4>1
    <3>5. CASE PreviewSources(q)
      <4>1. req'[q].at = "done"
        BY <3>1, <3>5 DEF PreviewSources, ReqOK, ReqFields
      <4> QED
        BY <2>2, <4>1
    <3>6. CASE StorageFails(q)
      <4>1. req'[q].at = "done"
        BY <3>1, <3>6 DEF StorageFails, Rollback, CommitImport, ReqOK, ReqFields
      <4> QED
        BY <2>2, <4>1
    <3> QED
      BY <2>2, <3>2, <3>3, <3>4, <3>5, <3>6, StepKinds
  <2> QED
    BY <2>1, <2>2
<1> QED
  BY <1>3, <1>4, <1>5 DEF SentOK

\* What is exported is what validation takes, and clashes with nothing.
LEMMA ExportIsValid ==
    ASSUME WebIInv, BooksOK, NEW sections, sections # {}, serialize_limited(ExportBundle(sections, sources, accounts))
    PROVE  LET b == ExportBundle(sections, sources, accounts) IN ValidBundle(b) /\ NoClash(b, sources)
<1> DEFINE S == {s \in Sources : sources[s].there}
           A == {a \in Accounts : accounts[a].state # "absent"}
           ids == SetToSeq(S)
           names == SetToSeq(A)
           accts == [i \in DOMAIN names |-> PortableAccount(names[i], accounts[names[i]])]
           srcs == [i \in DOMAIN ids |-> PortableSource(ids[i], sources[ids[i]])]
           as == IF "accounts" \in sections THEN accts ELSE <<>>
           ss == IF "sources" \in sections THEN srcs ELSE <<>>
           b == ExportBundle(sections, sources, accounts)
<1>1. IsFiniteSet(S) /\ IsFiniteSet(A)
  BY FS_Subset, WebAssumption
<1>2. /\ \A i \in DOMAIN ids : ids[i] \in S
      /\ \A i, j \in DOMAIN ids : ids[i] = ids[j] => i = j
      /\ \A i \in DOMAIN names : names[i] \in A
      /\ \A i, j \in DOMAIN names : names[i] = names[j] => i = j
  BY <1>1, SequenceOfSet
<1>3. b.accounts = as /\ b.sources = ss /\ b.shape = "ok" /\ b.sections = sections
  BY DEF ExportBundle, Bundle
<1> HIDE DEF ids, names, b, S, A
<1>4. ASSUME NEW i \in DOMAIN as
      PROVE  i \in DOMAIN names /\ as[i].id = names[i] /\ as[i].name = accounts[names[i]].name
  BY <1>4 DEF PortableAccount
<1>5. ASSUME NEW i \in DOMAIN ss
      PROVE  /\ i \in DOMAIN ids /\ ss[i].id = ids[i] /\ ss[i].book = sources[ids[i]].book
             /\ ss[i].look = sources[ids[i]].look /\ ss[i].pace = sources[ids[i]].pace
  BY <1>5 DEF PortableSource, Portable
<1> HIDE DEF as, ss
<1>6. \A i \in DOMAIN names : names[i] \in Accounts /\ accounts[names[i]].name # Blank
  BY <1>2 DEF A, BooksOK, Named
<1>7. \A i \in DOMAIN ids : ids[i] \in Sources /\ sources[ids[i]].there /\ ValidSource(sources[ids[i]])
  BY <1>2 DEF S, BooksOK, GoodRows
<1>8. (\A i, j \in DOMAIN ss : ss[i].id = ss[j].id => i = j) /\ (\A i, j \in DOMAIN as : as[i].id = as[j].id => i = j)
  <2>1. ASSUME NEW i \in DOMAIN ss, NEW j \in DOMAIN ss, ss[i].id = ss[j].id PROVE i = j
    <3>1. i \in DOMAIN ids /\ j \in DOMAIN ids /\ ids[i] = ids[j]
      BY <1>5, <2>1
    <3> QED
      BY <1>2, <3>1
  <2>2. ASSUME NEW i \in DOMAIN as, NEW j \in DOMAIN as, as[i].id = as[j].id PROVE i = j
    <3>1. i \in DOMAIN names /\ j \in DOMAIN names /\ names[i] = names[j]
      BY <1>4, <2>2
    <3> QED
      BY <1>2, <3>1
  <2> QED
    BY <2>1, <2>2
<1>9. \A i, j \in DOMAIN ss : ss[i].book = ss[j].book => i = j
  <2> SUFFICES ASSUME NEW i \in DOMAIN ss, NEW j \in DOMAIN ss, ss[i].book = ss[j].book PROVE i = j
    OBVIOUS
  <2>1. ids[i] = ids[j]
    BY <1>5, <1>7 DEF BooksOK, GoodRows
  <2> QED
    BY <1>2, <1>5, <2>1
<1>10. \A i \in DOMAIN ss : ss[i].id # Blank /\ ValidSource(ss[i])
  <2>1. Blank \notin Sources
    BY WebAssumption
  <2> QED
    BY <1>5, <1>7, <2>1 DEF ValidSource
<1>11. \A i \in DOMAIN as : Blank \notin {as[i].id, as[i].name}
  <2>1. Blank \notin Accounts
    BY WebAssumption
  <2> QED
    BY <1>4, <1>6, <2>1
<1>12. Len(ss) <= MAX_SECTION_RECORDS /\ Len(as) <= MAX_SECTION_RECORDS
  BY <1>3 DEF serialize_limited, b
<1>13. ValidBundle(b)
  BY <1>3, <1>8, <1>9, <1>10, <1>11, <1>12 DEF ValidBundle, Distinct
<1>14. NoClash(b, sources)
  <2> SUFFICES ASSUME NEW i \in DOMAIN ss, NEW s \in Sources, s # ss[i].id, sources[s].there PROVE sources[s].book # ss[i].book
    BY <1>3 DEF NoClash
  <2> QED
    BY <1>5, <1>7 DEF BooksOK, GoodRows
<1> QED
  BY <1>13, <1>14 DEF b

\* While nothing is committed, the tables say what they said.
LEMMA CalmTold ==
    ASSUME Calm, NEW b, \A i \in DOMAIN b.sources : b.sources[i].id \in Sources
    PROVE  /\ Known' = Known /\ NoClash(b, sources') = NoClash(b, sources)
           /\ \A known : Told(b, known, sources') = Told(b, known, sources)
<1>1. Known' = Known
  BY DEF Known, Calm
<1>2. NoClash(b, sources') = NoClash(b, sources)
  BY DEF NoClash, Calm
<1>3. ASSUME NEW known PROVE Told(b, known, sources') = Told(b, known, sources)
  <2>1. {i \in DOMAIN b.sources : sources'[b.sources[i].id].there} = {i \in DOMAIN b.sources : sources[b.sources[i].id].there}
    BY DEF Calm
  <2>2. (\E i \in DOMAIN b.sources, s \in Sources : s # b.sources[i].id /\ sources'[s].there /\ sources'[s].book = b.sources[i].book)
        = (\E i \in DOMAIN b.sources, s \in Sources : s # b.sources[i].id /\ sources[s].there /\ sources[s].book = b.sources[i].book)
    BY DEF Calm
  <2> QED
    BY <2>1, <2>2 DEF preview_sources, Told
<1> QED
  BY <1>1, <1>2, <1>3

\* What the client was told of the tables at base.
LEMMA BaseStays ==
    ASSUME WebIInv, NEW q \in Requests, StepOf(q), NEW base \in 0 .. edits
    PROVE  base \in 0 .. edits' /\ (base = edits' => base = edits /\ Calm)
<1>1. edits \in Nat
  BY DEF WebIInv, RequestsOK
<1>2. CASE Calm
  BY <1>2 DEF Calm
<1>3. CASE edits' = edits + 1
  BY <1>1, <1>3
<1> QED
  BY <1>2, <1>3, StepFate

LEMMA FilesStep == ASSUME WebIInv, BooksOK, SentOK, FilesOK, NEW q \in Requests, StepOf(q) PROVE FilesOK'
<1>1. StepOK(q) /\ \A r \in Requests : Kind(r)' = Kind(r)
  BY RequestStep, ActsKeeps DEF StepOf, StepOK, WebIInv
<1> SUFFICES ASSUME NEW e \in Requests, Kind(e) = "export", req'[e].reply = "ok"
             PROVE  /\ ValidBundle(req'[e].result.file) /\ req'[e].result.base \in 0 .. edits'
                    /\ req'[e].result.base = edits' => NoClash(req'[e].result.file, sources')
  BY <1>1 DEF FilesOK
<1>2. CASE e # q
  <2>1. req'[e] = req[e]
    BY <1>1, <1>2 DEF StepOK, Acts
  <2>2. /\ ValidBundle(req[e].result.file) /\ req[e].result.base \in 0 .. edits
        /\ req[e].result.base = edits => NoClash(req[e].result.file, sources)
    BY <2>1 DEF FilesOK
  <2>3. \A i \in DOMAIN req[e].result.file.sources : req[e].result.file.sources[i].id \in Sources
    BY <2>1 DEF WebIInv, RequestsOK, ReqOK, IsBundle, Kind, Ask
  <2>4. ASSUME req[e].result.base = edits' PROVE NoClash(req[e].result.file, sources')
    <3>1. Calm /\ NoClash(req[e].result.file, sources)
      BY <2>2, <2>4, BaseStays
    <3> QED
      BY <2>3, <3>1, CalmTold
  <2> QED
    BY <2>1, <2>2, <2>4, BaseStays
<1>3. CASE e = q
  <2>1. ReqOK(req[q]) /\ req = [r \in Requests |-> req[r]] /\ edits \in Nat
    BY DEF WebIInv, RequestsOK
  <2>2. ExportConfig(q)
    <3>1. CASE Receive(q)
      BY <1>3, <3>1, ReceiveIs DEF None
    <3>2. CASE StorageFails(q)
      <4>1. Rollback(q, "unavailable")
        BY <1>3, <3>2 DEF StorageFails, CommitImport, At
      <4>2. req'[q].reply = "unavailable"
        BY <2>1, <4>1 DEF Rollback, ReqOK, ReqFields
      <4> QED
        BY <1>3, <4>2
    <3> QED
      BY <1>3, <3>1, <3>2, StepKinds
  <2> DEFINE file == ExportBundle(Ask(q).sections, sources, accounts)
  <2>3. ~Refused(q, config_transfer_error_response("Validation"))
    <3> SUFFICES ASSUME Refused(q, config_transfer_error_response("Validation")) PROVE FALSE
      OBVIOUS
    <3>1. req'[q].reply = config_transfer_error_response("Validation")
      BY <2>1 DEF Refused, Answer, ReqOK, ReqFields
    <3> QED
      BY <1>3, <3>1, ReplyIs
  <2>4. /\ ~SelectionEmpty(Ask(q).sections) /\ serialize_limited(file)
        /\ req' = [req EXCEPT ![q] = [@ EXCEPT !.at = "done", !.reply = "ok",
                          !.result = [req[q].result EXCEPT !.base = edits, !.file = file]]]
        /\ edits' = edits /\ sources' = sources
    BY <2>2, <2>3 DEF ExportConfig, dbVars
  <2>5. ValidBundle(file) /\ NoClash(file, sources)
    BY <2>4, ExportIsValid DEF SelectionEmpty
  <2> HIDE DEF file
  <2>6. req'[q].result.file = file /\ req'[q].result.base = edits
    BY <2>1, <2>4 DEF ReqOK, ReqFields, ResultFields
  <2> QED
    BY <1>3, <2>1, <2>4, <2>5, <2>6
<1> QED
  BY <1>2, <1>3

\* A bundle that was sent names sources and accounts.
LEMMA BundleIs ==
    ASSUME WebIInv, NEW r \in Requests, Ask(r).from # None => req[Ask(r).from].reply = "ok"
    PROVE  /\ IsBundle(BundleOf(r))
           /\ \A i \in DOMAIN BundleOf(r).sources : BundleOf(r).sources[i].id \in Sources
<1>1. IsBundle(BundleOf(r))
  <2>1. CASE Ask(r).from = None
    BY <2>1 DEF BundleOf, WebIInv, RequestsOK, ReqOK, IsAsk, Ask
  <2>2. CASE Ask(r).from # None
    <3>1. Ask(r).from \in Requests /\ Kind(Ask(r).from) = "export" /\ req[Ask(r).from].reply = "ok"
      BY <2>2, ReqFacts DEF WebIInv
    <3> QED
      BY <2>2, <3>1 DEF BundleOf, WebIInv, RequestsOK, ReqOK, Kind, Ask
  <2> QED
    BY <2>1, <2>2
<1> QED
  BY <1>1 DEF IsBundle

LEMMA ToldStep == ASSUME WebIInv, SentOK, ToldOK, NEW q \in Requests, StepOf(q) PROVE ToldOK'
<1>1. StepOK(q) /\ \A r \in Requests : Kind(r)' = Kind(r)
  BY RequestStep, ActsKeeps DEF StepOf, StepOK, WebIInv
<1> SUFFICES ASSUME NEW p \in Requests, Kind(p) = "preview"
             PROVE  /\ req'[p].at = "late" =>
                          /\ tx'[p].i \in 0 .. edits'
                          /\ tx'[p].i = edits' => tx'[p].known = Known' /\ tx'[p].counts = preview_accounts(BundleOf(p)', Known')
                    /\ req'[p].reply = "ok" =>
                          /\ req'[p].result.base \in 0 .. edits'
                          /\ req'[p].result.base = edits' /\ req'[p].result.steady =>
                                /\ req'[p].result.counts = Told(BundleOf(p)', Known', sources').counts
                                /\ req'[p].result.conflicts = Told(BundleOf(p)', Known', sources').conflicts
  BY <1>1 DEF ToldOK
<1>2. ReqOK(req[p]) /\ req = [r \in Requests |-> req[r]] /\ edits \in Nat /\ TxOK(tx[p]) /\ tx = [r \in Requests |-> tx[r]]
  BY DEF WebIInv, RequestsOK
<1>3. CASE p # q
  <2>1. req'[p] = req[p] /\ tx'[p] = tx[p]
    BY <1>1, <1>3 DEF StepOK, Acts, TxStep
  <2>2. ASSUME req[p].at = "late"
        PROVE  /\ tx[p].i \in 0 .. edits'
               /\ tx[p].i = edits' => tx[p].known = Known' /\ tx[p].counts = preview_accounts(BundleOf(p)', Known')
    <3>1. BundleOf(p)' = BundleOf(p)
      BY <1>1, <2>2, BundleKept DEF Open
    <3>2. /\ tx[p].i \in 0 .. edits
          /\ tx[p].i = edits => tx[p].known = Known /\ tx[p].counts = preview_accounts(BundleOf(p), Known)
      BY <2>2 DEF ToldOK
    <3>3. tx[p].i \in 0 .. edits' /\ (tx[p].i = edits' => tx[p].i = edits /\ Calm)
      BY <3>2, BaseStays
    <3>4. Calm => Known' = Known
      BY DEF Calm, Known
    <3> QED
      BY <3>1, <3>2, <3>3, <3>4
  <2>3. ASSUME req[p].reply = "ok"
        PROVE  /\ req[p].result.base \in 0 .. edits'
               /\ req[p].result.base = edits' /\ req[p].result.steady =>
                     /\ req[p].result.counts = Told(BundleOf(p)', Known', sources').counts
                     /\ req[p].result.conflicts = Told(BundleOf(p)', Known', sources').conflicts
    <3>1. BundleOf(p)' = BundleOf(p) /\ (Ask(p).from # None => req[Ask(p).from].reply = "ok")
      BY <1>1, <2>3, BundleKept DEF None
    <3>2. /\ req[p].result.base \in 0 .. edits
          /\ req[p].result.base = edits /\ req[p].result.steady =>
                     /\ req[p].result.counts = Told(BundleOf(p), Known, sources).counts
                     /\ req[p].result.conflicts = Told(BundleOf(p), Known, sources).conflicts
      BY <2>3 DEF ToldOK
    <3>3. req[p].result.base \in 0 .. edits' /\ (req[p].result.base = edits' => req[p].result.base = edits /\ Calm)
      BY <3>2, BaseStays
    <3>4. Calm => Known' = Known /\ Told(BundleOf(p), Known, sources') = Told(BundleOf(p), Known, sources)
      <4>1. \A i \in DOMAIN BundleOf(p).sources : BundleOf(p).sources[i].id \in Sources
        BY <3>1, BundleIs
      <4> QED
        BY <4>1, CalmTold
    <3> QED
      BY <3>1, <3>2, <3>3, <3>4
  <2> QED
    BY <2>1, <2>2, <2>3
<1>4. CASE p = q
  <2>0. BundleOf(q)' = BundleOf(q)
    BY <1>1, BundleKept
  <2>1. CASE Receive(q)
    <3>1. FirstStep(q) = "act"
      BY <1>4 DEF FirstStep
    <3> QED
      BY <1>4, <2>1, <3>1, ReceiveIs DEF None
  <2>2. CASE PreviewAccounts(q)
    <3>1. /\ req'[q].at = "late" /\ req'[q].reply = req[q].reply /\ req[q].at = "act" /\ edits' = edits /\ accounts' = accounts
      BY <1>2, <1>4, <2>2 DEF PreviewAccounts, Move, At, ReqOK, ReqFields, dbVars
    <3>2. tx'[q].i = edits /\ tx'[q].known = Known /\ tx'[q].counts = preview_accounts(BundleOf(q), Known)
      <4> DEFINE told == preview_accounts(BundleOf(q), Known)
                 k == Known
                 new == [tx[q] EXCEPT !.known = k, !.i = edits, !.counts = told]
      <4>1. tx' = [tx EXCEPT ![q] = new]
        BY <2>2 DEF PreviewAccounts
      <4> HIDE DEF told, k
      <4>2. tx'[q].i = edits /\ tx'[q].known = k /\ tx'[q].counts = told
        BY <1>2, <1>4, <4>1 DEF TxOK, TxFields
      <4> QED
        BY <4>2 DEF told, k
    <3>3. Known' = Known
      BY <3>1 DEF Known
    <3>4. req[q].reply = None
      BY <1>2, <1>4, <3>1 DEF ReqOK
    <3> QED
      BY <1>2, <1>4, <2>0, <3>1, <3>2, <3>3, <3>4 DEF None
  <2>3. CASE PreviewSources(q)
    <3> DEFINE told == preview_sources(BundleOf(q), tx[q].counts, tx[q].known, sources)
               result == [req[q].result EXCEPT !.counts = told.counts, !.conflicts = told.conflicts,
                                               !.base = edits, !.steady = tx[q].i = edits]
    <3>1. /\ req' = [req EXCEPT ![q] = [@ EXCEPT !.at = "done", !.reply = "ok", !.result = result]]
          /\ req[q].at = "late" /\ edits' = edits /\ accounts' = accounts /\ sources' = sources
      BY <2>3 DEF PreviewSources, At, dbVars
    <3> HIDE DEF told
    <3>2. /\ result.counts = told.counts /\ result.conflicts = told.conflicts /\ result.base = edits
          /\ result.steady = (tx[q].i = edits)
      BY <1>2, <1>4 DEF ReqOK, ResultFields
    <3> HIDE DEF result
    <3>3. req'[q].at = "done" /\ req'[q].result = result
      BY <1>2, <1>4, <3>1 DEF ReqOK, ReqFields
    <3>4. tx[q].i = edits => told = Told(BundleOf(q), Known, sources)
      BY <1>4, <3>1 DEF told, ToldOK, Told
    <3>5. Known' = Known
      BY <3>1 DEF Known
    <3>6. edits \in 0 .. edits
      BY <1>2
    <3>7. result.steady => tx[q].i = edits
      BY <3>2, Zenon
    <3>8. BundleOf(q)' = BundleOf(q) /\ edits' = edits /\ sources' = sources
      BY <2>0, <3>1
    <3>9. req'[q].result.steady => told = Told(BundleOf(q)', Known', sources')
      BY <3>3, <3>4, <3>5, <3>7, <3>8
    <3>10. /\ req'[q].result.base \in 0 .. edits' /\ req'[q].result.counts = told.counts /\ req'[q].result.conflicts = told.conflicts
           /\ req'[q].at # "late"
      BY <3>2, <3>3, <3>6, <3>8
    <3> QED
      BY <1>4, <3>9, <3>10
  <2>4. CASE StorageFails(q)
    <3>1. Rollback(q, "unavailable")
      BY <1>4, <2>4 DEF StorageFails, CommitImport, At
    <3>2. req'[q].reply = "unavailable" /\ req'[q].at = "done"
      BY <1>2, <1>4, <3>1 DEF Rollback, ReqOK, ReqFields
    <3> QED
      BY <1>4, <3>2
  <2> QED
    BY <1>4, <2>1, <2>2, <2>3, <2>4, StepKinds
<1> QED
  BY <1>3, <1>4

-----------------------------------------------------------------------------
(* Counting the records of a bundle. *)

LEMMA OneMore ==
    ASSUME NEW k \in Nat \ {0}, NEW S \in SUBSET (1 .. k - 1)
    PROVE  Cardinality(S \cup {k}) = Cardinality(S) + 1 /\ Cardinality(S) \in Nat
<1>1. IsFiniteSet(S)
  <2>1. 1 \in Int /\ k - 1 \in Int
    OBVIOUS
  <2>2. IsFiniteSet(1 .. k - 1)
    BY <2>1, FS_Interval
  <2> QED
    BY <2>2, FS_Subset
<1>2. k \notin S
  OBVIOUS
<1> QED
  BY <1>1, <1>2, FS_AddElement, FS_CardinalityType

CountNames ==
    {"accounts_created", "accounts_updated", "sources_created", "sources_updated",
     "account_bindings_preserved", "account_bindings_cleared"}

\* A tally is set and added to by its names.
LEMMA TallyAccounts ==
    ASSUME NEW ac, NEW au
    PROVE  [Counts EXCEPT !.accounts_updated = au, !.accounts_created = ac] = Tally(ac, au, 0, 0, 0, 0)
<1> DEFINE d == [Counts EXCEPT !.accounts_updated = au, !.accounts_created = ac]
<1>1. DOMAIN d = CountNames
  BY DEF CountNames, Counts
<1>2. d = [f \in CountNames |-> d[f]]
  BY <1>1
<1>3. d["accounts_created"] = ac /\ d["accounts_updated"] = au /\ d["sources_updated"] = 0
  BY DEF Counts
<1>4. d["sources_created"] = 0 /\ d["account_bindings_preserved"] = 0 /\ d["account_bindings_cleared"] = 0
  BY DEF Counts
<1> HIDE DEF d
<1>5. d = Tally(ac, au, 0, 0, 0, 0)
  BY <1>2, <1>3, <1>4 DEF Tally, CountNames
<1> QED
  BY <1>5 DEF d

WithSources(c, sc, su, kept, lost) ==
    [c EXCEPT !.sources_updated = su, !.sources_created = sc, !.account_bindings_preserved = kept,
              !.account_bindings_cleared = lost]

LEMMA TallySources ==
    ASSUME NEW ac, NEW au, NEW sc, NEW su, NEW kept, NEW lost, NEW c, c = Tally(ac, au, 0, 0, 0, 0)
    PROVE  WithSources(c, sc, su, kept, lost) = Tally(ac, au, sc, su, kept, lost)
<1> DEFINE d == [c EXCEPT !.sources_updated = su, !.sources_created = sc, !.account_bindings_preserved = kept,
                          !.account_bindings_cleared = lost]
<1>1. c = [f \in CountNames |-> c[f]]
  BY DEF CountNames, Tally
<1>2. DOMAIN d = CountNames
  BY <1>1 DEF CountNames
<1>3. d = [f \in CountNames |-> d[f]]
  BY <1>2
<1>4. d["accounts_created"] = ac /\ d["accounts_updated"] = au
  BY <1>1 DEF Tally, CountNames
<1>5. d["sources_updated"] = su /\ d["sources_created"] = sc
  BY <1>1 DEF Tally, CountNames
<1>6. d["account_bindings_preserved"] = kept /\ d["account_bindings_cleared"] = lost
  BY <1>1 DEF Tally, CountNames
<1> HIDE DEF d
<1>7. d = Tally(ac, au, sc, su, kept, lost)
  BY <1>3, <1>4, <1>5, <1>6 DEF Tally, CountNames
<1> QED
  BY <1>7 DEF d, WithSources

LEMMA TallyMore ==
    ASSUME NEW ac, NEW au, NEW sc, NEW su, NEW kept, NEW lost, NEW F
    PROVE  Add(Tally(ac, au, sc, su, kept, lost), F) =
             Tally(IF "accounts_created" \in F THEN ac + 1 ELSE ac, IF "accounts_updated" \in F THEN au + 1 ELSE au,
                   IF "sources_created" \in F THEN sc + 1 ELSE sc, IF "sources_updated" \in F THEN su + 1 ELSE su,
                   IF "account_bindings_preserved" \in F THEN kept + 1 ELSE kept,
                   IF "account_bindings_cleared" \in F THEN lost + 1 ELSE lost)
  BY DEF Add, Tally

LEMMA PlannedNone == ASSUME NEW b, NEW known, NEW rows PROVE Planned(b, known, rows, {}, {}) = Counts
<1>1. Cardinality({}) = 0
  BY FS_EmptySet
<1>2. \A S : {} \ S = {}
  OBVIOUS
<1> QED
  BY <1>1, <1>2 DEF Planned, Counts, Tally

\* The next account of a bundle counts as the table says.
LEMMA PlannedAccount ==
    ASSUME NEW b, NEW known, NEW rows, NEW k \in Nat \ {0}
    PROVE  Planned(b, known, rows, 1 .. k, {}) =
             Add(Planned(b, known, rows, 1 .. k - 1, {}),
                 IF b.accounts[k].id \in known THEN {"accounts_updated"} ELSE {"accounts_created"})
<1> DEFINE S == 1 .. k - 1
           T == 1 .. k
           new(I) == {i \in I : b.accounts[i].id \notin known}
           old(I) == I \ new(I)
<1>1. T = S \cup {k} /\ k \notin S
  OBVIOUS
<1>2. IF b.accounts[k].id \in known THEN new(T) = new(S) /\ old(T) = old(S) \cup {k}
      ELSE new(T) = new(S) \cup {k} /\ old(T) = old(S)
  BY <1>1
<1>3. /\ Cardinality(new(S) \cup {k}) = Cardinality(new(S)) + 1 /\ Cardinality(old(S) \cup {k}) = Cardinality(old(S)) + 1
      /\ Cardinality(new(S)) \in Nat /\ Cardinality(old(S)) \in Nat
  <2>1. new(S) \in SUBSET (1 .. k - 1) /\ old(S) \in SUBSET (1 .. k - 1)
    OBVIOUS
  <2> QED
    BY <2>1, OneMore
<1> DEFINE c(I) == Tally(Cardinality(new(I)), Cardinality(old(I)), 0, 0, 0, 0)
<1>4. ASSUME NEW I PROVE Planned(b, known, rows, I, {}) = c(I)
  <2>1. Cardinality({}) = 0
    BY FS_EmptySet
  <2>2. (\A J : {} \ J = {}) /\ {i \in {} : rows[b.sources[i].id].there} = {}
        /\ {i \in {} : b.sources[i].account \in known \cup Ids(b.accounts)} = {} /\ {i \in {} : b.sources[i].account # None} = {}
    OBVIOUS
  <2> QED
    BY <2>1, <2>2 DEF Planned
<1> HIDE DEF new, old
<1>5. c(T) = Add(c(S), IF b.accounts[k].id \in known THEN {"accounts_updated"} ELSE {"accounts_created"})
  <2>1. CASE b.accounts[k].id \in known
    <3>1. c(T) = Tally(Cardinality(new(S)), Cardinality(old(S)) + 1, 0, 0, 0, 0)
      BY <1>2, <1>3, <2>1
    <3>2. Add(c(S), {"accounts_updated"}) = Tally(Cardinality(new(S)), Cardinality(old(S)) + 1, 0, 0, 0, 0)
      BY TallyMore
    <3> QED
      BY <2>1, <3>1, <3>2
  <2>2. CASE b.accounts[k].id \notin known
    <3>1. c(T) = Tally(Cardinality(new(S)) + 1, Cardinality(old(S)), 0, 0, 0, 0)
      BY <1>2, <1>3, <2>2
    <3>2. Add(c(S), {"accounts_created"}) = Tally(Cardinality(new(S)) + 1, Cardinality(old(S)), 0, 0, 0, 0)
      BY TallyMore
    <3> QED
      BY <2>2, <3>1, <3>2
  <2> QED
    BY <2>1, <2>2
<1> HIDE DEF c
<1> QED
  BY <1>4, <1>5

\* So does the next source, and what becomes of its binding.
Counted(b, known, rows, k) ==
    {IF rows[b.sources[k].id].there THEN "sources_updated" ELSE "sources_created"}
        \cup (IF b.sources[k].account \in known \cup Ids(b.accounts) THEN {"account_bindings_preserved"}
              ELSE IF b.sources[k].account # None THEN {"account_bindings_cleared"} ELSE {})

LEMMA PlannedSource ==
    ASSUME NEW b, NEW known, NEW rows, NEW as, NEW k \in Nat \ {0}, None \notin known \cup Ids(b.accounts)
    PROVE  Planned(b, known, rows, as, 1 .. k) =
             Add(Planned(b, known, rows, as, 1 .. k - 1),
                 Counted(b, known, rows, k))
<1> DEFINE S == 1 .. k - 1
           T == 1 .. k
           ids == known \cup Ids(b.accounts)
           p == b.sources[k]
           there(I) == {i \in I : rows[b.sources[i].id].there}
           fresh(I) == I \ there(I)
           kept(I) == {i \in I : b.sources[i].account \in ids}
           bound(I) == {i \in I : b.sources[i].account # None}
           lost(I) == bound(I) \ kept(I)
           fields == {IF rows[p.id].there THEN "sources_updated" ELSE "sources_created"}
                        \cup (IF p.account \in ids THEN {"account_bindings_preserved"}
                              ELSE IF p.account # None THEN {"account_bindings_cleared"} ELSE {})
<1>1. T = S \cup {k} /\ k \notin S
  OBVIOUS
<1>2. IF rows[p.id].there THEN there(T) = there(S) \cup {k} /\ fresh(T) = fresh(S)
      ELSE there(T) = there(S) /\ fresh(T) = fresh(S) \cup {k}
  BY <1>1
<1>3. kept(T) = IF p.account \in ids THEN kept(S) \cup {k} ELSE kept(S)
  BY <1>1
<1>4. lost(T) = IF p.account # None /\ p.account \notin ids THEN lost(S) \cup {k} ELSE lost(S)
  BY <1>1
<1>5. /\ Cardinality(there(S) \cup {k}) = Cardinality(there(S)) + 1 /\ Cardinality(there(S)) \in Nat
      /\ Cardinality(fresh(S) \cup {k}) = Cardinality(fresh(S)) + 1 /\ Cardinality(fresh(S)) \in Nat
      /\ Cardinality(kept(S) \cup {k}) = Cardinality(kept(S)) + 1 /\ Cardinality(kept(S)) \in Nat
      /\ Cardinality(lost(S) \cup {k}) = Cardinality(lost(S)) + 1 /\ Cardinality(lost(S)) \in Nat
  <2>1. /\ there(S) \in SUBSET (1 .. k - 1) /\ fresh(S) \in SUBSET (1 .. k - 1)
        /\ kept(S) \in SUBSET (1 .. k - 1) /\ lost(S) \in SUBSET (1 .. k - 1)
    OBVIOUS
  <2> QED
    BY <2>1, OneMore
<1>6. p.account \in ids => p.account # None
  OBVIOUS
<1> DEFINE new == {i \in as : b.accounts[i].id \notin known}
           made == Cardinality(new)
           put == Cardinality(as \ new)
           c(I) == Tally(made, put, Cardinality(fresh(I)), Cardinality(there(I)), Cardinality(kept(I)), Cardinality(lost(I)))
<1>7. ASSUME NEW I PROVE Planned(b, known, rows, as, I) = c(I)
  BY DEF Planned
<1>8. fields = Counted(b, known, rows, k)
  BY DEF Counted
<1> HIDE DEF there, fresh, kept, bound, lost, made, put, ids, p
<1> DEFINE one(name, n) == IF name \in fields THEN n + 1 ELSE n
<1>9. c(T) = Add(c(S), fields)
  <2>1. Cardinality(fresh(T)) = one("sources_created", Cardinality(fresh(S)))
        /\ Cardinality(there(T)) = one("sources_updated", Cardinality(there(S)))
    <3>1. CASE rows[p.id].there
      <4>1. "sources_updated" \in fields /\ "sources_created" \notin fields
        BY <3>1
      <4> HIDE DEF fields
      <4> QED
        BY <1>2, <1>5, <3>1, <4>1
    <3>2. CASE ~rows[p.id].there
      <4>1. "sources_updated" \notin fields /\ "sources_created" \in fields
        BY <3>2
      <4> HIDE DEF fields
      <4> QED
        BY <1>2, <1>5, <3>2, <4>1
    <3> QED
      BY <3>1, <3>2
  <2>2. Cardinality(kept(T)) = one("account_bindings_preserved", Cardinality(kept(S)))
    BY <1>3, <1>5
  <2>3. Cardinality(lost(T)) = one("account_bindings_cleared", Cardinality(lost(S)))
    BY <1>4, <1>5, <1>6
  <2>4. one("accounts_created", made) = made /\ one("accounts_updated", put) = put
    OBVIOUS
  <2>5. Add(c(S), fields) = Tally(one("accounts_created", made), one("accounts_updated", put),
                                  one("sources_created", Cardinality(fresh(S))), one("sources_updated", Cardinality(there(S))),
                                  one("account_bindings_preserved", Cardinality(kept(S))),
                                  one("account_bindings_cleared", Cardinality(lost(S))))
    BY TallyMore
  <2> HIDE DEF one, fields
  <2> QED
    BY <2>1, <2>2, <2>3, <2>4, <2>5
<1> HIDE DEF c
<1> QED
  BY <1>7, <1>9, <1>8 DEF ids, p

\* Over all records, what is planned is what a preview announces.
LEMMA PlannedIsTold ==
    ASSUME NEW b, IsBundle(b), Distinct(b.accounts, "id"), NEW known, NEW rows, None \notin known \cup Ids(b.accounts)
    PROVE  Told(b, known, rows).counts = Planned(b, known, rows, DOMAIN b.accounts, DOMAIN b.sources)
<1> DEFINE as == DOMAIN b.accounts
           ss == DOMAIN b.sources
           new == {i \in as : b.accounts[i].id \notin known}
           there == {i \in ss : rows[b.sources[i].id].there}
           kept == {i \in ss : b.sources[i].account \in known \cup Ids(b.accounts)}
           bound == {i \in ss : b.sources[i].account # None}
           ids == Ids(b.accounts)
<1>1. as = 1 .. Len(b.accounts) /\ ss = 1 .. Len(b.sources) /\ Len(b.accounts) \in Nat /\ Len(b.sources) \in Nat
  BY DEF IsBundle
<1>2. IsFiniteSet(as) /\ IsFiniteSet(ss) /\ Cardinality(ss) = Len(b.sources)
  <2> DEFINE n == Len(b.sources)
             m == Len(b.accounts)
  <2>1. 1 \in Int /\ n \in Int /\ m \in Int /\ (IF 1 > n THEN 0 ELSE n - 1 + 1) = n
    BY <1>1
  <2> HIDE DEF n, m
  <2>2. IsFiniteSet(1 .. n) /\ IsFiniteSet(1 .. m) /\ Cardinality(1 .. n) = n
    BY <2>1, FS_Interval
  <2> QED
    BY <1>1, <2>2 DEF n, m
<1>3. \A i, j \in as : b.accounts[i].id = b.accounts[j].id => i = j
  BY DEF Distinct
<1>4. ids = {b.accounts[i].id : i \in as}
  BY DEF Ids
<1>5. Cardinality(ids \ known) = Cardinality(new)
  <2> DEFINE f == [i \in new |-> b.accounts[i].id]
  <2>1. f \in Bijection(new, ids \ known)
    BY <1>3, <1>4 DEF Bijection, Injection, Surjection, IsInjective
  <2>2. IsFiniteSet(new)
    BY <1>2, FS_Subset
  <2> HIDE DEF f, new, ids
  <2> QED
    BY <2>1, <2>2, FS_Bijection DEF ExistsBijection
<1>6. Cardinality(ids \cap known) = Cardinality(as \ new)
  <2> DEFINE old == as \ new
             f == [i \in old |-> b.accounts[i].id]
  <2>1. f \in Bijection(old, ids \cap known)
    BY <1>3, <1>4 DEF Bijection, Injection, Surjection, IsInjective
  <2>2. IsFiniteSet(old)
    BY <1>2, FS_Subset
  <2> HIDE DEF f, old, ids
  <2>3. Cardinality(ids \cap known) = Cardinality(old)
    BY <2>1, <2>2, FS_Bijection DEF ExistsBijection
  <2> QED
    BY <2>3 DEF old
<1>7. Len(b.sources) - Cardinality(there) = Cardinality(ss \ there)
  <2>1. there \subseteq ss /\ ss \cap there = there
    OBVIOUS
  <2> HIDE DEF ss, there
  <2>2. Cardinality(ss \ there) = Cardinality(ss) - Cardinality(ss \cap there)
    BY <1>2, FS_Difference
  <2> QED
    BY <1>2, <2>1, <2>2
<1>8. kept = {i \in bound : b.sources[i].account \in known \cup Ids(b.accounts)}
  OBVIOUS
<1> DEFINE counts == [Counts EXCEPT !.accounts_updated = Cardinality(as \ new), !.accounts_created = Cardinality(new)]
<1>9. preview_accounts(b, known) = counts
  BY <1>5, <1>6 DEF preview_accounts
<1>10. Told(b, known, rows).counts = [counts EXCEPT !.sources_updated = Cardinality(there),
                                   !.sources_created = Cardinality(ss \ there),
                                   !.account_bindings_preserved = Cardinality(kept),
                                   !.account_bindings_cleared = Cardinality(bound \ kept)]
  <2> HIDE DEF counts
  <2>1. Told(b, known, rows) = preview_sources(b, counts, known, rows)
    BY <1>9 DEF Told
  <2>2. preview_sources(b, counts, known, rows).counts =
            [counts EXCEPT !.sources_updated = Cardinality(there), !.sources_created = Len(b.sources) - Cardinality(there),
                           !.account_bindings_preserved = Cardinality({i \in bound : b.sources[i].account \in known \cup Ids(b.accounts)}),
                           !.account_bindings_cleared =
                              Cardinality(bound \ {i \in bound : b.sources[i].account \in known \cup Ids(b.accounts)})]
    BY DEF preview_sources
  <2> HIDE DEF there, bound, kept, ss
  <2> QED
    BY <1>7, <1>8, <2>1, <2>2
<1> DEFINE tally == Tally(Cardinality(new), Cardinality(as \ new), Cardinality(ss \ there), Cardinality(there),
                          Cardinality(kept), Cardinality(bound \ kept))
<1>11. Planned(b, known, rows, as, ss) = tally
  BY DEF Planned
<1> HIDE DEF as, ss, new, there, kept, bound
<1>12. counts = Tally(Cardinality(new), Cardinality(as \ new), 0, 0, 0, 0)
  BY TallyAccounts
<1> HIDE DEF counts
<1>13. [counts EXCEPT !.sources_updated = Cardinality(there), !.sources_created = Cardinality(ss \ there),
                      !.account_bindings_preserved = Cardinality(kept), !.account_bindings_cleared = Cardinality(bound \ kept)] = tally
  <2>1. WithSources(counts, Cardinality(ss \ there), Cardinality(there), Cardinality(kept), Cardinality(bound \ kept)) = tally
    BY <1>12, TallySources
  <2> QED
    BY <2>1 DEF WithSources
<1> HIDE DEF tally
<1> QED
  BY <1>10, <1>11, <1>13 DEF as, ss

-----------------------------------------------------------------------------
(* What an undisturbed import does. *)

\* What was told before r was sent has been so ever since.
LEMMA StillUndisturbed ==
    ASSUME WebIInv, SentOK, FilesOK, ToldOK, NEW q \in Requests, StepOf(q), StepOK(q), NEW r \in Requests,
           r = q \/ Open(r), Undisturbed(r)'
    PROVE  Undisturbed(r) /\ Calm
<1>1. PICK w \in Requests :
            /\ req'[w].reply = "ok" /\ req'[w].result.base = edits'
            /\ \/ Kind(w)' = "preview" /\ w \in Ask(r)'.after
               \/ Kind(w)' = "export" /\ w = Ask(r)'.from
  BY DEF Undisturbed
<1>2. Kind(w)' = Kind(w) /\ Ask(r)'.after = Ask(r).after /\ Ask(r)'.from = Ask(r).from
  BY ActsKeeps DEF StepOK, WebIInv, SameAsk
<1>3. req[w].at = "done"
  <2>1. /\ \A x \in Requests : x \in Ask(r).after => req[x].at = "done"
        /\ Ask(r).from # None => req[Ask(r).from].reply = "ok"
    BY SentBefore DEF SentOK
  <2>2. w # None
    BY WebAssumption
  <2> QED
    BY <1>1, <1>2, <2>1, <2>2, RepliedIsDone
<1>4. req'[w] = req[w]
  BY <1>3 DEF StepOK, Acts
<1>5. req[w].result.base \in 0 .. edits
  BY <1>1, <1>2, <1>4 DEF FilesOK, ToldOK
<1>6. req[w].result.base = edits /\ Calm
  BY <1>1, <1>4, <1>5, BaseStays
<1> QED
  BY <1>1, <1>2, <1>4, <1>6 DEF Undisturbed

LEMMA PlannedCalm ==
    ASSUME Calm, NEW b, NEW ss \in SUBSET DOMAIN b.sources, \A i \in DOMAIN b.sources : b.sources[i].id \in Sources,
           NEW known, NEW as
    PROVE  Planned(b, known, sources', as, ss) = Planned(b, known, sources, as, ss)
<1>1. {i \in ss : sources'[b.sources[i].id].there} = {i \in ss : sources[b.sources[i].id].there}
  BY DEF Calm
<1> QED
  BY <1>1 DEF Planned

\* The import of another request goes on as planned.
LEMMA PlanStays ==
    ASSUME WebIInv, NEW q \in Requests, StepOK(q), Calm, NEW r \in Requests \ {q}, Importing(r), AsPlanned(r)
    PROVE  AsPlanned(r)'
<1>1. BundleOf(r)' = BundleOf(r) /\ tx'[r] = tx[r] /\ req'[r] = req[r] /\ Known' = Known
  BY BundleStays DEF StepOK, TxStep, Acts, Calm, Known
<1>2. ImportOK(r) /\ IsBundle(BundleOf(r))
  BY DEF WebIInv, ImportsOK, ImportOK, BundleOK
<1>3. AccountsDone(r)' = AccountsDone(r) /\ SourcesDone(r)' = SourcesDone(r) /\ Record(r)' = Record(r)
  BY <1>1 DEF AccountsDone, SourcesDone, Record
<1>4. AccountsWritten(r)' = AccountsWritten(r)
  BY <1>1 DEF AccountsWritten
<1>5. SourcesDone(r) \in SUBSET DOMAIN BundleOf(r).sources
  BY <1>2 DEF SourcesDone, ImportOK, BundleOK, IsBundle
<1>6. \A i \in DOMAIN BundleOf(r).sources : BundleOf(r).sources[i].id \in Sources
  BY <1>2 DEF IsBundle
<1>7. Planned(BundleOf(r), Known, sources', AccountsDone(r), SourcesDone(r)) =
        Planned(BundleOf(r), Known, sources, AccountsDone(r), SourcesDone(r))
  BY <1>5, <1>6, PlannedCalm
<1>8. req[r].at = "write" => sources'[Record(r).id].there = sources[Record(r).id].there
  <2>1. req[r].at = "write" => Record(r).id \in Sources
    BY <1>2 DEF Record, ImportOK, BundleOK, IsBundle
  <2> QED
    BY <2>1 DEF Calm
<1> QED
  BY <1>1, <1>3, <1>4, <1>7, <1>8 DEF AsPlanned

\* An import that starts has done nothing.
LEMMA PlanStarts ==
    ASSUME WebIInv, SentOK, NEW q \in Requests, Receive(q), StepOK(q), Importing(q)'
    PROVE  AsPlanned(q)'
<1>1. Kind(q) = "import" /\ Kind(q)' = Kind(q)
  <2>1. ReqOK(req'[q]) /\ Kind(q)' = Kind(q)
    BY ActsKeeps DEF StepOK, Acts, WebIInv
  <2> QED
    BY <2>1 DEF ReqOK, Importing, Kind, Ask
<1>2. tx' = tx /\ req[q].at = "new" /\ req'[q].at = FirstStep(q)
  BY <1>1, ReceiveIs DEF Importing, ImportSteps
<1>3. tx'[q] = NoTx
  BY <1>2 DEF WebIInv, OnlyImportsHold, Importing, ImportSteps
<1>4. BundleOf(q)' = BundleOf(q)
  BY BundleKept DEF StepOf
<1>5. /\ req'[q].at \in {"accounts", "states"}
      /\ req'[q].at = "states" => BundleOf(q).accounts = <<>>
  BY <1>1, <1>2 DEF FirstStep
<1>6. tx'[q].i = 1 /\ tx'[q].counts = Counts /\ DOMAIN tx'[q].acc = {}
  BY <1>3 DEF NoTx
<1>7. AccountsDone(q)' = {} /\ SourcesDone(q)' = {}
  BY <1>4, <1>5, <1>6 DEF AccountsDone, SourcesDone
<1>8. AccountsWritten(q)' = {}
  BY <1>4, <1>5, <1>6 DEF AccountsWritten, Ids
<1>9. tx'[q].counts = Planned(BundleOf(q)', Known', sources', AccountsDone(q)', SourcesDone(q)')
  BY <1>6, <1>7, PlannedNone
<1> QED
  BY <1>5, <1>6, <1>8, <1>9 DEF AsPlanned

LEMMA PlanLockAccount ==
    ASSUME WebIInv, NEW q \in Requests, LockAccount(q), AsPlanned(q) PROVE AsPlanned(q)'
<1> DEFINE a == Record(q).id
           acc == IF accounts[a].state = "absent" THEN tx[q].acc ELSE Put(tx[q].acc, a, AccountSeen(q, a))
           held == [tx[q] EXCEPT !.acc = acc]
<1>1. /\ req[q].at = "accounts" /\ ImportOK(q) /\ TxOK(tx[q]) /\ Importing(q)
  BY ImportFacts DEF LockAccount, ImportSteps, Importing
<1>2. Statement(q, "account_write", held)
  BY DEF LockAccount
<1>3. a \in Accounts
  BY <1>1 DEF Record, ImportOK, BundleOK, IsBundle
<1> HIDE DEF acc
<1>4. StatementIs(q, "account_write", held)
  BY <1>1, <1>2, StatementFacts DEF ImportSteps
<1>5. held.acc = acc /\ held.i = tx[q].i /\ held.counts = tx[q].counts
  BY <1>1 DEF TxOK, TxFields
<1>6. DOMAIN acc = DOMAIN tx[q].acc \cup ({a} \cap Known)
  BY <1>3 DEF acc, Put, Known
<1> HIDE DEF held
<1>7. /\ tx'[q] = held /\ req'[q].at = "account_write" /\ BundleOf(q)' = BundleOf(q) /\ sources' = sources /\ Known' = Known
  BY <1>4 DEF StatementIs, Known
<1>8. AccountsDone(q)' = AccountsDone(q) /\ SourcesDone(q)' = SourcesDone(q) /\ AccountsWritten(q)' = AccountsWritten(q)
  BY <1>1, <1>5, <1>7 DEF AccountsDone, SourcesDone, AccountsWritten
<1>9. Record(q)'.id = a
  BY <1>1, <1>5, <1>7 DEF Record
<1> HIDE DEF a
<1> QED
  BY <1>1, <1>5, <1>6, <1>7, <1>8, <1>9 DEF AsPlanned

LEMMA PlanWriteAccount ==
    ASSUME WebIInv, NEW q \in Requests, WriteAccount(q), AsPlanned(q)
    PROVE  /\ Record(q).id \in DOMAIN tx[q].acc <=> accounts[Record(q).id].state # "absent"
           /\ req'[q].at # "done" => AsPlanned(q)'
<1> DEFINE p == Record(q)
           i == tx[q].i
           n == Len(BundleOf(q).accounts)
           b == BundleOf(q)
<1>1. /\ req[q].at = "account_write" /\ ImportOK(q) /\ TxOK(tx[q]) /\ Importing(q) /\ RequestsOK
      /\ DOMAIN b.accounts = 1 .. n /\ n \in Nat
  BY ImportFacts DEF WriteAccount, ImportSteps, Importing
<1>2. /\ i \in 1 .. n /\ p = b.accounts[i] /\ p.id \in Accounts
      /\ \A j, k \in 1 .. n : b.accounts[j].id = b.accounts[k].id => j = k
  BY <1>1 DEF Record, ImportOK, BundleOK, IsBundle, Distinct
<1>3. AccountsWritten(q) = {b.accounts[j].id : j \in 1 .. i - 1} /\ p.id \notin AccountsWritten(q)
  <2>1. AccountsWritten(q) = {b.accounts[j].id : j \in 1 .. i - 1}
    BY <1>1 DEF AccountsWritten
  <2>2. \A j \in 1 .. i - 1 : j \in 1 .. n /\ j # i
    BY <1>1, <1>2
  <2> QED
    BY <1>2, <2>1, <2>2
<1>4. DOMAIN tx[q].acc = AccountsWritten(q) \cup ({p.id} \cap Known)
  BY <1>1 DEF AsPlanned
<1>5. p.id \in DOMAIN tx[q].acc <=> p.id \in Known
  BY <1>3, <1>4
<1>6. p.id \in Known <=> accounts[p.id].state # "absent"
  BY <1>2 DEF Known
<1>7. ASSUME req'[q].at # "done" PROVE AsPlanned(q)'
  <2> DEFINE S == ResumesOf(q)
             acc == Put(tx[q].acc, p.id, ImportedAccount(AccountSeen(q, p.id), p))
             src == [s \in DOMAIN tx[q].src \cup S |->
                         IF s \in S THEN ResumedSource(SourceSeen(q, s)) ELSE tx[q].src[s]]
             next == IF i < n THEN i + 1 ELSE 1
             counts == Add(tx[q].counts, IF p.id \in DOMAIN tx[q].acc THEN {"accounts_updated"} ELSE {"accounts_created"})
             held == [tx[q] EXCEPT !.acc = acc, !.src = src, !.i = next, !.counts = counts]
             at == IF i < n THEN "accounts" ELSE "states"
  <2>1. Statement(q, at, held)
    <3>1. ASSUME NEW reply, Rollback(q, reply) PROVE FALSE
      <4>1. req'[q].at = "done"
        BY <1>1, <3>1 DEF Rollback, RequestsOK, ReqOK, ReqFields
      <4> QED
        BY <1>7, <4>1
    <3> QED
      BY <3>1 DEF WriteAccount
  <2>2. DOMAIN acc = DOMAIN tx[q].acc \cup {p.id}
    BY DEF Put
  <2> HIDE DEF acc, src, next, counts
  <2>3. held.acc = acc /\ held.i = next /\ held.counts = counts
    BY <1>1 DEF TxOK, TxFields
  <2> HIDE DEF held
  <2>4. StatementIs(q, at, held)
    BY <1>1, <2>1, StatementFacts DEF ImportSteps
  <2>5. tx'[q] = held /\ req'[q].at = at /\ BundleOf(q)' = b /\ sources' = sources /\ Known' = Known
    BY <2>4 DEF StatementIs, Known
  <2>6. AccountsDone(q) = 1 .. i - 1 /\ SourcesDone(q) = {} /\ AccountsDone(q)' = 1 .. i /\ SourcesDone(q)' = {}
    <3>1. AccountsDone(q) = 1 .. i - 1 /\ SourcesDone(q) = {}
      BY <1>1 DEF AccountsDone, SourcesDone
    <3>2. SourcesDone(q)' = {}
      BY <2>5 DEF SourcesDone
    <3>3. AccountsDone(q)' = 1 .. i
      <4>1. CASE i < n
        BY <1>2, <2>3, <2>5, <4>1 DEF AccountsDone, next
      <4>2. CASE ~(i < n)
        <5>1. i = n
          BY <1>1, <1>2, <4>2
        <5> QED
          BY <1>1, <2>5, <4>2, <5>1 DEF AccountsDone
      <4> QED
        BY <4>1, <4>2
    <3> QED
      BY <3>1, <3>2, <3>3
  <2>7. AccountsWritten(q)' = {b.accounts[j].id : j \in 1 .. i}
    <3>1. CASE i < n
      BY <1>2, <2>3, <2>5, <3>1 DEF AccountsWritten, next
    <3>2. CASE ~(i < n)
      <4>1. i = n
        BY <1>1, <1>2, <3>2
      <4> QED
        BY <1>1, <2>5, <3>2, <4>1 DEF AccountsWritten, Ids
    <3> QED
      BY <3>1, <3>2
  <2>8. DOMAIN acc = AccountsWritten(q)'
    <3>1. 1 .. i = (1 .. i - 1) \cup {i}
      BY <1>2
    <3> QED
      BY <1>2, <1>3, <1>4, <2>2, <2>7, <3>1
  <2>9. counts = Planned(b, Known, sources, 1 .. i, {})
    <3>1. tx[q].counts = Planned(b, Known, sources, 1 .. i - 1, {})
      BY <2>6 DEF AsPlanned
    <3>2. i \in Nat \ {0}
      BY <1>1, <1>2
    <3> HIDE DEF i, b, p
    <3> QED
      BY <1>2, <1>5, <3>1, <3>2, PlannedAccount DEF counts
  <2>10. at \in {"accounts", "states"}
    OBVIOUS
  <2> HIDE DEF at, b, i, n, p
  <2> QED
    BY <2>3, <2>5, <2>6, <2>8, <2>9, <2>10 DEF AsPlanned
<1> QED
  BY <1>5, <1>6, <1>7

LEMMA PlanReadStates ==
    ASSUME WebIInv, NEW q \in Requests, ReadAccountStates(q), AsPlanned(q) PROVE AsPlanned(q)'
<1> DEFINE b == BundleOf(q)
           known == {a \in Accounts : AccountSeen(q, a).state # "absent"}
           usable == {a \in Accounts : Usable(AccountSeen(q, a), a)}
           held == [tx[q] EXCEPT !.known = known, !.usable = usable]
           at == IF b.sources = <<>> THEN "commit" ELSE "lock"
<1>1. /\ req[q].at = "states" /\ ImportOK(q) /\ TxOK(tx[q]) /\ Importing(q) /\ Ids(b.accounts) \subseteq Accounts
  BY ImportFacts DEF ReadAccountStates, ImportSteps, Importing
<1>2. Statement(q, at, held)
  BY DEF ReadAccountStates
<1>3. DOMAIN tx[q].acc = Ids(b.accounts) /\ \A a \in DOMAIN tx[q].acc : tx[q].acc[a].state # "absent"
  BY <1>1 DEF AsPlanned, AccountsWritten, ImportOK, AccountsHeld
<1>4. known = Known \cup Ids(b.accounts)
  BY <1>1, <1>3 DEF AccountSeen, Known
<1> HIDE DEF known, usable
<1>5. held.i = tx[q].i /\ held.counts = tx[q].counts /\ held.known = known
  BY <1>1 DEF TxOK, TxFields
<1> HIDE DEF held
<1>6. StatementIs(q, at, held)
  BY <1>1, <1>2, StatementFacts DEF ImportSteps
<1>7. tx'[q] = held /\ req'[q].at = at /\ BundleOf(q)' = b /\ sources' = sources /\ Known' = Known
  BY <1>6 DEF StatementIs, Known
<1>8. tx[q].i = 1
  BY <1>1 DEF ImportOK, BundleOK
<1>9. AccountsDone(q) = DOMAIN b.accounts /\ AccountsDone(q)' = DOMAIN b.accounts
  BY <1>1, <1>7 DEF AccountsDone
<1>10. SourcesDone(q) = {} /\ SourcesDone(q)' = {}
  BY <1>1, <1>5, <1>7, <1>8 DEF SourcesDone
<1>11. at \in {"commit", "lock"}
  OBVIOUS
<1> HIDE DEF at
<1> QED
  BY <1>4, <1>5, <1>7, <1>9, <1>10, <1>11 DEF AsPlanned

LEMMA PlanLockSource ==
    ASSUME WebIInv, NEW q \in Requests, LockSource(q), AsPlanned(q) PROVE AsPlanned(q)'
<1> DEFINE s == Record(q).id
           src == IF SourceSeen(q, s).there THEN Put(tx[q].src, s, SourceSeen(q, s)) ELSE tx[q].src
           held == [tx[q] EXCEPT !.src = src]
<1>1. /\ req[q].at = "lock" /\ ImportOK(q) /\ TxOK(tx[q]) /\ Importing(q)
  BY ImportFacts DEF LockSource, ImportSteps, Importing
<1>2. Statement(q, "write", held)
  BY DEF LockSource
<1>3. sources[s].there => s \in DOMAIN src
  <2>1. s \in DOMAIN tx[q].src => tx[q].src[s].there
    BY <1>1 DEF ImportOK, RowsHeld
  <2> QED
    BY <2>1 DEF SourceSeen, Put
<1> HIDE DEF src
<1>4. StatementIs(q, "write", held)
  BY <1>1, <1>2, StatementFacts DEF ImportSteps
<1>5. held.src = src /\ held.i = tx[q].i /\ held.counts = tx[q].counts /\ held.known = tx[q].known
  BY <1>1 DEF TxOK, TxFields
<1> HIDE DEF held
<1>6. /\ tx'[q] = held /\ req'[q].at = "write" /\ BundleOf(q)' = BundleOf(q) /\ sources' = sources /\ Known' = Known
  BY <1>4 DEF StatementIs, Known
<1>7. AccountsDone(q)' = AccountsDone(q) /\ SourcesDone(q)' = SourcesDone(q)
  BY <1>1, <1>5, <1>6 DEF AccountsDone, SourcesDone
<1>8. Record(q)'.id = s
  BY <1>1, <1>5, <1>6 DEF Record
<1> HIDE DEF s
<1> QED
  BY <1>1, <1>3, <1>5, <1>6, <1>7, <1>8 DEF AsPlanned

\* Neither the tables nor the bundle's accounts hold the account of an unbound source.
LEMMA NoneUnknown == ASSUME NEW b, IsBundle(b) PROVE None \notin Known \cup Ids(b.accounts)
  BY WebAssumption DEF Known, Ids, IsBundle

LEMMA PlanWriteSource ==
    ASSUME WebIInv, NEW q \in Requests, WriteSource(q), AsPlanned(q)
    PROVE  /\ Record(q).id \in DOMAIN tx[q].src <=> sources[Record(q).id].there
           /\ req'[q].at # "done" => AsPlanned(q)'
<1> DEFINE p == Record(q)
           i == tx[q].i
           n == Len(BundleOf(q).sources)
           b == BundleOf(q)
<1>1. /\ req[q].at = "write" /\ ImportOK(q) /\ TxOK(tx[q]) /\ Importing(q) /\ RequestsOK
      /\ DOMAIN b.sources = 1 .. n /\ n \in Nat
  BY ImportFacts DEF WriteSource, ImportSteps, Importing
<1>2. /\ i \in 1 .. n /\ p = b.sources[i] /\ p.id \in Sources
      /\ \A j, k \in 1 .. n : b.sources[j].id = b.sources[k].id => j = k
  BY <1>1 DEF Record, ImportOK, BundleOK, IsBundle, Distinct
<1>3. p.id \notin SourcesWritten(q)
  <2>1. SourcesWritten(q) = {b.sources[j].id : j \in 1 .. i - 1}
    BY <1>1 DEF SourcesWritten
  <2> SUFFICES ASSUME NEW j \in 1 .. i - 1, p.id = b.sources[j].id PROVE FALSE
    BY <2>1
  <2> QED
    BY <1>1, <1>2
<1>4. p.id \in DOMAIN tx[q].src <=> sources[p.id].there
  <2>1. p.id \in DOMAIN tx[q].src => sources[p.id].there
    BY <1>1, <1>3 DEF ImportOK, RowsHeld, UnwrittenRow
  <2>2. sources[p.id].there => p.id \in DOMAIN tx[q].src
    BY <1>1 DEF AsPlanned
  <2> QED
    BY <2>1, <2>2
<1>5. ASSUME req'[q].at # "done" PROVE AsPlanned(q)'
  <2> DEFINE new == ImportedSource(SourceSeen(q, p.id), p, tx[q].known, tx[q].usable)
             src == Put(tx[q].src, p.id, new)
             next == IF i < n THEN i + 1 ELSE 1
             fields == {IF p.id \in DOMAIN tx[q].src THEN "sources_updated" ELSE "sources_created"}
                          \cup (IF p.account \in tx[q].known THEN {"account_bindings_preserved"}
                                ELSE IF p.account # None THEN {"account_bindings_cleared"} ELSE {})
             counts == Add(tx[q].counts, fields)
             held == [tx[q] EXCEPT !.src = src, !.i = next, !.counts = counts]
             at == IF i < n THEN "lock" ELSE "commit"
  <2>1. Statement(q, at, held)
    <3>1. ASSUME NEW reply, Rollback(q, reply) PROVE FALSE
      <4>1. req'[q].at = "done"
        BY <1>1, <3>1 DEF Rollback, RequestsOK, ReqOK, ReqFields
      <4> QED
        BY <1>5, <4>1
    <3> QED
      BY <3>1 DEF WriteSource
  <2> HIDE DEF src, next, counts
  <2>2. held.i = next /\ held.counts = counts /\ held.known = tx[q].known
    BY <1>1 DEF TxOK, TxFields
  <2> HIDE DEF held
  <2>3. StatementIs(q, at, held)
    BY <1>1, <2>1, StatementFacts DEF ImportSteps
  <2>4. tx'[q] = held /\ req'[q].at = at /\ BundleOf(q)' = b /\ sources' = sources /\ Known' = Known
    BY <2>3 DEF StatementIs, Known
  <2>5. AccountsDone(q) = DOMAIN b.accounts /\ AccountsDone(q)' = DOMAIN b.accounts /\ SourcesDone(q) = 1 .. i - 1
    BY <1>1, <2>4 DEF AccountsDone, SourcesDone
  <2>6. SourcesDone(q)' = 1 .. i
    <3>1. CASE i < n
      BY <1>2, <2>2, <2>4, <3>1 DEF SourcesDone, next
    <3>2. CASE ~(i < n)
      <4>1. i = n
        BY <1>1, <1>2, <3>2
      <4> QED
        BY <1>1, <2>4, <3>2, <4>1 DEF SourcesDone
    <3> QED
      BY <3>1, <3>2
  <2>7. tx[q].known = Known \cup Ids(b.accounts)
    BY <1>1 DEF AsPlanned
  <2>8. counts = Planned(b, Known, sources, DOMAIN b.accounts, 1 .. i)
    <3>1. tx[q].counts = Planned(b, Known, sources, DOMAIN b.accounts, 1 .. i - 1)
      BY <2>5 DEF AsPlanned
    <3>2. i \in Nat \ {0} /\ None \notin Known \cup Ids(b.accounts)
      BY <1>1, <1>2, NoneUnknown DEF ImportOK, BundleOK
    <3>3. fields = Counted(b, Known, sources, i)
      BY <1>2, <1>4, <2>7 DEF Counted
    <3> DEFINE as == DOMAIN b.accounts
               before == Planned(b, Known, sources, as, 1 .. i - 1)
    <3> HIDE DEF i, b, p, as, fields
    <3>4. Planned(b, Known, sources, as, 1 .. i) = Add(before, fields)
      BY <3>2, <3>3, PlannedSource
    <3> QED
      BY <3>1, <3>4 DEF counts, as
  <2>9. at \in {"lock", "commit"}
    OBVIOUS
  <2> HIDE DEF at, b, i, n, p
  <2> QED
    BY <2>2, <2>4, <2>5, <2>6, <2>7, <2>8, <2>9 DEF AsPlanned
<1> QED
  BY <1>4, <1>5

LEMMA PlansStep ==
    ASSUME WebIInv, SentOK, FilesOK, ToldOK, PlansOK, NEW q \in Requests, StepOf(q) PROVE PlansOK'
<1>1. StepOK(q)
  BY RequestStep DEF StepOf
<1> SUFFICES ASSUME NEW r \in Requests, Importing(r)', Undisturbed(r)' PROVE AsPlanned(r)'
  BY DEF PlansOK
<1>2. CASE r # q
  <2>1. Importing(r) /\ Open(r)
    BY <1>1, <1>2 DEF StepOK, Acts, Importing, ImportSteps, Open
  <2>2. Undisturbed(r) /\ Calm
    BY <1>1, <2>1, StillUndisturbed
  <2> QED
    BY <1>1, <1>2, <2>1, <2>2, PlanStays DEF PlansOK
<1>3. CASE r = q
  <2>1. Undisturbed(q)
    BY <1>1, <1>3, StillUndisturbed
  <2>2. Kind(q) = "import" /\ req'[q].at \in ImportSteps
    <3>1. ReqOK(req'[q]) /\ Kind(q)' = Kind(q)
      BY <1>1, ActsKeeps DEF StepOK, Acts, WebIInv
    <3> QED
      BY <1>3, <3>1 DEF ReqOK, Importing, Kind, Ask
  <2>3. CASE Receive(q)
    BY <1>1, <1>3, <2>3, PlanStarts
  <2>4. ASSUME NEW reply, Rollback(q, reply) \/ CommitImport(q, reply) PROVE FALSE
    <3>0. ReqOK(req[q]) /\ req = [x \in Requests |-> req[x]]
      BY DEF WebIInv, RequestsOK
    <3>1. Rollback(q, reply) => req'[q].at = "done"
      BY <3>0 DEF Rollback, ReqOK, ReqFields
    <3>2. CommitImport(q, reply) => req'[q].at = "done"
      <4> DEFINE result == [req[q].result EXCEPT !.counts = tx[q].counts, !.base = edits]
      <4>1. CommitImport(q, reply) => req' = [req EXCEPT ![q] = [@ EXCEPT !.at = "done", !.reply = reply, !.result = result]]
        BY DEF CommitImport
      <4> HIDE DEF result
      <4> QED
        BY <3>0, <4>1 DEF ReqOK, ReqFields
    <3> QED
      BY <2>2, <2>4, <3>1, <3>2 DEF ImportSteps
  <2>5. CASE ImportStep(q)
    <3>1. LockAccount(q) \/ WriteAccount(q) \/ ReadAccountStates(q) \/ LockSource(q) \/ WriteSource(q)
      BY <2>4, <2>5 DEF ImportStep
    <3>2. Importing(q)
      BY <3>1 DEF LockAccount, WriteAccount, ReadAccountStates, LockSource, WriteSource, At, Importing, ImportSteps
    <3>3. AsPlanned(q)
      BY <2>1, <3>2 DEF PlansOK
    <3>4. req'[q].at # "done"
      BY <2>2 DEF ImportSteps
    <3> QED
      BY <1>3, <3>1, <3>3, <3>4, PlanLockAccount, PlanWriteAccount, PlanReadStates, PlanLockSource, PlanWriteSource
  <2>6. CASE StorageFails(q) \/ DeadlockVictim(q)
    BY <2>4, <2>6 DEF StorageFails, DeadlockVictim
  <2> QED
    BY <2>2, <2>3, <2>5, <2>6, StepKinds
<1> QED
  BY <1>2, <1>3

\* How an import is answered: by its commit, or because a statement was refused.
LEMMA ImportEnds ==
    ASSUME WebIInv, SentOK, NEW q \in Requests, StepOf(q), Kind(q) = "import", req'[q].reply \in {"ok", "conflict"}
    PROVE  /\ Importing(q) /\ req'[q].result.base = edits
           /\ req'[q].reply = "ok" => req[q].at = "commit" /\ req'[q].result.counts = tx[q].counts
           /\ req'[q].reply = "conflict" =>
                 \/ /\ WriteAccount(q) /\ Record(q).id \notin DOMAIN tx[q].acc
                    /\ accounts[Record(q).id].state # "absent"
                 \/ /\ WriteSource(q)
                    /\ \/ BookTaken(q, Record(q).id, Record(q).book)
                       \/ Record(q).id \notin DOMAIN tx[q].src /\ sources[Record(q).id].there
<1>1. ReqOK(req[q]) /\ req = [r \in Requests |-> req[r]] /\ req[q].at \in ImportSteps \cup {"new", "done"}
  BY ReqFacts DEF WebIInv, RequestsOK
<1>2. ASSUME NEW at, NEW held, Statement(q, at, held), req[q].at # "done" PROVE FALSE
  <2>1. req'[q].reply = None
    BY <1>1, <1>2 DEF Statement, Move, ReqOK, ReqFields
  <2> QED
    BY <2>1 DEF None
<1>3. ASSUME NEW reply, Rollback(q, reply) PROVE req'[q].reply = reply /\ req'[q].result.base = edits
  BY <1>1, <1>3 DEF Rollback, ReqOK, ReqFields, ResultFields
<1>4. ASSUME NEW reply, CommitImport(q, reply)
      PROVE  req'[q].reply = reply /\ req'[q].result.base = edits /\ req'[q].result.counts = tx[q].counts /\ req[q].at = "commit"
  <2> DEFINE c == tx[q].counts
             result == [req[q].result EXCEPT !.counts = c, !.base = edits]
  <2>1. req' = [req EXCEPT ![q] = [@ EXCEPT !.at = "done", !.reply = reply, !.result = result]] /\ req[q].at = "commit"
    BY <1>4 DEF CommitImport, At
  <2> HIDE DEF c
  <2>2. result.counts = c /\ result.base = edits
    BY <1>1 DEF ReqOK, ResultFields
  <2> HIDE DEF result
  <2>3. req'[q].reply = reply /\ req'[q].result = result
    BY <1>1, <2>1 DEF ReqOK, ReqFields
  <2> QED
    BY <2>1, <2>2, <2>3 DEF c
<1>5. CASE Receive(q)
  BY <1>5, ReceiveIs DEF None
<1>6. CASE StorageFails(q)
  BY <1>3, <1>4, <1>6 DEF StorageFails
<1>7. CASE CommitImport(q, "ok")
  BY <1>4, <1>7 DEF Importing, ImportSteps
<1>8. CASE DeadlockVictim(q)
  BY <1>3, <1>8 DEF DeadlockVictim
<1>9. CASE LockAccount(q) \/ ReadAccountStates(q) \/ LockSource(q)
  <2>1. req[q].at # "done"
    BY <1>9 DEF LockAccount, ReadAccountStates, LockSource, At
  <2> QED
    BY <1>2, <1>9, <2>1 DEF LockAccount, ReadAccountStates, LockSource
<1>10. CASE WriteAccount(q)
  <2>1. req[q].at = "account_write"
    BY <1>10 DEF WriteAccount, At
  <2>2. /\ Record(q).id \notin DOMAIN tx[q].acc /\ accounts[Record(q).id].state # "absent"
        /\ Rollback(q, config_transfer_error_response("UniqueViolation"))
    BY <1>2, <1>10, <2>1 DEF WriteAccount
  <2>3. config_transfer_error_response("UniqueViolation") = "conflict"
    BY DEF config_transfer_error_response
  <2> QED
    BY <1>3, <1>10, <2>1, <2>2, <2>3 DEF Importing, ImportSteps
<1>11. CASE WriteSource(q)
  <2>1. req[q].at = "write"
    BY <1>11 DEF WriteSource, At
  <2>2. /\ \/ BookTaken(q, Record(q).id, Record(q).book)
           \/ Record(q).id \notin DOMAIN tx[q].src /\ sources[Record(q).id].there
        /\ Rollback(q, config_transfer_error_response("Conflict"))
    BY <1>2, <1>11, <2>1 DEF WriteSource
  <2>3. config_transfer_error_response("Conflict") = "conflict"
    BY DEF config_transfer_error_response
  <2> QED
    BY <1>3, <1>11, <2>1, <2>2, <2>3 DEF Importing, ImportSteps
<1> QED
  BY <1>5, <1>6, <1>7, <1>8, <1>9, <1>10, <1>11, StepKinds DEF ImportStep

\* An undisturbed import whose books nobody else has is not refused for a conflict.
LEMMA NotRefused ==
    ASSUME WebIInv, BooksOK, SentOK, PlansOK, NEW q \in Requests, StepOf(q), Kind(q) = "import",
           Undisturbed(q), NoClash(BundleOf(q), sources)
    PROVE  req'[q].reply # "conflict"
<1> SUFFICES ASSUME req'[q].reply = "conflict" PROVE FALSE
  OBVIOUS
<1> DEFINE p == Record(q)
           b == BundleOf(q)
           i == tx[q].i
<1>1. /\ Importing(q)
      /\ \/ /\ WriteAccount(q) /\ p.id \notin DOMAIN tx[q].acc /\ accounts[p.id].state # "absent"
         \/ /\ WriteSource(q)
            /\ BookTaken(q, p.id, p.book) \/ (p.id \notin DOMAIN tx[q].src /\ sources[p.id].there)
  BY ImportEnds
<1>2. AsPlanned(q) /\ ImportOK(q) /\ ValidBundle(b)
  BY <1>1 DEF PlansOK, WebIInv, ImportsOK, BooksOK
<1>3. WriteSource(q) /\ BookTaken(q, p.id, p.book)
  BY <1>1, <1>2, PlanWriteAccount, PlanWriteSource
<1>4. PICK o \in Sources \ {p.id} : SourceSeen(q, o).there /\ SourceSeen(q, o).book = p.book
  BY <1>3 DEF BookTaken
<1>5. req[q].at = "write"
  BY <1>3 DEF WriteSource, At
<1>6. i \in DOMAIN b.sources /\ p = b.sources[i]
  BY <1>2, <1>5 DEF ImportOK, BundleOK, IsBundle, Record
<1>7. sources[o].there => sources[o].book # p.book
  BY <1>4, <1>6 DEF NoClash
<1>8. CASE o \notin DOMAIN tx[q].src
  BY <1>4, <1>7, <1>8 DEF SourceSeen
<1>9. CASE o \in DOMAIN tx[q].src /\ o \in SourcesWritten(q)
  <2>1. PICK j \in DOMAIN b.sources : b.sources[j].id = o
    BY <1>2, <1>5, <1>9 DEF SourcesWritten, ImportOK, BundleOK, IsBundle
  <2>2. tx[q].src[o].book = b.sources[j].book
    BY <1>2, <1>9, <2>1 DEF ImportOK, RowsAsAsked, AsAsked, Portable
  <2>3. b.sources[j].book = b.sources[i].book
    BY <1>4, <1>6, <1>9, <2>2 DEF SourceSeen
  <2>4. j = i
    BY <1>2, <1>6, <2>1, <2>3 DEF ValidBundle, Distinct
  <2> QED
    BY <1>4, <1>6, <2>1, <2>4
<1>10. CASE o \in DOMAIN tx[q].src /\ o \notin SourcesWritten(q)
  <2>1. UnwrittenRow(q, o, tx[q].src[o])
    BY <1>2, <1>10 DEF ImportOK, RowsHeld
  <2>2. IsSource(sources[o])
    BY <1>4 DEF WebIInv, TablesOK
  <2>3. sources[o].there /\ ResumedSource(sources[o]).book = sources[o].book
    BY <2>1, <2>2 DEF UnwrittenRow, IsSource, ResumedSource, SourceFields, NoSource
  <2> QED
    BY <1>4, <1>7, <1>10, <2>1, <2>3 DEF UnwrittenRow, SourceSeen
<1> QED
  BY <1>8, <1>9, <1>10

LEMMA PreviewStep ==
    ASSUME WebIInv, BundleInv, NEW q \in Requests, StepOf(q) PROVE PreviewKept'
<1>1. StepOK(q)
  BY RequestStep DEF StepOf
<1>2. \A r \in Requests : Kind(r)' = Kind(r) /\ Ask(r)'.after = Ask(r).after
  BY <1>1, ActsKeeps DEF StepOK, WebIInv, SameAsk
<1> SUFFICES ASSUME NEW p \in Requests, NEW r \in Requests,
                    Kind(p) = "preview", req'[p].reply = "ok", req'[p].result.steady,
                    Kind(r) = "import", req'[r].reply \in {"ok", "conflict"}, p \in Ask(r).after,
                    BundleOf(p)' = BundleOf(r)', req'[p].result.base = req'[r].result.base,
                    ~req'[p].result.conflicts
             PROVE  req'[r].reply = "ok" /\ req'[r].result.counts = req'[p].result.counts
  BY <1>2 DEF PreviewKept
<1>3. r = q \/ (r # q /\ req'[r] = req[r] /\ req[r].reply # None)
  BY <1>1 DEF StepOK, Acts, None
<1>4. req[p].at = "done"
  <2>1. CASE r = q
    BY <1>1, <2>1, SentBefore DEF BundleInv
  <2>2. CASE r # q
    BY <1>3, <2>2 DEF BundleInv, SentOK
  <2> QED
    BY <2>1, <2>2
<1>5. p # q /\ req'[p] = req[p] /\ req[p].reply # None
  BY <1>1, <1>4 DEF StepOK, Acts, None
<1>6. BundleOf(p)' = BundleOf(p) /\ BundleOf(r)' = BundleOf(r)
  BY <1>1, <1>3, <1>5, BundleKept DEF BundleInv
<1>7. CASE r # q
  BY <1>3, <1>5, <1>6, <1>7 DEF BundleInv, BundlesAgree, PreviewKept
<1>8. CASE r = q
  <2> DEFINE b == BundleOf(q)
  <2>1. /\ Importing(q) /\ req'[q].result.base = edits
        /\ req'[q].reply = "ok" => req[q].at = "commit" /\ req'[q].result.counts = tx[q].counts
    BY <1>8, ImportEnds DEF BundleInv
  <2>2. Undisturbed(q)
    BY <1>5, <1>8, <2>1 DEF Undisturbed
  <2>3. AsPlanned(q) /\ ImportOK(q)
    BY <2>1, <2>2 DEF BundleInv, PlansOK, WebIInv, ImportsOK
  <2>4. req[p].result.counts = Told(b, Known, sources).counts /\ ~Told(b, Known, sources).conflicts
    BY <1>5, <1>6, <1>8, <2>1 DEF BundleInv, ToldOK
  <2>5. NoClash(b, sources)
    BY <2>4 DEF NoClash, Told, preview_sources
  <2>6. req'[q].reply = "ok"
    BY <1>8, <2>2, <2>5, NotRefused DEF BundleInv
  <2>7. tx[q].counts = Planned(b, Known, sources, DOMAIN b.accounts, DOMAIN b.sources)
    BY <2>1, <2>3, <2>6 DEF AsPlanned, AccountsDone, SourcesDone
  <2>8. IsBundle(b) /\ Distinct(b.accounts, "id")
    BY <2>3 DEF ImportOK, BundleOK
  <2> HIDE DEF b
  <2>9. Told(b, Known, sources).counts = tx[q].counts
    BY <2>7, <2>8, NoneUnknown, PlannedIsTold
  <2> QED
    BY <1>5, <1>8, <2>1, <2>4, <2>6, <2>9
<1> QED
  BY <1>7, <1>8

LEMMA ExportStaysGood ==
    ASSUME WebIInv, BundleInv, NEW q \in Requests, StepOf(q) PROVE ExportComesBack'
<1>1. StepOK(q) /\ FilesOK'
  BY RequestStep, FilesStep DEF StepOf, BundleInv
<1>2. \A r \in Requests : Kind(r)' = Kind(r) /\ Ask(r)'.from = Ask(r).from
  BY <1>1, ActsKeeps DEF StepOK, WebIInv, SameAsk
<1> SUFFICES ASSUME NEW e \in Requests, Kind(e) = "export", req'[e].reply = "ok"
             PROVE  /\ ValidBundle(req'[e].result.file)
                    /\ \A r \in Requests : (Kind(r) = "import" /\ Ask(r).from = e) =>
                          ~(req'[r].reply = "conflict" /\ req'[r].result.base = req'[e].result.base)
  BY <1>2 DEF ExportComesBack
<1>3. ValidBundle(req'[e].result.file)
  BY <1>1, <1>2 DEF FilesOK
<1>4. ASSUME NEW r \in Requests, Kind(r) = "import", Ask(r).from = e,
             req'[r].reply = "conflict", req'[r].result.base = req'[e].result.base
      PROVE  FALSE
  <2>1. r = q \/ (r # q /\ req'[r] = req[r] /\ req[r].reply # None)
    BY <1>1, <1>4 DEF StepOK, Acts, None
  <2>2. e # None
    BY WebAssumption
  <2>3. req[e].reply = "ok"
    <3>1. CASE r = q
      BY <1>1, <1>4, <2>2, <3>1, SentBefore DEF BundleInv
    <3>2. CASE r # q
      BY <1>4, <2>1, <2>2, <3>2 DEF BundleInv, SentOK
    <3> QED
      BY <3>1, <3>2
  <2>4. req'[e] = req[e]
    BY <1>1, <2>3, RepliedIsDone DEF StepOK, Acts
  <2>5. CASE r # q
    BY <1>4, <2>1, <2>3, <2>4, <2>5 DEF BundleInv, BundlesAgree, ExportComesBack
  <2>6. CASE r = q
    <3>1. req'[q].result.base = edits
      BY <1>4, <2>6, ImportEnds DEF BundleInv
    <3>2. Undisturbed(q)
      BY <1>4, <2>3, <2>4, <2>6, <3>1 DEF Undisturbed
    <3>3. BundleOf(q) = req[e].result.file
      BY <1>4, <2>2, <2>6 DEF BundleOf
    <3>4. NoClash(BundleOf(q), sources)
      BY <1>4, <2>3, <2>4, <2>6, <3>1, <3>3 DEF BundleInv, FilesOK
    <3> QED
      BY <1>4, <2>6, <3>2, <3>4, NotRefused DEF BundleInv
  <2> QED
    BY <2>5, <2>6
<1> QED
  BY <1>3, <1>4

-----------------------------------------------------------------------------
(* The other steps. *)

LEMMA BundleTick == ASSUME WebIInv, BundleInv, Tick \/ UNCHANGED vars PROVE BundleInv'
<1>1. accounts' = accounts /\ sources' = sources /\ req' = req /\ tx' = tx /\ edits' = edits
  BY DEF Tick, vars, dbVars
<1>2. \A r \in Requests : View(r)' = View(r) /\ BundleOf(r)' = BundleOf(r) /\ Kind(r)' = Kind(r) /\ Ask(r)' = Ask(r)
  BY <1>1 DEF View, SourceSeen, BundleOf, Kind, Ask
<1>3. Known' = Known
  BY <1>1 DEF Known
<1>4. \A r \in Requests : (Importing(r)' <=> Importing(r)) /\ (Open(r)' <=> Open(r)) /\ (Undisturbed(r)' <=> Undisturbed(r))
  BY <1>1, <1>2 DEF Importing, Open, Undisturbed
<1>5. BooksOK'
  BY <1>1, <1>2, <1>4 DEF BundleInv, BooksOK, BooksApart
<1>6. SentOK' /\ FilesOK' /\ ToldOK'
  BY <1>1, <1>2, <1>3, <1>4 DEF BundleInv, SentOK, FilesOK, ToldOK
<1>7. PlansOK'
  <2>1. ASSUME NEW r \in Requests PROVE AsPlanned(r)' <=> AsPlanned(r)
    <3>1. AccountsDone(r)' = AccountsDone(r) /\ SourcesDone(r)' = SourcesDone(r) /\ Record(r)' = Record(r)
      BY <1>1, <1>2 DEF AccountsDone, SourcesDone, Record
    <3>2. AccountsWritten(r)' = AccountsWritten(r)
      BY <1>1, <1>2 DEF AccountsWritten
    <3> QED
      BY <1>1, <1>2, <1>3, <3>1, <3>2 DEF AsPlanned
  <2> QED
    BY <1>4, <2>1 DEF BundleInv, PlansOK
<1>8. BundlesAgree'
  BY <1>1, <1>2 DEF BundleInv, BundlesAgree, PreviewKept, ExportComesBack
<1> QED
  BY <1>5, <1>6, <1>7, <1>8 DEF BundleInv

LEMMA BundleRestart == ASSUME WebIInv, BundleInv, Restart PROVE BundleInv'
<1>1. accounts' = accounts /\ sources' = sources /\ edits' = edits /\ \A r \in Requests : tx'[r] = NoTx
  BY DEF Restart, dbVars
<1>2. \A r \in Requests : /\ req[r].at \in {"new", "done"} => req'[r] = req[r]
                          /\ req[r].at \notin {"new", "done"} => req'[r].at = "done" /\ req'[r].reply = "lost"
                          /\ req'[r].ask = req[r].ask /\ req'[r].at \in {"new", "done"}
  BY RestartIs
<1>3. \A r \in Requests : Kind(r)' = Kind(r) /\ Ask(r)' = Ask(r) /\ ~Importing(r)' /\ ~Open(r)'
  BY <1>2 DEF Kind, Ask, Importing, ImportSteps, Open
<1>4. ASSUME NEW r \in Requests, req'[r].reply # "lost" PROVE req'[r] = req[r]
  BY <1>2, <1>4
<1>5. \A r \in Requests : req[r].reply = "ok" => req'[r] = req[r] /\ req[r].at = "done"
  BY <1>2, RepliedIsDone
<1>6. ASSUME NEW r \in Requests, Ask(r).from # None => req[Ask(r).from].reply = "ok" PROVE BundleOf(r)' = BundleOf(r)
  <2>1. Ask(r).from # None => Ask(r).from \in Requests
    BY ReqFacts DEF WebIInv
  <2> QED
    BY <1>3, <1>5, <1>6, <2>1 DEF BundleOf
<1>7. BooksOK'
  <2>1. ASSUME NEW r \in Requests PROVE GoodRows(View(r)') /\ DOMAIN tx'[r].acc = {} /\ DOMAIN tx'[r].src = {}
    <3>1. DOMAIN tx'[r].acc = {} /\ DOMAIN tx'[r].src = {}
      BY <1>1, EmptyTx
    <3>2. \A s \in Sources : View(r)'[s] = sources[s]
      BY <1>1, <3>1 DEF View, SourceSeen
    <3> QED
      BY <3>1, <3>2 DEF BundleInv, BooksOK, GoodRows
  <2> QED
    BY <1>1, <1>3, <2>1 DEF BundleInv, BooksOK, BooksApart
<1>8. \A r \in Requests : req'[r].reply # None =>
        /\ \A w \in Requests : w \in Ask(r).after => req[w].at = "done"
        /\ Ask(r).from # None => req[Ask(r).from].reply = "ok"
  <2> SUFFICES ASSUME NEW r \in Requests, req'[r].reply # None
               PROVE  /\ \A w \in Requests : w \in Ask(r).after => req[w].at = "done"
                      /\ Ask(r).from # None => req[Ask(r).from].reply = "ok"
    OBVIOUS
  <2>1. Open(r) \/ req[r].reply # None
    BY <1>2 DEF Open
  <2> QED
    BY <2>1 DEF BundleInv, SentOK
<1>9. SentOK'
  <2>1. ASSUME NEW r \in Requests, req'[r].reply # None
        PROVE  /\ \A w \in Requests : w \in Ask(r).after => req'[w].at = "done"
               /\ Ask(r).from # None => req'[Ask(r).from].reply = "ok"
    <3>1. Ask(r).from # None => Ask(r).from \in Requests
      BY ReqFacts DEF WebIInv
    <3> QED
      BY <1>2, <1>5, <1>8, <2>1, <3>1
  <2> QED
    BY <1>2, <1>3, <2>1 DEF SentOK
<1>10. FilesOK'
  BY <1>1, <1>3, <1>4 DEF BundleInv, FilesOK
<1>11. ToldOK'
  <2> SUFFICES ASSUME NEW p \in Requests, Kind(p) = "preview", req'[p].reply = "ok"
               PROVE  /\ req'[p].result.base \in 0 .. edits'
                      /\ req'[p].result.base = edits' /\ req'[p].result.steady =>
                            /\ req'[p].result.counts = Told(BundleOf(p)', Known', sources').counts
                            /\ req'[p].result.conflicts = Told(BundleOf(p)', Known', sources').conflicts
    BY <1>2, <1>3 DEF ToldOK
  <2>1. req'[p] = req[p]
    BY <1>4
  <2>2. BundleOf(p)' = BundleOf(p)
    BY <1>6, <1>8 DEF None
  <2>3. Known' = Known
    BY <1>1 DEF Known
  <2> QED
    BY <1>1, <2>1, <2>2, <2>3 DEF BundleInv, ToldOK
<1>12. PlansOK'
  BY <1>3 DEF PlansOK
<1>13. PreviewKept'
  <2> SUFFICES ASSUME NEW p \in Requests, NEW r \in Requests,
                      Kind(p) = "preview", req'[p].reply = "ok", req'[p].result.steady,
                      Kind(r) = "import", req'[r].reply \in {"ok", "conflict"}, p \in Ask(r).after,
                      BundleOf(p)' = BundleOf(r)', req'[p].result.base = req'[r].result.base,
                      ~req'[p].result.conflicts
               PROVE  req'[r].reply = "ok" /\ req'[r].result.counts = req'[p].result.counts
    BY <1>3 DEF PreviewKept
  <2>1. req'[p] = req[p] /\ req'[r] = req[r]
    BY <1>4
  <2>2. BundleOf(p)' = BundleOf(p) /\ BundleOf(r)' = BundleOf(r)
    BY <1>6, <1>8 DEF None
  <2> QED
    BY <2>1, <2>2 DEF BundleInv, BundlesAgree, PreviewKept
<1>14. ExportComesBack'
  <2>1. \A r \in Requests : req'[r].reply \in {"ok", "conflict"} => req'[r] = req[r]
    BY <1>4
  <2> QED
    BY <1>3, <2>1 DEF BundleInv, BundlesAgree, ExportComesBack
<1> QED
  BY <1>7, <1>9, <1>10, <1>11, <1>12, <1>13, <1>14 DEF BundleInv, BundlesAgree

LEMMA BundleInit == Init => BundleInv
<1> SUFFICES ASSUME Init PROVE BundleInv
  OBVIOUS
<1>1. PICK w \in Workloads :
        /\ accounts = w.accounts /\ sources = w.sources /\ tx = [r \in Requests |-> NoTx] /\ edits = 0
        /\ req = [r \in Requests |->
                     [ask |-> w.asks[r], reply |-> None, result |-> NoResult,
                      at |-> IF w.asks[r].kind = "idle" THEN "done" ELSE "new"]]
  BY DEF Init
<1>2. IsWorkload(w)
  BY WebAssumption
<1>3. \A r \in Requests : req[r].reply = None /\ req[r].at \in {"new", "done"} /\ tx[r] = NoTx
  BY <1>1
<1>4. BooksOK
  <2>1. GoodRows(sources) /\ \A a \in Accounts : Named(accounts[a])
    BY <1>1, <1>2 DEF IsWorkload
  <2>2. ASSUME NEW r \in Requests PROVE GoodRows(View(r)) /\ DOMAIN tx[r].acc = {} /\ DOMAIN tx[r].src = {}
    <3>1. DOMAIN tx[r].acc = {} /\ DOMAIN tx[r].src = {}
      BY <1>3, EmptyTx
    <3>2. \A s \in Sources : View(r)[s] = sources[s]
      BY <3>1 DEF View, SourceSeen
    <3> QED
      BY <2>1, <3>1, <3>2 DEF GoodRows
  <2> QED
    BY <1>3, <2>1, <2>2 DEF BooksOK, BooksApart, Importing, ImportSteps
<1>5. SentOK
  BY <1>3 DEF SentOK, Open
<1>6. FilesOK /\ ToldOK
  BY <1>3 DEF FilesOK, ToldOK, None
<1>7. PlansOK
  BY <1>3 DEF PlansOK, Importing, ImportSteps
<1>8. BundlesAgree
  BY <1>3 DEF BundlesAgree, PreviewKept, ExportComesBack, None
<1> QED
  BY <1>4, <1>5, <1>6, <1>7, <1>8 DEF BundleInv

\* A bundle means the same to export, preview and import, whatever else
\* requests do meanwhile: what is exported is valid and does not conflict with
\* the tables it is of, and what a preview announces is what its import does.
THEOREM BundlesAreKept == Spec => []BundlesAgree
<1>1. ASSUME WebIInv, BundleInv, [Next]_vars PROVE BundleInv'
  <2>1. ASSUME NEW q \in Requests, StepOf(q) PROVE BundleInv'
    BY <1>1, <2>1, BooksStep, SentStep, FilesStep, ToldStep, PlansStep, PreviewStep, ExportStaysGood
       DEF BundleInv, BundlesAgree
  <2>2. CASE Tick \/ UNCHANGED vars
    BY <1>1, <2>2, BundleTick
  <2>3. CASE Restart
    BY <1>1, <2>3, BundleRestart
  <2> QED
    BY <1>1, <2>1, <2>2, <2>3 DEF Next, StepOf
<1>2. ASSUME BundleInv PROVE BundlesAgree
  BY <1>2 DEF BundleInv
<1> QED
  BY <1>1, <1>2, BundleInit, WebAdminInductive, PTL DEF Spec
=============================================================================
