---------------------------- MODULE RuntimeProofs ----------------------------
(***************************************************************************)
(* Proofs about Runtime: whatever is aborted, interrupted, cancelled or    *)
(* left to a cleanup, permits are conserved, the account's lease is in the *)
(* hands of one session or one cleanup, and a run that ends well has       *)
(* waited for its tasks.                                                   *)
(*                                                                         *)
(* The first part shows that the steps of BrowserSessions preserve         *)
(* SessionInv, the second counts permits, the third puts them together     *)
(* with the supervisor and its tasks. The last part is about the lists of  *)
(* checks of Configuration: every check that building a component makes    *)
(* again was passed before, or is one of the known reasons to refuse.      *)
(***************************************************************************)
EXTENDS Runtime, FiniteSetTheorems, WellFoundedInduction, TLAPS

-----------------------------------------------------------------------------
(* Sessions and the lease. *)

LEMMA SessionDefaults ==
    /\ NoSession \in Session /\ Shaped(NoSession)
    /\ NoSession.stage = "idle" /\ NoSession.mode = "public" /\ NoSession.token = 0
    /\ NoSession.ok /\ NoSession.hb = "off" /\ ~NoSession.lost
BY DEF NoSession, Session, Stages, Shaped, Leased

LEMMA MonitorIsNoWorker ==
    "monitor" \notin Workers /\ "other" \notin Workers /\ "none" \notin Workers /\ Workers \subseteq Holders
    /\ "monitor" \in Holders
BY SessionConstants DEF Holders

\* A session that keeps its token moves on: nothing else is concerned.
LEMMA SessionMoves ==
    ASSUME SessionInv, NEW h \in Holders, NEW s \in Session, ses' = [ses EXCEPT ![h] = s],
           UNCHANGED <<row, cleanups>>, free' \in Nat, sidecar' \in {"up", "down"},
           s.token = ses[h].token, s.lost => ses[h].lost, Shaped(s), h = "monitor" => s.mode = "public"
    PROVE  SessionInv'
<1>1. ses \in [Holders -> Session] /\ ses' \in [Holders -> Session]
  BY DEF SessionInv, TypeOK
<1>2. \A g \in Holders : ses'[g] = IF g = h THEN s ELSE ses[g]
  BY <1>1
<1>3. \A g \in Holders : ses'[g].token = ses[g].token /\ (ses'[g].lost => ses[g].lost)
  BY <1>2
<1>4. TypeOK'
  BY <1>1 DEF SessionInv, TypeOK
<1>5. SessionsShaped'
  BY <1>2, MonitorIsNoWorker DEF SessionInv, SessionsShaped
<1>6. OneHolder'
  BY <1>3 DEF SessionInv, OneHolder
<1>7. RowShaped'
  BY <1>3 DEF SessionInv, RowShaped
<1>8. LeaseAccountedFor'
  BY <1>3, MonitorIsNoWorker DEF SessionInv, LeaseAccountedFor
<1> QED
  BY <1>4, <1>5, <1>6, <1>7, <1>8 DEF SessionInv

\* A worker gets the lease under a token nobody uses.
LEMMA LeaseTaken ==
    ASSUME SessionInv, NEW w \in Workers, ses[w].stage = "lease", LeaseAvailable,
           row' = [token |-> FreshToken, owner |-> w],
           ses' = [ses EXCEPT ![w] = [@ EXCEPT !.stage = "connect", !.token = FreshToken]],
           UNCHANGED <<free, cleanups, sidecar>>
    PROVE  SessionInv'
<1> DEFINE t == FreshToken
           s == [ses[w] EXCEPT !.stage = "connect", !.token = t]
<1>1. t \in Tokens /\ t \notin UsedTokens
  BY DEF LeaseAvailable, FreshToken
<1>2. t # 0 /\ t \notin cleanups /\ t # row.token /\ \A h \in Holders : ses[h].token # t
  BY <1>1 DEF UsedTokens, Tokens
<1>3. ses \in [Holders -> Session] /\ w \in Holders /\ w # "monitor"
  BY MonitorIsNoWorker DEF SessionInv, TypeOK
<1> HIDE DEF t
<1>4. /\ s \in Session /\ s.stage = "connect" /\ s.token = t
      /\ s.mode = ses[w].mode /\ s.lost = ses[w].lost
  BY <1>1, <1>3 DEF Session, Stages
<1>5. ses' = [ses EXCEPT ![w] = s] /\ row' = [token |-> t, owner |-> w]
  BY DEF t
<1> HIDE DEF s
<1>6. ses' \in [Holders -> Session] /\ \A g \in Holders : ses'[g] = IF g = w THEN s ELSE ses[g]
  BY <1>3, <1>4, <1>5
<1>7. TypeOK'
  BY <1>1, <1>5, <1>6 DEF SessionInv, TypeOK
<1>8. ses[w].mode = "auth" /\ ses[w].token = 0 /\ ~ses[w].lost
  BY <1>3 DEF SessionInv, SessionsShaped, Shaped, Leased
<1>9. SessionsShaped'
  BY <1>2, <1>3, <1>4, <1>6, <1>8, MonitorIsNoWorker DEF SessionInv, SessionsShaped, Shaped, Leased
<1>10. OneHolder'
  <2>1. ASSUME NEW g \in Holders PROVE ses'[g].token = IF g = w THEN t ELSE ses[g].token
    <3>1. CASE g = w
      BY ONLY <1>4, <1>6, <3>1, g \in Holders
    <3>2. CASE g # w
      BY ONLY <1>6, <3>2, g \in Holders
    <3> QED
      BY <3>1, <3>2
  <2>2. \A g \in Holders : ses[g].token # 0 =>
           ses[g].token \notin cleanups /\ \A h \in Holders \ {g} : ses[h].token # ses[g].token
    BY DEF SessionInv, OneHolder
  <2>3. ASSUME NEW g \in Holders, ses'[g].token # 0
        PROVE  ses'[g].token \notin cleanups /\ \A h \in Holders \ {g} : ses'[h].token # ses'[g].token
    <3>1. CASE g = w
      BY <1>2, <2>1, <3>1
    <3>2. CASE g # w
      BY <1>2, <2>1, <2>2, <2>3, <3>2
    <3> QED
      BY <3>1, <3>2
  <2> QED
    BY <2>3 DEF OneHolder
<1>11. RowShaped'
  BY <1>2, <1>4, <1>5, <1>6, <1>8 DEF SessionInv, RowShaped
<1>12. LeaseAccountedFor'
  BY <1>3, <1>4, <1>5, <1>6 DEF LeaseAccountedFor
<1> QED
  BY <1>7, <1>9, <1>10, <1>11, <1>12 DEF SessionInv

\* Sessions are dropped: their tokens are left to cleanups.
LEMMA SessionsDropped ==
    ASSUME SessionInv, NEW hs \in SUBSET Holders, NEW s \in Session, s.token = 0, ~s.lost, Shaped(s), s.mode = "public",
           ses' = [h \in Holders |-> IF h \in hs THEN s ELSE ses[h]],
           cleanups' = cleanups \cup ({ses[h].token : h \in hs} \ {0}),
           free' \in Nat, UNCHANGED <<row, sidecar>>
    PROVE  SessionInv'
<1>1. ses \in [Holders -> Session] /\ \A h \in Holders : ses[h] \in Session /\ ses[h].token \in Tokens \cup {0}
  BY DEF SessionInv, TypeOK, Session
<1>2. ses' \in [Holders -> Session] /\ \A g \in Holders : ses'[g] = IF g \in hs THEN s ELSE ses[g]
  BY <1>1
<1>3. TypeOK'
  <2>1. cleanups' \subseteq Tokens
    BY <1>1 DEF SessionInv, TypeOK
  <2> QED
    BY <1>2, <2>1 DEF SessionInv, TypeOK
<1>4. SessionsShaped'
  BY <1>2, MonitorIsNoWorker DEF SessionInv, SessionsShaped
<1>5. OneHolder'
  <2> SUFFICES ASSUME NEW g \in Holders, ses'[g].token # 0
               PROVE  ses'[g].token \notin cleanups' /\ \A h \in Holders \ {g} : ses'[h].token # ses'[g].token
    BY DEF OneHolder
  <2>1. g \notin hs /\ ses'[g] = ses[g]
    BY <1>2
  <2>2. ses[g].token \notin cleanups /\ \A h \in Holders \ {g} : ses[h].token # ses[g].token
    BY <2>1 DEF SessionInv, OneHolder
  <2>3. \A h \in hs : ses[h].token # ses[g].token
    BY <2>1, <2>2
  <2> QED
    BY <1>2, <2>1, <2>2, <2>3
<1>6. RowShaped'
  BY <1>2 DEF SessionInv, RowShaped
<1>7. LeaseAccountedFor'
  <2> SUFFICES ASSUME row.owner \in Workers
               PROVE  ses'[row.owner].token = row.token \/ row.token \in cleanups'
    BY DEF LeaseAccountedFor
  <2>1. ses[row.owner].token = row.token \/ row.token \in cleanups
    BY DEF SessionInv, LeaseAccountedFor
  <2>2. row.token # 0 /\ row.owner \in Holders
    BY MonitorIsNoWorker DEF SessionInv, RowShaped
  <2> QED
    BY <1>2, <2>1, <2>2
<1> QED
  BY <1>3, <1>4, <1>5, <1>6, <1>7 DEF SessionInv

\* A session releases its lease and ends.
LEMMA LeaseReleased ==
    ASSUME SessionInv, NEW w \in Holders, NEW s \in Session, s.token = 0, ~s.lost, Shaped(s), s.mode = "public",
           Holds(w, ses[w].token), row' = NoLease, ses' = [ses EXCEPT ![w] = s],
           free' \in Nat, UNCHANGED <<cleanups, sidecar>>
    PROVE  SessionInv'
<1>1. ses \in [Holders -> Session]
  BY DEF SessionInv, TypeOK
<1>2. ses' \in [Holders -> Session] /\ \A g \in Holders : ses'[g] = IF g = w THEN s ELSE ses[g]
  BY <1>1
<1>3. row'.token = 0 /\ row'.owner = "none" /\ row' \in [token : Tokens \cup {0}, owner : Workers \cup {"other", "none"}]
  BY DEF NoLease
<1>4. TypeOK'
  BY <1>2, <1>3 DEF SessionInv, TypeOK
<1>5. SessionsShaped'
  BY <1>2, MonitorIsNoWorker DEF SessionInv, SessionsShaped
<1>6. OneHolder'
  BY <1>2 DEF SessionInv, OneHolder
<1>7. RowShaped'
  BY <1>2, <1>3, MonitorIsNoWorker DEF SessionInv, RowShaped, SessionsShaped, Shaped
<1>8. LeaseAccountedFor'
  BY <1>3, MonitorIsNoWorker DEF LeaseAccountedFor
<1> QED
  BY <1>4, <1>5, <1>6, <1>7, <1>8 DEF SessionInv

\* A cleanup runs, late or not, or fails.
LEMMA CleanupKeeps ==
    ASSUME SessionInv, NEW c \in cleanups, Cleanup(c)
    PROVE  SessionInv'
<1>1. UNCHANGED <<free, ses, sidecar>> /\ cleanups' = cleanups \ {c}
  BY DEF Cleanup
<1>2. /\ row \in [token : Tokens \cup {0}, owner : Workers \cup {"other", "none"}] /\ c \in Tokens /\ c # 0
      /\ row.owner \in Workers <=> row.token # 0
  BY DEF SessionInv, TypeOK, RowShaped, Tokens
<1>3. \/ row' = NoLease \/ row' = OtherLease
      \/ row' = row /\ row.token # c
  BY <1>2 DEF Cleanup, Releases, Holds
<1>4. CASE row' = NoLease \/ row' = OtherLease
  <2>1. row'.token = 0 /\ row'.owner \in {"none", "other"}
        /\ row' \in [token : Tokens \cup {0}, owner : Workers \cup {"other", "none"}]
    BY <1>4 DEF NoLease, OtherLease
  <2>2. TypeOK'
    BY <1>1, <2>1 DEF SessionInv, TypeOK
  <2>3. SessionsShaped' /\ OneHolder'
    BY <1>1 DEF SessionInv, SessionsShaped, OneHolder
  <2>4. RowShaped' /\ LeaseAccountedFor'
    BY <1>1, <2>1, MonitorIsNoWorker DEF SessionInv, RowShaped, LeaseAccountedFor, SessionsShaped, Shaped
  <2> QED
    BY <2>2, <2>3, <2>4 DEF SessionInv
<1>5. CASE row' = row /\ row.token # c
  BY <1>1, <1>5 DEF SessionInv, TypeOK, SessionsShaped, OneHolder, RowShaped, LeaseAccountedFor
<1> QED
  BY <1>3, <1>4, <1>5

\* The lease expires under whoever holds it.
LEMMA ExpireKeeps ==
    ASSUME SessionInv, Expire
    PROVE  SessionInv' /\ \A h \in Holders : ses'[h].stage = ses[h].stage /\ (ses[h] = NoSession => ses'[h] = ses[h])
<1>1. UNCHANGED <<free, cleanups, sidecar>> /\ row' = NoLease
  BY DEF Expire
<1>2. ses \in [Holders -> Session]
  BY DEF SessionInv, TypeOK
<1> DEFINE s(h) == IF ses[h].token # 0 /\ ses[h].token = row.token THEN [ses[h] EXCEPT !.lost = TRUE] ELSE ses[h]
<1>3. ses' = [h \in Holders |-> s(h)]
  BY DEF Expire
<1>4. \A h \in Holders :
         /\ s(h) \in Session /\ s(h).token = ses[h].token /\ s(h).stage = ses[h].stage /\ s(h).mode = ses[h].mode
         /\ s(h).lost => ses[h].lost \/ ses[h].token # 0
         /\ ses[h].token = 0 => s(h) = ses[h]
  BY <1>2 DEF Session
<1> HIDE DEF s
<1>5. ses' \in [Holders -> Session] /\ \A h \in Holders : ses'[h] = s(h)
  BY <1>3, <1>4
<1>6. row'.token = 0 /\ row'.owner = "none" /\ row' \in [token : Tokens \cup {0}, owner : Workers \cup {"other", "none"}]
  BY <1>1 DEF NoLease
<1>7. TypeOK'
  BY <1>1, <1>5, <1>6 DEF SessionInv, TypeOK
<1>8. SessionsShaped'
  BY <1>4, <1>5, MonitorIsNoWorker DEF SessionInv, SessionsShaped, Shaped
<1>9. OneHolder'
  BY <1>1, <1>4, <1>5 DEF SessionInv, OneHolder
<1>10. RowShaped' /\ LeaseAccountedFor'
  BY <1>4, <1>5, <1>6, MonitorIsNoWorker DEF SessionInv, RowShaped, LeaseAccountedFor, SessionsShaped, Shaped
<1> QED
  BY <1>4, <1>5, <1>7, <1>8, <1>9, <1>10, SessionDefaults DEF SessionInv

LEMMA OtherReplicaKeeps ==
    ASSUME SessionInv, OtherReplica
    PROVE  SessionInv'
<1>1. UNCHANGED <<free, ses, cleanups, sidecar>> /\ (row' = NoLease \/ row' = OtherLease)
  BY DEF OtherReplica
<1>2. row'.token = 0 /\ row'.owner \in {"none", "other"}
      /\ row' \in [token : Tokens \cup {0}, owner : Workers \cup {"other", "none"}]
  BY <1>1 DEF NoLease, OtherLease
<1>3. TypeOK' /\ SessionsShaped' /\ OneHolder'
  BY <1>1, <1>2 DEF SessionInv, TypeOK, SessionsShaped, OneHolder
<1>4. RowShaped' /\ LeaseAccountedFor'
  BY <1>1, <1>2, MonitorIsNoWorker DEF SessionInv, RowShaped, LeaseAccountedFor, SessionsShaped, Shaped
<1> QED
  BY <1>3, <1>4 DEF SessionInv

-----------------------------------------------------------------------------
(* Permits. *)

Held(s) == s.stage \notin {"idle", "select", "permit", "status", "done"}
HeldSessions == {h \in Holders : Holding(h)}

LEMMA HeldFinite ==
    ASSUME NEW hs \in SUBSET Holders
    PROVE  IsFiniteSet(hs) /\ Cardinality(hs) \in Nat
<1>1. IsFiniteSet(Holders)
  BY SessionConstants, FS_AddElement DEF Holders
<1> QED
  BY <1>1, FS_Subset, FS_CardinalityType

\* The permits when one session moves.
LEMMA PermitMoves ==
    ASSUME PermitsConserved, UNCHANGED plan, ses \in [Holders -> Session], free \in Nat, free' \in Nat,
           NEW h \in Holders, NEW s, ses' = [ses EXCEPT ![h] = s],
           free' = free + (IF Held(ses[h]) THEN 1 ELSE 0) - (IF Held(s) THEN 1 ELSE 0)
    PROVE  PermitsConserved'
<1> DEFINE A == HeldSessions
           B == {g \in Holders : Held(ses'[g])}
           C == A \ {h}
<1>1. \A g \in Holders : ses'[g] = IF g = h THEN s ELSE ses[g]
  OBVIOUS
<1>2. HeldSessions' = B
  BY DEF HeldSessions, Holding, Held
<1>3. h \notin C /\ A = (IF Held(ses[h]) THEN C \cup {h} ELSE C) /\ C \subseteq Holders
  BY DEF HeldSessions, Holding, Held
<1>4. B = IF Held(s) THEN C \cup {h} ELSE C
  BY <1>1 DEF HeldSessions, Holding, Held
<1>5. IsFiniteSet(C) /\ Cardinality(C) \in Nat
  BY <1>3, HeldFinite
<1>6. Cardinality(C \cup {h}) = Cardinality(C) + 1
  BY <1>3, <1>5, FS_AddElement
<1>7. free + Cardinality(A) = plan.pool
  BY DEF PermitsConserved, HeldSessions
<1> HIDE DEF A, B, C
<1>8. Cardinality(A) = Cardinality(C) + (IF Held(ses[h]) THEN 1 ELSE 0)
  BY <1>3, <1>5, <1>6
<1>9. Cardinality(B) = Cardinality(C) + (IF Held(s) THEN 1 ELSE 0)
  BY <1>4, <1>5, <1>6
<1>10. free' + Cardinality(B) = plan'.pool
  BY <1>5, <1>7, <1>8, <1>9
<1> QED
  BY <1>2, <1>10 DEF PermitsConserved, HeldSessions

\* The permits of dropped sessions are free at once.
LEMMA PermitsDropped ==
    ASSUME PermitsConserved, UNCHANGED plan, free \in Nat, NEW hs \in SUBSET Holders, Dropped(hs)
    PROVE  PermitsConserved' /\ free' \in Nat
<1> DEFINE A == HeldSessions
           D == {h \in hs : Holding(h)}
<1>1. \A g \in Holders : ses'[g] = IF g \in hs THEN NoSession ELSE ses[g]
  BY DEF Dropped
<1>2. HeldSessions' = A \ D
  BY <1>1, SessionDefaults DEF HeldSessions, Holding
<1>3. D \subseteq A /\ A \subseteq Holders
  BY DEF HeldSessions
<1>4. IsFiniteSet(A) /\ Cardinality(A) \in Nat /\ Cardinality(D) \in Nat
  BY <1>3, HeldFinite
<1>5. Cardinality(A \ D) = Cardinality(A) - Cardinality(D)
  <2>1. A \cap D = D
    BY <1>3
  <2> QED
    BY <1>4, <2>1, FS_Difference
<1>6. free + Cardinality(A) = plan.pool /\ free' = free + Cardinality(D)
  BY DEF PermitsConserved, HeldSessions, Dropped
<1> HIDE DEF A, D
<1>7. free' + Cardinality(A \ D) = plan'.pool /\ free' \in Nat
  BY <1>4, <1>5, <1>6
<1> QED
  BY <1>2, <1>7 DEF PermitsConserved, HeldSessions

-----------------------------------------------------------------------------
(* The steps of a session. *)

\* What a session step leaves, with its permit.
LEMMA MoveKeeps ==
    ASSUME SessionInv, PermitsConserved, UNCHANGED <<plan, row, cleanups, sidecar>>,
           NEW h \in Holders, NEW s \in Session, ses' = [ses EXCEPT ![h] = s],
           s.token = ses[h].token, s.lost => ses[h].lost, Shaped(s), h = "monitor" => s.mode = "public",
           free' \in Nat, free' = free + (IF Held(ses[h]) THEN 1 ELSE 0) - (IF Held(s) THEN 1 ELSE 0)
    PROVE  SessionInv' /\ PermitsConserved'
<1>1. ses \in [Holders -> Session] /\ free \in Nat /\ sidecar' \in {"up", "down"}
  BY DEF SessionInv, TypeOK
<1>2. SessionInv'
  BY <1>1, SessionMoves
<1>3. PermitsConserved'
  BY <1>1, PermitMoves
<1> QED
  BY <1>2, <1>3

LEMMA EndedSession ==
    ASSUME NEW ok \in BOOLEAN
    PROVE  LET s == [NoSession EXCEPT !.stage = "done", !.ok = ok] IN
           s \in Session /\ s.token = 0 /\ ~s.lost /\ Shaped(s) /\ s.mode = "public" /\ s.stage = "done" /\ ~Held(s)
BY DEF NoSession, Session, Stages, Shaped, Leased, Held

\* A session without a lease ends.
LEMMA EndKeeps ==
    ASSUME SessionInv, PermitsConserved, UNCHANGED <<plan, row, cleanups, sidecar>>,
           NEW h \in Holders, NEW ok \in BOOLEAN, Ended(h, ok), ses[h].token = 0
    PROVE  SessionInv' /\ PermitsConserved'
<1> DEFINE s == [NoSession EXCEPT !.stage = "done", !.ok = ok]
<1>1. s \in Session /\ s.token = 0 /\ ~s.lost /\ Shaped(s) /\ s.mode = "public" /\ ~Held(s)
  BY EndedSession
<1>2. ses' = [ses EXCEPT ![h] = s] /\ free' = free + (IF Held(ses[h]) THEN 1 ELSE 0) /\ free \in Nat
  BY DEF Ended, Holding, Held, SessionInv, TypeOK
<1> HIDE DEF s
<1>3. free' \in Nat /\ free' = free + (IF Held(ses[h]) THEN 1 ELSE 0) - (IF Held(s) THEN 1 ELSE 0)
  BY <1>1, <1>2
<1> QED
  BY <1>1, <1>2, <1>3, MoveKeeps

\* A session that stays where permits and leases are concerned.
LEMMA StayKeeps ==
    ASSUME SessionInv, PermitsConserved, UNCHANGED <<plan, free, row, cleanups, sidecar>>,
           NEW h \in Holders, NEW s \in Session, ses' = [ses EXCEPT ![h] = s],
           s.token = ses[h].token, s.lost = ses[h].lost, s.mode = ses[h].mode, Held(s) <=> Held(ses[h]), Shaped(s)
    PROVE  SessionInv' /\ PermitsConserved'
<1>1. h = "monitor" => s.mode = "public"
  BY DEF SessionInv, SessionsShaped
<1>2. free' \in Nat /\ free' = free + (IF Held(ses[h]) THEN 1 ELSE 0) - (IF Held(s) THEN 1 ELSE 0)
  BY DEF SessionInv, TypeOK
<1> QED
  BY <1>1, <1>2, MoveKeeps

\* What is known of the session that takes a step.
LEMMA StepsFrom ==
    ASSUME SessionInv, NEW h \in Holders
    PROVE  ses[h] \in Session /\ Shaped(ses[h]) /\ (h = "monitor" => ses[h].mode = "public") /\ free \in Nat
           /\ (h # "monitor" => h \in Workers)
BY DEF SessionInv, TypeOK, SessionsShaped, Holders

LEMMA BeforeLeaseKeeps ==
    ASSUME SessionInv, PermitsConserved, UNCHANGED plan, NEW h \in Holders,
           select_account(h) \/ TakePermit(h)
    PROVE  SessionInv' /\ PermitsConserved'
<1> DEFINE r == ses[h]
<1>1. r \in Session /\ Shaped(r) /\ (h = "monitor" => r.mode = "public") /\ free \in Nat
  BY StepsFrom
<1>2. UNCHANGED <<row, cleanups, sidecar>>
  BY DEF select_account, TakePermit
<1>3. ASSUME NEW stage \in Stages
      PROVE  LET s == [r EXCEPT !.stage = stage] IN
             /\ s \in Session /\ s.stage = stage /\ s.token = r.token /\ s.mode = r.mode /\ s.lost = r.lost
  BY <1>1 DEF Session
<1>4. CASE select_account(h) /\ At(h, "permit") /\ UNCHANGED free
  <2> DEFINE s == [r EXCEPT !.stage = "permit"]
  <2>1. s \in Session /\ s.stage = "permit" /\ s.token = r.token /\ s.mode = r.mode /\ s.lost = r.lost
    BY <1>3 DEF Stages
  <2>2. ses' = [ses EXCEPT ![h] = s] /\ r.stage = "select"
    BY <1>4 DEF At, select_account
  <2> HIDE DEF s
  <2>3. Shaped(s) /\ (Held(s) <=> Held(r))
    BY <1>1, <2>1, <2>2 DEF Shaped, Held, Leased
  <2> QED
    BY <1>2, <1>4, <2>1, <2>2, <2>3, StayKeeps
<1>5. CASE select_account(h) /\ Ended(h, FALSE)
  <2>1. r.token = 0
    BY <1>1, <1>5 DEF select_account, Shaped, Leased
  <2> QED
    BY <1>2, <1>5, <2>1, EndKeeps
<1>6. CASE TakePermit(h)
  <2> DEFINE stage == IF r.mode = "auth" THEN "lease" ELSE "connect"
             s == [r EXCEPT !.stage = stage]
  <2>1. stage \in Stages
    BY DEF Stages
  <2>2. s \in Session /\ s.stage = stage /\ s.token = r.token /\ s.mode = r.mode /\ s.lost = r.lost
    BY <1>3, <2>1
  <2>3. ses' = [ses EXCEPT ![h] = s] /\ r.stage = "permit" /\ free > 0 /\ free' = free - 1
    BY <1>6 DEF At, TakePermit
  <2> HIDE DEF s
  <2>4. Shaped(s) /\ Held(s) /\ ~Held(r)
    BY <1>1, <2>2, <2>3 DEF Shaped, Held, Leased, Session
  <2>5. free' \in Nat /\ free' = free + (IF Held(r) THEN 1 ELSE 0) - (IF Held(s) THEN 1 ELSE 0)
    BY <1>1, <2>3, <2>4
  <2> QED
    BY <1>1, <1>2, <2>2, <2>3, <2>4, <2>5, MoveKeeps
<1> QED
  BY <1>4, <1>5, <1>6 DEF select_account

LEMMA AcquireLeaseKeeps ==
    ASSUME SessionInv, PermitsConserved, UNCHANGED plan, NEW h \in Holders, AcquireLease(h)
    PROVE  SessionInv' /\ PermitsConserved'
<1>1. ses[h] \in Session /\ Shaped(ses[h]) /\ (h = "monitor" => ses[h].mode = "public") /\ free \in Nat
      /\ (h # "monitor" => h \in Workers)
  BY StepsFrom
<1>2. ses[h].stage = "lease" /\ UNCHANGED <<cleanups, sidecar>>
  BY DEF AcquireLease
<1>3. h \in Workers /\ ses[h].token = 0
  BY <1>1, <1>2 DEF Shaped, Leased
<1>4. CASE Ended(h, FALSE) /\ UNCHANGED row
  BY <1>2, <1>3, <1>4, EndKeeps
<1>5. CASE ~(Ended(h, FALSE) /\ UNCHANGED row)
  <2> DEFINE s == [ses[h] EXCEPT !.stage = "connect", !.token = FreshToken]
  <2>1. /\ LeaseAvailable /\ row' = [token |-> FreshToken, owner |-> h]
        /\ ses' = [ses EXCEPT ![h] = s] /\ UNCHANGED free
    BY <1>5 DEF AcquireLease
  <2>2. SessionInv'
    BY <1>2, <1>3, <2>1, LeaseTaken
  <2>3. s.stage = "connect"
    BY <1>1 DEF Session
  <2>4. Held(s) /\ Held(ses[h])
    BY <1>2, <2>3 DEF Held
  <2> HIDE DEF s
  <2>5. free' = free + (IF Held(ses[h]) THEN 1 ELSE 0) - (IF Held(s) THEN 1 ELSE 0) /\ free' \in Nat
    BY <1>1, <2>1, <2>4
  <2>6. PermitsConserved'
    BY <1>1, <2>1, <2>5, PermitMoves DEF SessionInv, TypeOK
  <2> QED
    BY <2>2, <2>6
<1> QED
  BY <1>4, <1>5

LEMMA ConnectKeeps ==
    ASSUME SessionInv, PermitsConserved, UNCHANGED plan, NEW h \in Holders, Connect(h)
    PROVE  SessionInv' /\ PermitsConserved'
<1> DEFINE r == ses[h]
<1>1. r \in Session /\ Shaped(r) /\ r.stage = "connect" /\ UNCHANGED <<row, cleanups, sidecar>>
  BY StepsFrom DEF Connect
<1>2. CASE Attached(h) /\ UNCHANGED free
  <2> DEFINE stage == IF r.mode = "auth" THEN "prepare" ELSE "page"
             hb == IF r.mode = "auth" THEN "on" ELSE "off"
             s == [r EXCEPT !.stage = stage, !.hb = hb]
  <2>1. ses' = [ses EXCEPT ![h] = s]
    BY <1>2 DEF Attached
  <2>2. stage \in Stages /\ hb \in {"off", "on", "failed"}
    BY DEF Stages
  <2>3. stage = (IF r.mode = "auth" THEN "prepare" ELSE "page")
    OBVIOUS
  <2> HIDE DEF stage, hb
  <2>4. s \in Session /\ s.stage = stage /\ s.token = r.token /\ s.mode = r.mode /\ s.lost = r.lost
    BY <1>1, <2>2 DEF Session
  <2> HIDE DEF s
  <2>5. Shaped(s) /\ (Held(s) <=> Held(r))
    BY <1>1, <2>3, <2>4 DEF Shaped, Held, Leased, Session
  <2> QED
    BY <1>1, <1>2, <2>1, <2>4, <2>5, StayKeeps
<1>3. CASE r.mode # "auth" /\ Ended(h, FALSE)
  <2>1. r.token = 0
    BY <1>1, <1>3 DEF Shaped
  <2> QED
    BY <1>1, <1>3, <2>1, EndKeeps
<1>4. CASE /\ r.mode = "auth" /\ UNCHANGED free
           /\ ses' = [ses EXCEPT ![h] = [@ EXCEPT !.stage = "release", !.ok = FALSE]]
  <2> DEFINE s == [r EXCEPT !.stage = "release", !.ok = FALSE]
  <2>1. s \in Session /\ s.stage = "release" /\ s.token = r.token /\ s.mode = r.mode /\ s.lost = r.lost
    BY <1>1 DEF Session, Stages
  <2>2. ses' = [ses EXCEPT ![h] = s]
    BY <1>4
  <2> HIDE DEF s
  <2>3. Shaped(s) /\ (Held(s) <=> Held(r))
    BY <1>1, <1>4, <2>1 DEF Shaped, Held, Leased
  <2> QED
    BY <1>1, <1>4, <2>1, <2>2, <2>3, StayKeeps
<1> QED
  BY <1>2, <1>3, <1>4 DEF Connect

LEMMA RequestsKeep ==
    ASSUME SessionInv, PermitsConserved, UNCHANGED plan, NEW h \in Holders,
           PrepareRequest(h) \/ Authenticate(h) \/ Request(h) \/ Page(h) \/ HeartbeatFails(h) \/ StopHeartbeat(h)
    PROVE  SessionInv' /\ PermitsConserved'
<1> DEFINE r == ses[h]
<1>1. r \in Session /\ Shaped(r)
  BY StepsFrom
<1>2. UNCHANGED <<free, row, cleanups, sidecar>>
  BY DEF PrepareRequest, Authenticate, Request, Page, HeartbeatFails, StopHeartbeat
<1>3. ASSUME NEW stage \in {"authenticate", "request", "stop", "close"}, At(h, stage),
             r.stage \in {"prepare", "authenticate", "request", "page"}, r.stage = "page" => stage = "close"
      PROVE  SessionInv' /\ PermitsConserved'
  <2> DEFINE s == [r EXCEPT !.stage = stage]
  <2>1. ses' = [ses EXCEPT ![h] = s]
    BY <1>3 DEF At
  <2>2. s \in Session /\ s.stage = stage /\ s.token = r.token /\ s.mode = r.mode /\ s.lost = r.lost
    BY <1>1, <1>3 DEF Session, Stages
  <2> HIDE DEF s
  <2>3. Shaped(s) /\ (Held(s) <=> Held(r))
    BY <1>1, <1>3, <2>2 DEF Shaped, Held, Leased
  <2> QED
    BY <1>2, <2>1, <2>2, <2>3, StayKeeps
<1>4. ASSUME Failed(h), r.stage \in {"prepare", "authenticate", "request", "page"}
      PROVE  SessionInv' /\ PermitsConserved'
  <2> DEFINE s == [r EXCEPT !.stage = "close", !.ok = FALSE, !.hb = "off"]
  <2>1. ses' = [ses EXCEPT ![h] = s]
    BY <1>4 DEF Failed
  <2>2. s \in Session /\ s.stage = "close" /\ s.token = r.token /\ s.mode = r.mode /\ s.lost = r.lost
    BY <1>1 DEF Session, Stages
  <2> HIDE DEF s
  <2>3. Shaped(s) /\ (Held(s) <=> Held(r))
    BY <1>1, <1>4, <2>2 DEF Shaped, Held, Leased
  <2> QED
    BY <1>2, <2>1, <2>2, <2>3, StayKeeps
<1>5. CASE HeartbeatFails(h)
  <2> DEFINE s == [r EXCEPT !.hb = "failed"]
  <2>1. ses' = [ses EXCEPT ![h] = s]
    BY <1>5 DEF HeartbeatFails
  <2>2. s \in Session /\ s.stage = r.stage /\ s.token = r.token /\ s.mode = r.mode /\ s.lost = r.lost
    BY <1>1 DEF Session
  <2> HIDE DEF s
  <2>3. Shaped(s) /\ (Held(s) <=> Held(r))
    BY <1>1, <2>2 DEF Shaped, Held
  <2> QED
    BY <1>2, <2>1, <2>2, <2>3, StayKeeps
<1>6. CASE StopHeartbeat(h)
  <2> DEFINE ok == r.ok /\ ~cancelled(h)
             s == [r EXCEPT !.stage = "close", !.hb = "off", !.ok = ok]
  <2>1. ses' = [ses EXCEPT ![h] = s] /\ r.stage = "stop"
    BY <1>6 DEF StopHeartbeat
  <2>2. ok \in BOOLEAN
    OBVIOUS
  <2> HIDE DEF ok
  <2>3. s \in Session /\ s.stage = "close" /\ s.token = r.token /\ s.mode = r.mode /\ s.lost = r.lost
    BY <1>1, <2>2 DEF Session, Stages
  <2> HIDE DEF s
  <2>4. Shaped(s) /\ (Held(s) <=> Held(r))
    BY <1>1, <2>1, <2>3 DEF Shaped, Held, Leased
  <2> QED
    BY <1>2, <2>1, <2>3, <2>4, StayKeeps
<1>7. CASE PrepareRequest(h)
  BY <1>3, <1>4, <1>7 DEF PrepareRequest
<1>8. CASE Authenticate(h)
  BY <1>3, <1>4, <1>8 DEF Authenticate
<1>9. CASE Request(h)
  BY <1>3, <1>4, <1>9 DEF Request
<1>10. CASE Page(h)
  BY <1>3, <1>4, <1>10 DEF Page
<1> QED
  BY <1>5, <1>6, <1>7, <1>8, <1>9, <1>10

LEMMA CloseKeeps ==
    ASSUME SessionInv, PermitsConserved, UNCHANGED plan, NEW h \in Holders, Close(h)
    PROVE  SessionInv' /\ PermitsConserved'
<1> DEFINE r == ses[h]
<1>1. r \in Session /\ Shaped(r) /\ r.stage = "close" /\ UNCHANGED <<row, cleanups, sidecar>>
  BY StepsFrom DEF Close
<1>2. PICK quit \in close_webdriver(h) :
         IF r.mode = "auth"
         THEN ses' = [ses EXCEPT ![h] = [@ EXCEPT !.stage = "release", !.ok = r.ok /\ quit]] /\ UNCHANGED free
         ELSE Ended(h, r.ok /\ quit)
  BY DEF Close
<1> DEFINE ok == r.ok /\ quit
<1>3. ok \in BOOLEAN
  OBVIOUS
<1>4. CASE r.mode = "auth"
  <2> DEFINE s == [r EXCEPT !.stage = "release", !.ok = ok]
  <2>1. ses' = [ses EXCEPT ![h] = s] /\ UNCHANGED free
    BY <1>2, <1>4
  <2> HIDE DEF ok
  <2>2. s \in Session /\ s.stage = "release" /\ s.token = r.token /\ s.mode = r.mode /\ s.lost = r.lost
    BY <1>1, <1>3 DEF Session, Stages
  <2> HIDE DEF s
  <2>3. Shaped(s) /\ (Held(s) <=> Held(r))
    BY <1>1, <1>4, <2>2 DEF Shaped, Held, Leased
  <2> QED
    BY <1>1, <2>1, <2>2, <2>3, StayKeeps
<1>5. CASE r.mode # "auth"
  <2>1. Ended(h, ok)
    BY <1>2, <1>5
  <2>2. r.token = 0
    BY <1>1, <1>5 DEF Shaped
  <2> HIDE DEF ok
  <2> QED
    BY <1>1, <1>3, <2>1, <2>2, EndKeeps
<1> QED
  BY <1>4, <1>5

LEMMA ReleaseKeeps ==
    ASSUME SessionInv, PermitsConserved, UNCHANGED plan, NEW h \in Holders, Release(h)
    PROVE  SessionInv' /\ PermitsConserved'
<1>1. /\ ses[h] \in Session /\ Shaped(ses[h]) /\ ses[h].stage = "release" /\ UNCHANGED sidecar
      /\ free \in Nat /\ ses \in [Holders -> Session]
  BY StepsFrom DEF Release, SessionInv, TypeOK
<1>2. ses[h].token # 0
  BY <1>1 DEF Shaped, Leased
<1>3. ASSUME NEW ok \in BOOLEAN, Ended(h, ok)
      PROVE  LET s == [NoSession EXCEPT !.stage = "done", !.ok = ok] IN
             /\ s \in Session /\ s.token = 0 /\ ~s.lost /\ Shaped(s) /\ s.mode = "public"
             /\ ses' = [ses EXCEPT ![h] = s] /\ free' \in Nat /\ PermitsConserved'
  <2> DEFINE s == [NoSession EXCEPT !.stage = "done", !.ok = ok]
  <2>1. s \in Session /\ s.token = 0 /\ ~s.lost /\ Shaped(s) /\ s.mode = "public" /\ ~Held(s)
    BY EndedSession
  <2>2. ses' = [ses EXCEPT ![h] = s] /\ free' = free + (IF Held(ses[h]) THEN 1 ELSE 0)
    BY <1>3 DEF Ended, Holding, Held
  <2> HIDE DEF s
  <2>3. free' \in Nat /\ free' = free + (IF Held(ses[h]) THEN 1 ELSE 0) - (IF Held(s) THEN 1 ELSE 0)
    BY <1>1, <2>1, <2>2
  <2>4. PermitsConserved'
    BY <1>1, <2>2, <2>3, PermitMoves
  <2> QED
    BY <2>1, <2>2, <2>3, <2>4 DEF s
<1>4. CASE Releases(h, ses[h].token) /\ row' = NoLease /\ Ended(h, ses[h].ok) /\ UNCHANGED cleanups
  <2> DEFINE s == [NoSession EXCEPT !.stage = "done", !.ok = ses[h].ok]
  <2>1. ses[h].ok \in BOOLEAN
    BY <1>1 DEF Session
  <2>2. /\ s \in Session /\ s.token = 0 /\ ~s.lost /\ Shaped(s) /\ s.mode = "public"
        /\ ses' = [ses EXCEPT ![h] = s] /\ free' \in Nat /\ PermitsConserved'
    BY <1>3, <1>4, <2>1
  <2> HIDE DEF s
  <2>3. SessionInv'
    BY <1>1, <1>4, <2>2, LeaseReleased DEF Releases
  <2> QED
    BY <2>2, <2>3
<1>5. CASE Ended(h, FALSE) /\ UNCHANGED row /\ cleanups' = cleanups \cup {ses[h].token}
  <2> DEFINE s == [NoSession EXCEPT !.stage = "done", !.ok = FALSE]
  <2>1. /\ s \in Session /\ s.token = 0 /\ ~s.lost /\ Shaped(s) /\ s.mode = "public"
        /\ ses' = [ses EXCEPT ![h] = s] /\ free' \in Nat /\ PermitsConserved'
    BY <1>3, <1>5
  <2> HIDE DEF s
  <2> DEFINE hs == {h}
  <2>2. ses' = [g \in Holders |-> IF g \in hs THEN s ELSE ses[g]]
    BY <1>1, <2>1
  <2>3. cleanups' = cleanups \cup ({ses[g].token : g \in hs} \ {0}) /\ hs \in SUBSET Holders
    BY <1>2, <1>5
  <2> HIDE DEF hs
  <2>4. SessionInv'
    BY <1>1, <1>5, <2>1, <2>2, <2>3, SessionsDropped
  <2> QED
    BY <2>1, <2>4
<1> QED
  BY <1>4, <1>5 DEF Release

\* Every step of a session; only a session that was opened takes one.
LEMMA SessionStepKeeps ==
    ASSUME SessionInv, PermitsConserved, UNCHANGED plan, NEW h \in Holders, SessionStep(h)
    PROVE  /\ SessionInv' /\ PermitsConserved' /\ ses[h] # NoSession
           /\ \A g \in Holders \ {h} : ses'[g] = ses[g]
<1>1. SessionInv' /\ PermitsConserved'
  BY BeforeLeaseKeeps, AcquireLeaseKeeps, ConnectKeeps, RequestsKeep, CloseKeeps, ReleaseKeeps DEF SessionStep
<1>2. ses[h] # NoSession
  BY SessionDefaults DEF SessionStep, select_account, TakePermit, AcquireLease, Connect, PrepareRequest, Authenticate,
       Request, Page, HeartbeatFails, StopHeartbeat, Close, Release
<1>3. ses \in [Holders -> Session]
  BY DEF SessionInv, TypeOK
<1>4. \E s : ses' = [ses EXCEPT ![h] = s]
  <2>1. CASE \E stage : At(h, stage)
    <3>1. PICK stage : ses' = [ses EXCEPT ![h].stage = stage]
      BY <2>1 DEF At
    <3> WITNESS [ses[h] EXCEPT !.stage = stage]
    <3> QED
      BY <3>1
  <2>2. CASE \E ok : Ended(h, ok)
    BY <2>2 DEF Ended
  <2>3. CASE Failed(h)
    BY <2>3 DEF Failed
  <2>4. CASE Attached(h)
    BY <2>4 DEF Attached
  <2> QED
    BY <2>1, <2>2, <2>3, <2>4
       DEF SessionStep, select_account, TakePermit, AcquireLease, Connect, PrepareRequest, Authenticate,
           Request, Page, HeartbeatFails, StopHeartbeat, Close, Release
<1>5. \A g \in Holders \ {h} : ses'[g] = ses[g]
  BY <1>3, <1>4
<1> QED
  BY <1>1, <1>2, <1>5

-----------------------------------------------------------------------------
(* Sessions that are opened, dropped or left alone. *)

LEMMA SessionsSame ==
    ASSUME SessionInv, PermitsConserved, UNCHANGED <<plan, sessionVars>>
    PROVE  SessionInv' /\ PermitsConserved'
<1>1. UNCHANGED <<plan, free, ses, row, cleanups, sidecar>>
  BY DEF sessionVars
<1>2. SessionInv'
  BY <1>1 DEF SessionInv, TypeOK, SessionsShaped, OneHolder, RowShaped, LeaseAccountedFor
<1>3. PermitsConserved'
  BY <1>1 DEF PermitsConserved, Holding
<1> QED
  BY <1>2, <1>3

\* The permits when no session changes its stage.
LEMMA StagesKeepPermits ==
    ASSUME PermitsConserved, UNCHANGED <<plan, free>>, \A h \in Holders : ses'[h].stage = ses[h].stage
    PROVE  PermitsConserved'
<1>1. {h \in Holders : Holding(h)}' = {h \in Holders : Holding(h)}
  BY DEF Holding
<1> QED
  BY <1>1 DEF PermitsConserved

\* A session that holds neither a lease nor a permit is replaced by another.
LEMMA RestartKeeps ==
    ASSUME SessionInv, PermitsConserved, UNCHANGED <<plan, free, row, cleanups, sidecar>>,
           NEW h \in Holders, NEW s \in Session, ses' = [ses EXCEPT ![h] = s],
           ses[h].token = 0, ~Held(ses[h]), s.token = 0, ~s.lost, Shaped(s), ~Held(s), h = "monitor" => s.mode = "public"
    PROVE  SessionInv' /\ PermitsConserved'
<1>1. free' \in Nat /\ free' = free + (IF Held(ses[h]) THEN 1 ELSE 0) - (IF Held(s) THEN 1 ELSE 0)
  BY DEF SessionInv, TypeOK
<1> QED
  BY <1>1, MoveKeeps

\* Which sessions hold nothing, and which may replace them.
LEMMA HoldsNothing ==
    ASSUME SessionInv, NEW h \in Holders, ses[h].stage \in {"idle", "select", "permit", "status", "done"}
    PROVE  ses[h].token = 0 /\ ~Held(ses[h])
BY StepsFrom DEF Shaped, Leased, Held

LEMMA Opened ==
    /\ LET s == [NoSession EXCEPT !.stage = "select", !.mode = "auth"] IN
       s \in Session /\ s.token = 0 /\ ~s.lost /\ Shaped(s) /\ ~Held(s)
    /\ LET s == [NoSession EXCEPT !.stage = "permit"] IN
       s \in Session /\ s.token = 0 /\ ~s.lost /\ Shaped(s) /\ ~Held(s)
    /\ LET s == [NoSession EXCEPT !.stage = "status"] IN
       s \in Session /\ s.token = 0 /\ ~s.lost /\ Shaped(s) /\ ~Held(s) /\ s.mode = "public"
    /\ NoSession \in Session /\ NoSession.token = 0 /\ ~NoSession.lost /\ Shaped(NoSession) /\ ~Held(NoSession)
    /\ NoSession.mode = "public"
BY DEF NoSession, Session, Stages, Shaped, Leased, Held

LEMMA StartKeeps ==
    ASSUME SessionInv, PermitsConserved, UNCHANGED <<plan, free, row, cleanups, sidecar>>,
           NEW w \in Workers, ses[w].token = 0, ~Held(ses[w]), StartAuthenticated(w) \/ StartPublic(w)
    PROVE  SessionInv' /\ PermitsConserved'
<1>1. w \in Holders /\ w # "monitor"
  BY MonitorIsNoWorker
<1>2. CASE StartAuthenticated(w)
  <2> DEFINE s == [NoSession EXCEPT !.stage = "select", !.mode = "auth"]
  <2>1. s \in Session /\ s.token = 0 /\ ~s.lost /\ Shaped(s) /\ ~Held(s)
    BY Opened
  <2>2. ses' = [ses EXCEPT ![w] = s]
    BY <1>2 DEF StartAuthenticated
  <2> HIDE DEF s
  <2> QED
    BY <1>1, <2>1, <2>2, RestartKeeps
<1>3. CASE StartPublic(w)
  <2> DEFINE s == [NoSession EXCEPT !.stage = "permit"]
  <2>1. s \in Session /\ s.token = 0 /\ ~s.lost /\ Shaped(s) /\ ~Held(s)
    BY Opened
  <2>2. ses' = [ses EXCEPT ![w] = s]
    BY <1>3 DEF StartPublic
  <2> HIDE DEF s
  <2> QED
    BY <1>1, <2>1, <2>2, RestartKeeps
<1> QED
  BY <1>2, <1>3

\* A session that holds nothing is over.
LEMMA OverKeeps ==
    ASSUME SessionInv, PermitsConserved, UNCHANGED <<plan, free, row, cleanups, sidecar>>,
           NEW h \in Holders, ses[h].token = 0, ~Held(ses[h]), ses' = [ses EXCEPT ![h] = NoSession]
    PROVE  SessionInv' /\ PermitsConserved'
BY Opened, RestartKeeps

\* The monitor's own steps.
LEMMA MonitorKeeps ==
    ASSUME SessionInv, PermitsConserved, UNCHANGED plan, MonitorTick \/ Probe \/ TryPermit
    PROVE  SessionInv' /\ PermitsConserved'
<1> DEFINE h == "monitor"
           r == ses[h]
<1>1. h \in Holders /\ r \in Session /\ Shaped(r) /\ r.mode = "public" /\ free \in Nat
  BY MonitorIsNoWorker, StepsFrom
<1>2. UNCHANGED <<row, cleanups, sidecar>>
  BY DEF MonitorTick, Probe, TryPermit
<1>3. r.token = 0 /\ ~Held(r) /\ (r.stage = "idle" \/ r.stage = "status" \/ r.stage = "done")
  BY <1>1, HoldsNothing DEF MonitorTick, Probe, TryPermit
<1>4. CASE MonitorTick
  <2> DEFINE s == [NoSession EXCEPT !.stage = "status"]
  <2>1. s \in Session /\ s.token = 0 /\ ~s.lost /\ Shaped(s) /\ ~Held(s) /\ s.mode = "public"
    BY Opened
  <2>2. ses' = [ses EXCEPT ![h] = s] /\ UNCHANGED free
    BY <1>4 DEF MonitorTick, StartProbe
  <2> HIDE DEF s
  <2> QED
    BY <1>1, <1>2, <1>3, <2>1, <2>2, RestartKeeps
<1>5. CASE UNCHANGED free /\ ses' = [ses EXCEPT ![h] = NoSession]
  BY <1>1, <1>2, <1>3, <1>5, OverKeeps
<1>6. CASE TryPermit /\ PermitLeft /\ At(h, "connect") /\ free' = free - 1
  <2> DEFINE s == [r EXCEPT !.stage = "connect"]
  <2>1. ses' = [ses EXCEPT ![h] = s]
    BY <1>6 DEF At
  <2>2. s \in Session /\ s.stage = "connect" /\ s.token = r.token /\ s.mode = r.mode /\ s.lost = r.lost
    BY <1>1 DEF Session, Stages
  <2> HIDE DEF s
  <2>3. Shaped(s) /\ Held(s)
    BY <1>1, <1>3, <2>2 DEF Shaped, Held, Leased
  <2> DEFINE waiting == {w \in Workers : ses[w].stage = "permit"}
  <2>4. Cardinality(waiting) \in Nat
    BY HeldFinite, MonitorIsNoWorker
  <2>5. free > Cardinality(waiting)
    BY <1>6 DEF PermitLeft
  <2> HIDE DEF waiting
  <2>6. free' \in Nat /\ free' = free + (IF Held(r) THEN 1 ELSE 0) - (IF Held(s) THEN 1 ELSE 0)
    BY <1>1, <1>3, <1>6, <2>3, <2>4, <2>5
  <2> QED
    BY <1>1, <1>2, <2>1, <2>2, <2>3, <2>6, MoveKeeps
<1> QED
  BY <1>4, <1>5, <1>6 DEF Probe, TryPermit

\* Sessions are dropped, with their tasks or their jobs.
LEMMA DropKeeps ==
    ASSUME SessionInv, PermitsConserved, UNCHANGED <<plan, row, sidecar>>, NEW hs \in SUBSET Holders, Dropped(hs)
    PROVE  SessionInv' /\ PermitsConserved' /\ \A h \in Holders : ses'[h] = IF h \in hs THEN NoSession ELSE ses[h]
<1>1. free \in Nat
  BY DEF SessionInv, TypeOK
<1>2. PermitsConserved' /\ free' \in Nat
  BY <1>1, PermitsDropped
<1>3. SessionInv'
  <2>1. /\ ses' = [h \in Holders |-> IF h \in hs THEN NoSession ELSE ses[h]]
        /\ cleanups' = cleanups \cup ({ses[h].token : h \in hs} \ {0})
    BY DEF Dropped
  <2> QED
    BY <1>2, <2>1, Opened, SessionsDropped
<1>4. \A h \in Holders : ses'[h] = IF h \in hs THEN NoSession ELSE ses[h]
  BY DEF Dropped
<1> QED
  BY <1>2, <1>3, <1>4

\* The process ends: what its cleanups held is left to expire.
LEMMA ExitKeeps ==
    ASSUME SessionInv, PermitsConserved, Exit
    PROVE  SessionInv' /\ PermitsConserved'
<1>1. UNCHANGED <<plan, free, ses, sidecar>> /\ cleanups' = {} /\ row' = (IF row.token \in cleanups THEN OtherLease ELSE row)
  BY DEF Exit
<1>2. PermitsConserved'
  BY <1>1, StagesKeepPermits
<1>3. SessionsShaped' /\ OneHolder'
  BY <1>1 DEF SessionInv, SessionsShaped, OneHolder
<1>4. CASE row.token \in cleanups
  <2>1. row'.token = 0 /\ row'.owner = "other" /\ row' \in [token : Tokens \cup {0}, owner : Workers \cup {"other", "none"}]
    BY <1>1, <1>4 DEF OtherLease
  <2>2. TypeOK'
    BY <1>1, <2>1 DEF SessionInv, TypeOK
  <2>3. RowShaped' /\ LeaseAccountedFor'
    BY <1>1, <2>1, MonitorIsNoWorker DEF SessionInv, RowShaped, LeaseAccountedFor, SessionsShaped, Shaped
  <2> QED
    BY <1>2, <1>3, <2>2, <2>3 DEF SessionInv
<1>5. CASE row.token \notin cleanups
  <2>1. TypeOK' /\ RowShaped' /\ LeaseAccountedFor'
    BY <1>1, <1>5 DEF SessionInv, TypeOK, RowShaped, LeaseAccountedFor
  <2> QED
    BY <1>2, <1>3, <2>1 DEF SessionInv
<1> QED
  BY <1>4, <1>5

\* The pool is made with its permits: there was none before.
LEMMA ConnectedKeeps ==
    ASSUME SessionInv, PermitsConserved, TasksFollowPhase, Connected
    PROVE  SessionInv' /\ PermitsConserved'
<1>1. UNCHANGED <<ses, row, cleanups, sidecar>> /\ phase = "planned"
  BY DEF Connected
<1>2. CASE UNCHANGED <<plan, free>>
  BY <1>1, <1>2, SessionsSame DEF sessionVars
<1>3. CASE ~UNCHANGED <<plan, free>>
  <2>1. /\ plan' = [roles |-> Roles(raw), archive |-> Archives(raw), pool |-> browser_pool_for_plan(raw)]
        /\ free' = plan'.pool
    BY <1>3 DEF Connected
  <2>2. plan'.pool = browser_pool_for_plan(raw) /\ plan.pool = 0 /\ raw \in Environments
    BY <1>1, <2>1 DEF TasksFollowPhase, NoPlan
  <2>3. Value(raw, "WORKER_CONCURRENCY") \in Nat
    BY <2>2, RuntimeConstants DEF Value, Default
  <2>4. free' \in Nat
    BY <2>1, <2>2, <2>3 DEF browser_pool_for_plan
  <2>5. SessionInv'
    BY <1>1, <2>4 DEF SessionInv, TypeOK, SessionsShaped, OneHolder, RowShaped, LeaseAccountedFor
  <2>6. HeldSessions' = HeldSessions /\ Cardinality(HeldSessions) \in Nat
    BY <1>1, HeldFinite DEF HeldSessions, Holding
  <2>7. free \in Nat /\ free + Cardinality(HeldSessions) = 0
    BY <2>2 DEF PermitsConserved, HeldSessions, SessionInv, TypeOK
  <2>8. free' + Cardinality(HeldSessions') = plan'.pool
    BY <2>1, <2>4, <2>6, <2>7
  <2>9. PermitsConserved'
    BY <2>8 DEF PermitsConserved, HeldSessions
  <2> QED
    BY <2>5, <2>9
<1> QED
  BY <1>2, <1>3

-----------------------------------------------------------------------------
(* The process: its phases, its tasks and the loops of its workers. *)

ProcessInv == RuntimeTypeOK /\ NormalEndWaits /\ TasksFollowPhase

LEMMA Names ==
    /\ Workers \subseteq Tasks /\ "monitor" \in Tasks /\ "api" \in Tasks /\ "scheduler" \in Tasks /\ "maintenance" \in Tasks
    /\ \A w \in Workers : w # "monitor" /\ w # "api" /\ w # "scheduler" /\ w # "maintenance"
    /\ Off \in Loop /\ Off.at = "off" /\ Off.step = "none"
BY SessionConstants, RuntimeConstants DEF Tasks, Off, Loop

LEMMA Loops ==
    /\ \A at \in {"top", "wait"} :
          LET l == [Off EXCEPT !.at = at] IN l \in Loop /\ l.at = at
    /\ \A gate \in BOOLEAN :
          LET l == [Off EXCEPT !.at = "claim", !.gate = gate] IN l \in Loop /\ l.at = "claim"
    /\ \A step \in {"plain", "list", "article", "page", "fallback"} :
          LET l == [Off EXCEPT !.at = "exec", !.step = step] IN l \in Loop /\ l.at = "exec" /\ l.step = step
BY DEF Off, Loop

\* Only a running task, its loop or the health changes, and a task that runs
\* ends or fails.
LEMMA TaskMoves ==
    ASSUME ProcessInv, UNCHANGED <<raw, plan, phase, todo, result, stop, signal>>,
           health' \in {"Ready", "NotReady"}, failures' \in 0 .. MaxFailures,
           NEW t \in Tasks, task[t] = "running",
           task' = task \/ task' = [task EXCEPT ![t] = "exited"] \/ task' = [task EXCEPT ![t] = "failed"],
           worker' \in [Workers -> Loop],
           \A w \in Workers : worker[w].at = "off" => worker'[w].at = "off",
           \A w \in Workers : task'[w] # "running" => worker'[w].at = "off"
    PROVE  ProcessInv'
<1>1. /\ task \in [Tasks -> {"none", "running", "exited", "failed", "aborted"}]
      /\ phase \notin {"ended", "exited"} \/ result # "ok"
      /\ phase \notin {"loading", "planned"}
  BY DEF ProcessInv, RuntimeTypeOK, NormalEndWaits, TasksFollowPhase
<1>2. /\ task' \in [Tasks -> {"none", "running", "exited", "failed", "aborted"}]
      /\ \A u \in Tasks : task'[u] = "aborted" => task[u] = "aborted"
  BY <1>1
<1>3. RuntimeTypeOK'
  BY <1>2 DEF ProcessInv, RuntimeTypeOK
<1>4. NormalEndWaits'
  BY <1>1 DEF NormalEndWaits
<1>5. TasksFollowPhase'
  BY <1>1, <1>2, Names DEF ProcessInv, TasksFollowPhase
<1> QED
  BY <1>3, <1>4, <1>5 DEF ProcessInv

LEMMA ProcessSame ==
    ASSUME ProcessInv, UNCHANGED runtimeVars
    PROVE  ProcessInv'
BY DEF ProcessInv, RuntimeTypeOK, NormalEndWaits, TasksFollowPhase, runtimeVars

\* The worker's loop goes on in its task, or leaves it when the shutdown is seen.
LEMMA LoopMoves ==
    ASSUME ProcessInv, UNCHANGED <<raw, plan, phase, todo, result, stop, signal, health, failures>>,
           NEW w \in Workers, worker[w].at # "off", NEW l \in Loop, worker' = [worker EXCEPT ![w] = l],
           \/ UNCHANGED task
           \/ l.at = "off" /\ task' = [task EXCEPT ![w] = "exited"]
    PROVE  ProcessInv'
<1>1. /\ w \in Tasks /\ task[w] = "running" /\ worker \in [Workers -> Loop]
      /\ health' \in {"Ready", "NotReady"} /\ failures' \in 0 .. MaxFailures
      /\ task \in [Tasks -> {"none", "running", "exited", "failed", "aborted"}]
      /\ \A v \in Workers : worker[v].at # "off" => task[v] = "running"
  BY Names DEF ProcessInv, RuntimeTypeOK, TasksFollowPhase
<1>2. /\ worker' \in [Workers -> Loop]
      /\ \A v \in Workers : worker'[v] = IF v = w THEN l ELSE worker[v]
  BY <1>1
<1>3. \A v \in Workers : worker[v].at = "off" => worker'[v].at = "off"
  BY <1>2
<1>4. ASSUME NEW v \in Workers, task'[v] # "running" PROVE worker'[v].at = "off"
  <2>1. CASE v = w
    BY <1>1, <1>2, <1>4, <2>1
  <2>2. CASE v # w
    <3>1. task'[v] = task[v]
      BY <1>1, <2>2, Names
    <3> QED
      BY <1>1, <1>2, <1>4, <2>2, <3>1
  <2> QED
    BY <2>1, <2>2
<1> QED
  BY <1>1, <1>2, <1>3, <1>4, TaskMoves

LEMMA WorkerProcess ==
    ASSUME ProcessInv, NEW w \in Workers, WorkerStep(w) \/ Interrupt(w)
    PROVE  ProcessInv'
<1>1. worker[w] \in Loop /\ worker \in [Workers -> Loop] /\ stop \in BOOLEAN /\ worker_ready \in BOOLEAN
  BY DEF ProcessInv, RuntimeTypeOK, worker_ready
<1>2. CASE LoopTop(w)
  <2> DEFINE l == IF stop THEN Off ELSE [Off EXCEPT !.at = "claim", !.gate = worker_ready]
  <2>1. l \in Loop /\ (stop => l.at = "off")
    BY <1>1, Names, Loops
  <2>2. /\ worker' = [worker EXCEPT ![w] = l] /\ worker[w].at # "off"
        /\ UNCHANGED <<raw, plan, phase, todo, result, stop, signal, health, failures>>
        /\ UNCHANGED task \/ (stop /\ task' = [task EXCEPT ![w] = "exited"])
    BY <1>2 DEF LoopTop
  <2> HIDE DEF l
  <2> QED
    BY <2>1, <2>2, LoopMoves
<1>3. CASE WaitEnds(w)
  <2> DEFINE l == IF stop THEN Off ELSE [Off EXCEPT !.at = "top"]
  <2>1. l \in Loop /\ (stop => l.at = "off")
    BY <1>1, Names, Loops
  <2>2. /\ worker' = [worker EXCEPT ![w] = l] /\ worker[w].at # "off"
        /\ UNCHANGED <<raw, plan, phase, todo, result, stop, signal, health, failures>>
        /\ UNCHANGED task \/ (stop /\ task' = [task EXCEPT ![w] = "exited"])
    BY <1>3 DEF WaitEnds, Goes
  <2> HIDE DEF l
  <2> QED
    BY <2>1, <2>2, LoopMoves
<1>4. CASE Idle(w) \/ JobDone(w) \/ Interrupt(w)
  <2>1. PICK at \in {"top", "wait"} : Goes(w, at)
    BY <1>4 DEF Idle, JobDone, Interrupt
  <2> DEFINE l == [Off EXCEPT !.at = at]
  <2>2. l \in Loop
    BY Loops
  <2>3. /\ worker' = [worker EXCEPT ![w] = l] /\ worker[w].at # "off"
        /\ UNCHANGED <<raw, plan, phase, todo, result, task, stop, signal, health, failures>>
    BY <1>4, <2>1 DEF Idle, JobDone, Interrupt, Goes
  <2> HIDE DEF l
  <2> QED
    BY <2>2, <2>3, LoopMoves
<1>5. CASE \E kind \in JobTypes : Claim(w, kind)
  <2>1. PICK kind \in JobTypes : Claim(w, kind)
    BY <1>5
  <2> DEFINE l == [Off EXCEPT !.at = "exec", !.step = FirstStep(kind)]
  <2>2. l \in Loop
    BY Loops DEF FirstStep
  <2>3. /\ worker' = [worker EXCEPT ![w] = l] /\ worker[w].at # "off"
        /\ UNCHANGED <<raw, plan, phase, todo, result, task, stop, signal, health, failures>>
    BY <2>1 DEF Claim
  <2> HIDE DEF l
  <2> QED
    BY <2>2, <2>3, LoopMoves
<1>6. CASE SessionDone(w)
  <2> DEFINE step == NextStep(w)
             l == [worker[w] EXCEPT !.step = step]
  <2>1. step \in {"none", "plain", "list", "article", "page", "fallback"}
    BY DEF NextStep
  <2>2. worker' = [worker EXCEPT ![w] = l]
    BY <1>6 DEF SessionDone
  <2> HIDE DEF step
  <2>3. l \in Loop
    BY <1>1, <2>1 DEF Loop
  <2>4. /\ worker[w].at # "off"
        /\ UNCHANGED <<raw, plan, phase, todo, result, task, stop, signal, health, failures>>
    BY <1>6 DEF SessionDone
  <2> HIDE DEF l
  <2> QED
    BY <2>2, <2>3, <2>4, LoopMoves
<1>7. CASE UNCHANGED runtimeVars
  BY <1>7, ProcessSame
<1> QED
  BY <1>2, <1>3, <1>4, <1>5, <1>6, <1>7 DEF WorkerStep

LEMMA TaskProcess ==
    ASSUME ProcessInv, NEW t \in Tasks, TaskFails(t) \/ (t \notin Workers /\ TaskEnds(t))
    PROVE  ProcessInv'
<1>1. /\ task[t] = "running" /\ worker \in [Workers -> Loop]
      /\ task \in [Tasks -> {"none", "running", "exited", "failed", "aborted"}]
      /\ health' \in {"Ready", "NotReady"} /\ failures \in 0 .. MaxFailures /\ MaxFailures \in Nat
      /\ UNCHANGED <<raw, plan, phase, todo, result, stop, signal>>
      /\ \A v \in Workers : worker[v].at # "off" => task[v] = "running"
  BY RuntimeConstants DEF ProcessInv, RuntimeTypeOK, TasksFollowPhase, TaskFails, TaskEnds
<1>2. CASE TaskFails(t)
  <2>1. failures' \in 0 .. MaxFailures
    BY <1>1, <1>2 DEF TaskFails
  <2>2. /\ task' = [task EXCEPT ![t] = "failed"]
        /\ worker' = [w \in Workers |-> IF w \in {t} THEN Off ELSE worker[w]]
    BY <1>2 DEF TaskFails, Drop
  <2>3. /\ worker' \in [Workers -> Loop] /\ \A w \in Workers : worker'[w] = IF w = t THEN Off ELSE worker[w]
        /\ \A w \in Workers : w # t => task'[w] = task[w]
    BY <1>1, <2>2, Names
  <2> QED
    BY <1>1, <2>1, <2>2, <2>3, Names, TaskMoves
<1>3. CASE t \notin Workers /\ TaskEnds(t)
  <2>1. task' = [task EXCEPT ![t] = "exited"] /\ UNCHANGED <<worker, failures>>
    BY <1>3 DEF TaskEnds
  <2>2. \A w \in Workers : task'[w] = task[w]
    BY <1>1, <1>3, <2>1, Names
  <2> QED
    BY <1>1, <2>1, <2>2, TaskMoves
<1> QED
  BY <1>2, <1>3

LEMMA ProbeProcess ==
    ASSUME ProcessInv, Probe
    PROVE  ProcessInv'
<1>1. health' \in {"Ready", "NotReady"} /\ UNCHANGED <<raw, plan, phase, todo, result, task, worker, stop, signal, failures>>
  BY DEF Probe, Replace, snapshot_for_result
<1> QED
  BY <1>1 DEF ProcessInv, RuntimeTypeOK, NormalEndWaits, TasksFollowPhase

-----------------------------------------------------------------------------
(* The supervisor. *)

\* What is left to start names the workers at most at its end.
WorkersLast(s) == \A i \in 1 .. Len(s) : s[i] = "worker" => i = Len(s)

LEMMA InFront ==
    ASSUME NEW wanted \in BOOLEAN, NEW c \in Components \ {"worker"}, NEW s \in Seq(Components), WorkersLast(s)
    PROVE  If(wanted, c) \o s \in Seq(Components) /\ WorkersLast(If(wanted, c) \o s)
<1>1. CASE wanted
  <2> DEFINE q == <<c>> \o s
  <2>1. q \in Seq(Components) /\ Len(q) = Len(s) + 1 /\ \A i \in 1 .. Len(q) : q[i] = IF i = 1 THEN c ELSE s[i - 1]
    OBVIOUS
  <2>2. Len(s) \in Nat
    OBVIOUS
  <2>3. ASSUME NEW i \in 1 .. Len(q), q[i] = "worker" PROVE i = Len(q)
    <3>1. i # 1 /\ i - 1 \in 1 .. Len(s) /\ s[i - 1] = "worker"
      BY <2>1, <2>2, <2>3
    <3>2. i - 1 = Len(s)
      BY <3>1 DEF WorkersLast
    <3> QED
      BY <2>1, <2>2, <3>2
  <2>4. If(wanted, c) \o s = q
    BY <1>1 DEF If
  <2> QED
    BY <2>1, <2>3, <2>4 DEF WorkersLast
<1>2. CASE ~wanted
  <2>1. If(wanted, c) \o s = s
    BY <1>2 DEF If
  <2> QED
    BY <2>1
<1> QED
  BY <1>1, <1>2

LEMMA PlannedOrder ==
    ASSUME NEW a \in BOOLEAN, NEW b \in BOOLEAN, NEW c \in BOOLEAN, NEW d \in BOOLEAN, NEW e \in BOOLEAN
    PROVE  LET todos == If(a, "maintenance") \o If(b, "monitor")
                        \o (If(c, "api") \o If(d, "scheduler") \o If(e, "worker")) IN
           todos \in Seq(Components) /\ WorkersLast(todos)
<1> DEFINE p1 == If(a, "maintenance")
           p2 == If(b, "monitor")
           p3 == If(c, "api")
           p4 == If(d, "scheduler")
           p5 == If(e, "worker")
<1>1. p5 \in Seq(Components) /\ WorkersLast(p5)
  <2>1. CASE e
    <3>1. p5 = <<"worker">>
      BY <2>1 DEF If
    <3> HIDE DEF p5
    <3>2. p5 \in Seq(Components) /\ Len(p5) = 1
      BY <3>1 DEF Components
    <3> QED
      BY <3>2 DEF WorkersLast
  <2>2. CASE ~e
    <3>1. p5 = <<>>
      BY <2>2 DEF If
    <3> HIDE DEF p5
    <3>2. p5 \in Seq(Components) /\ Len(p5) = 0
      BY <3>1
    <3> QED
      BY <3>2 DEF WorkersLast
  <2> QED
    BY <2>1, <2>2
<1>2. \A x \in Components, wanted \in BOOLEAN : If(wanted, x) \in Seq(Components)
  BY DEF If
<1>3. p1 \in Seq(Components) /\ p2 \in Seq(Components) /\ p3 \in Seq(Components) /\ p4 \in Seq(Components)
  BY <1>2 DEF Components
<1> HIDE DEF p5
<1>4. p4 \o p5 \in Seq(Components) /\ WorkersLast(p4 \o p5)
  BY <1>1, InFront DEF Components
<1>5. p3 \o (p4 \o p5) \in Seq(Components) /\ WorkersLast(p3 \o (p4 \o p5))
  BY <1>4, InFront DEF Components
<1>6. p2 \o (p3 \o (p4 \o p5)) \in Seq(Components) /\ WorkersLast(p2 \o (p3 \o (p4 \o p5)))
  BY <1>5, InFront DEF Components
<1>7. p1 \o (p2 \o (p3 \o (p4 \o p5))) \in Seq(Components) /\ WorkersLast(p1 \o (p2 \o (p3 \o (p4 \o p5))))
  BY <1>6, InFront DEF Components
<1> HIDE DEF p1, p2, p3, p4
<1>8. \A p, q, r \in Seq(Components) : (p \o q) \o r = p \o (q \o r) /\ p \o q \in Seq(Components)
  OBVIOUS
<1>9. p3 \o p4 \o p5 = p3 \o (p4 \o p5)
  BY <1>1, <1>3, <1>8
<1>10. p1 \o p2 \o (p3 \o (p4 \o p5)) = p1 \o (p2 \o (p3 \o (p4 \o p5)))
  <2> DEFINE q == p3 \o (p4 \o p5)
  <2>1. q \in Seq(Components)
    BY <1>5
  <2> HIDE DEF q
  <2>2. p1 \o p2 \o q = p1 \o (p2 \o q)
    BY ONLY <1>3, <1>8, <2>1
  <2> QED
    BY <2>2 DEF q
<1>11. p1 \o p2 \o (p3 \o p4 \o p5) \in Seq(Components) /\ WorkersLast(p1 \o p2 \o (p3 \o p4 \o p5))
  BY <1>7, <1>9, <1>10
<1> QED
  BY <1>11 DEF p1, p2, p3, p4, p5

\* The tasks among those that run are aborted, and with them their loops.
LEMMA AbortProcess ==
    ASSUME ProcessInv, phase' = "ended", result' # "ok", todo' \in Seq(Components),
           task' = Aborted(Running), Drop(Running), UNCHANGED <<stop, signal, health, failures>>
    PROVE  ProcessInv'
<1>1. worker' = [w \in Workers |-> IF w \in Running THEN Off ELSE worker[w]]
  BY DEF Drop
<1>2. task' \in [Tasks -> {"none", "running", "exited", "failed", "aborted"}]
  BY DEF Aborted, ProcessInv, RuntimeTypeOK
<1>3. worker' \in [Workers -> Loop]
  BY <1>1, Names DEF ProcessInv, RuntimeTypeOK
<1>4. \A w \in Workers : worker'[w].at = "off"
  BY <1>1, Names DEF ProcessInv, TasksFollowPhase, Running
<1>5. RuntimeTypeOK'
  BY <1>2, <1>3 DEF ProcessInv, RuntimeTypeOK
<1>6. NormalEndWaits' /\ TasksFollowPhase'
  BY <1>4 DEF NormalEndWaits, TasksFollowPhase
<1> QED
  BY <1>5, <1>6 DEF ProcessInv

LEMMA SpawnProcess ==
    ASSUME ProcessInv, Spawn
    PROVE  ProcessInv'
<1>1. /\ phase = "starting" /\ todo # <<>> /\ todo \in Seq(Components)
      /\ UNCHANGED <<raw, plan, stop, signal, health, failures>>
  BY DEF Spawn, ProcessInv, RuntimeTypeOK
<1> DEFINE component == Head(todo)
           built == Built(component)
<1>2. CASE /\ built = "ok"
           /\ task' = [t \in Tasks |-> IF t \in Spawned(component) THEN "running" ELSE task[t]]
           /\ worker' = [w \in Workers |-> IF component = "worker" THEN [Off EXCEPT !.at = "top"] ELSE worker[w]]
           /\ todo' = Tail(todo) /\ phase' = (IF Tail(todo) = <<>> THEN "running" ELSE phase)
           /\ UNCHANGED result
  <2> DEFINE top == [Off EXCEPT !.at = "top"]
  <2>1. top \in Loop /\ top.at = "top"
    BY Loops
  <2> HIDE DEF top
  <2>2. /\ task' = [t \in Tasks |-> IF t \in Spawned(component) THEN "running" ELSE task[t]]
        /\ worker' = [w \in Workers |-> IF component = "worker" THEN top ELSE worker[w]]
    BY <1>2 DEF top
  <2>3. /\ Tail(todo) \in Seq(Components) /\ Len(Tail(todo)) = Len(todo) - 1 /\ Len(todo) \in Nat /\ Len(todo) > 0
        /\ \A i \in 1 .. Len(todo) - 1 : Tail(todo)[i] = todo[i + 1]
        /\ component = todo[1]
    BY <1>1
  <2> HIDE DEF component
  <2>4. phase' \in {"starting", "running"}
    BY <1>1, <1>2
  <2>5. /\ task' \in [Tasks -> {"none", "running", "exited", "failed", "aborted"}] /\ worker' \in [Workers -> Loop]
        /\ \A t \in Tasks : task[t] # "aborted" => task'[t] # "aborted"
        /\ \A t \in Tasks : task[t] = "running" => task'[t] = "running"
    BY <2>1, <2>2 DEF ProcessInv, RuntimeTypeOK
  <2>6. RuntimeTypeOK'
    BY <1>1, <1>2, <2>3, <2>4, <2>5 DEF ProcessInv, RuntimeTypeOK
  <2>7. NormalEndWaits'
    BY <2>4 DEF NormalEndWaits
  <2>8. \A t \in Tasks : task'[t] # "aborted"
    BY <1>1, <2>5 DEF ProcessInv, TasksFollowPhase
  <2>9. \A w \in Workers : worker'[w].at # "off" => task'[w] = "running"
    <3>1. CASE component = "worker"
      BY <2>2, <3>1, Names DEF Spawned
    <3>2. CASE component # "worker"
      BY <2>2, <2>5, <3>2, Names DEF ProcessInv, TasksFollowPhase
    <3> QED
      BY <3>1, <3>2
  <2>10. ASSUME NEW i \in 1 .. Len(Tail(todo)), Tail(todo)[i] = "worker"
         PROVE  i = Len(Tail(todo)) /\ \A w \in Workers : worker'[w].at = "off"
    <3>1. i + 1 \in 1 .. Len(todo) /\ todo[i + 1] = "worker"
      BY <2>3, <2>10
    <3>2. i + 1 = Len(todo) /\ \A w \in Workers : worker[w].at = "off"
      BY <1>1, <3>1 DEF ProcessInv, TasksFollowPhase
    <3>3. component # "worker"
      <4>1. 1 \in 1 .. Len(todo) /\ 1 # Len(todo)
        BY <2>3, <3>2
      <4> QED
        BY <1>1, <2>3, <4>1 DEF ProcessInv, TasksFollowPhase
    <3> QED
      BY <2>2, <2>3, <3>2, <3>3
  <2>11. TasksFollowPhase'
    BY <1>2, <2>4, <2>8, <2>9, <2>10 DEF TasksFollowPhase
  <2> QED
    BY <2>6, <2>7, <2>11 DEF ProcessInv
<1>3. CASE /\ result' \in (IF component = "api" THEN {"bind"} ELSE {}) \cup ({built} \ {"ok"})
           /\ phase' = "ended" /\ todo' = <<>>
           /\ task' = Aborted(Running) /\ Drop(Running)
  <2>1. result' # "ok" /\ todo' \in Seq(Components)
    BY <1>3
  <2> QED
    BY <1>1, <1>3, <2>1, AbortProcess
<1> QED
  BY <1>2, <1>3 DEF Spawn

LEMMA SupervisorProcess ==
    ASSUME ProcessInv, Supervise \/ Signal
    PROVE  ProcessInv'
<1>1. CASE Load
  <2>1. /\ phase = "loading" /\ phase' \in {"planned", "ended"}
        /\ UNCHANGED <<raw, plan, todo, task, worker, stop, signal, health, failures>>
    BY <1>1 DEF Load
  <2> QED
    BY <2>1 DEF ProcessInv, RuntimeTypeOK, NormalEndWaits, TasksFollowPhase
<1>2. CASE Connected
  <2>1. phase = "planned" /\ UNCHANGED <<task, worker, stop, signal, health, failures>>
    BY <1>2 DEF Connected
  <2>2. /\ \A t \in Tasks : task[t] = "none"
        /\ \A w \in Workers : worker[w].at = "off"
    BY <2>1, Names DEF ProcessInv, TasksFollowPhase
  <2>3. CASE phase' = "ended" /\ UNCHANGED todo
    BY <2>1, <2>2, <2>3 DEF ProcessInv, RuntimeTypeOK, NormalEndWaits, TasksFollowPhase
  <2>4. CASE phase' = "starting" /\ todo' = If(Archives(raw), "maintenance") \o If(plan'.pool > 0, "monitor") \o ComponentOrder
    <3> DEFINE a == Archives(raw)
               b == plan'.pool > 0
               c == "api" \in Roles(raw)
               d == "scheduler" \in Roles(raw)
               e == "worker" \in Roles(raw)
    <3>1. todo' = If(a, "maintenance") \o If(b, "monitor") \o (If(c, "api") \o If(d, "scheduler") \o If(e, "worker"))
      BY <2>4 DEF ComponentOrder
    <3>2. a \in BOOLEAN /\ b \in BOOLEAN /\ c \in BOOLEAN /\ d \in BOOLEAN /\ e \in BOOLEAN
      BY DEF Archives
    <3> HIDE DEF a, b, c, d, e
    <3>3. todo' \in Seq(Components) /\ WorkersLast(todo')
      BY <3>1, <3>2, PlannedOrder
    <3>4. RuntimeTypeOK'
      BY <2>1, <2>4, <3>3 DEF ProcessInv, RuntimeTypeOK
    <3>5. NormalEndWaits' /\ TasksFollowPhase'
      BY <2>1, <2>2, <2>4, <3>3 DEF ProcessInv, NormalEndWaits, TasksFollowPhase, WorkersLast
    <3> QED
      BY <3>4, <3>5 DEF ProcessInv
  <2> QED
    BY <1>2, <2>3, <2>4 DEF Connected
<1>3. CASE NotStarted
  <2>1. /\ phase' = "ended" /\ todo' = <<>> /\ \A t \in Tasks : task[t] = "none"
        /\ UNCHANGED <<task, worker, stop, signal, health, failures>>
    BY <1>3 DEF NotStarted
  <2>2. todo' \in Seq(Components)
    BY <2>1
  <2> QED
    BY <2>1, <2>2 DEF ProcessInv, RuntimeTypeOK, NormalEndWaits, TasksFollowPhase
<1>4. CASE Spawn
  BY <1>4, SpawnProcess
<1>5. CASE Signal
  BY <1>5 DEF Signal, ProcessInv, RuntimeTypeOK, NormalEndWaits, TasksFollowPhase
<1>6. CASE Shutdown
  BY <1>6 DEF Shutdown, ProcessInv, RuntimeTypeOK, NormalEndWaits, TasksFollowPhase
<1>7. CASE \E t \in Tasks : TaskJoined(t)
  <2>1. PICK t \in Tasks : TaskJoined(t)
    BY <1>7
  <2>2. /\ phase = "running" /\ phase' = "draining" /\ stop' = TRUE /\ task[t] \in {"exited", "failed"}
        /\ task' = [task EXCEPT ![t] = "none"]
        /\ UNCHANGED <<todo, worker, signal, health, failures>>
    BY <2>1 DEF TaskJoined
  <2>3. /\ task' \in [Tasks -> {"none", "running", "exited", "failed", "aborted"}]
        /\ \A u \in Tasks : task'[u] = IF u = t THEN "none" ELSE task[u]
    BY <2>2 DEF ProcessInv, RuntimeTypeOK
  <2>4. RuntimeTypeOK'
    BY <2>2, <2>3 DEF ProcessInv, RuntimeTypeOK
  <2>5. NormalEndWaits' /\ TasksFollowPhase'
    BY <2>2, <2>3, Names DEF ProcessInv, NormalEndWaits, TasksFollowPhase
  <2> QED
    BY <2>4, <2>5 DEF ProcessInv
<1>8. CASE Drain
  <2>1. phase = "draining" /\ phase' = "ended" /\ UNCHANGED <<todo, stop, signal, health, failures>>
    BY <1>8 DEF Drain
  <2>2. CASE Running = {} /\ {t \in Tasks : task[t] = "failed"} = {} /\ UNCHANGED <<task, worker, result>>
    <3>1. \A t \in Tasks : task[t] \in {"none", "exited"}
      BY <2>1, <2>2 DEF ProcessInv, RuntimeTypeOK, TasksFollowPhase, Running
    <3> QED
      BY <2>1, <2>2, <3>1 DEF ProcessInv, RuntimeTypeOK, NormalEndWaits, TasksFollowPhase
  <2>3. CASE result' = "task" /\ task' = Aborted(Running) /\ Drop(Running)
    <3>1. todo' \in Seq(Components)
      BY <2>1 DEF ProcessInv, RuntimeTypeOK
    <3> QED
      BY <2>1, <2>3, <3>1, AbortProcess
  <2> QED
    BY <1>8, <2>2, <2>3 DEF Drain
<1>9. CASE Exit
  BY <1>9 DEF Exit, ProcessInv, RuntimeTypeOK, NormalEndWaits, TasksFollowPhase
<1> QED
  BY <1>1, <1>2, <1>3, <1>4, <1>5, <1>6, <1>7, <1>8, <1>9 DEF Supervise

\* Every step of the process.
LEMMA ProcessStep ==
    ASSUME ProcessInv, [Next]_vars
    PROVE  ProcessInv'
<1>1. CASE Supervise \/ Signal
  BY <1>1, SupervisorProcess
<1>2. CASE MonitorStep
  <2>1. CASE Probe
    BY <2>1, ProbeProcess
  <2>2. CASE UNCHANGED runtimeVars
    BY <2>2, ProcessSame
  <2> QED
    BY <1>2, <2>1, <2>2 DEF MonitorStep, MonitorTick
<1>3. CASE CleanupStep \/ Environment
  BY <1>3, ProcessSame DEF CleanupStep, Environment
<1>4. CASE ServerStops \/ SchedulerStops \/ MaintenanceStops \/ MonitorStops
  <2>1. PICK t \in {"api", "scheduler", "maintenance", "monitor"} : TaskEnds(t)
    BY <1>4 DEF ServerStops, SchedulerStops, MaintenanceStops, MonitorStops
  <2>2. t \in Tasks /\ t \notin Workers
    BY Names
  <2> QED
    BY <2>1, <2>2, TaskProcess
<1>5. CASE \E t \in Tasks : TaskFails(t)
  BY <1>5, TaskProcess
<1>6. CASE \E w \in Workers : WorkerStep(w) \/ Interrupt(w)
  BY <1>6, WorkerProcess
<1>7. CASE UNCHANGED vars
  BY <1>7, ProcessSame DEF vars
<1> QED
  BY <1>1, <1>2, <1>3, <1>4, <1>5, <1>6, <1>7 DEF Next, Done

-----------------------------------------------------------------------------
(* Sessions and permits, whatever the process does. *)

LEMMA WorkerSessions ==
    ASSUME RuntimeInv, NEW w \in Workers, WorkerStep(w) \/ Interrupt(w)
    PROVE  SessionInv' /\ PermitsConserved' /\ SessionsInJobs'
<1>1. /\ SessionInv /\ PermitsConserved /\ w \in Holders /\ ses \in [Holders -> Session] /\ worker \in [Workers -> Loop]
      /\ \A v \in Workers : v \in Holders /\ (worker[v].at # "exec" \/ worker[v].step = "plain" => ses[v] = NoSession)
  BY MonitorIsNoWorker DEF RuntimeInv, SessionInv, TypeOK, RuntimeTypeOK, SessionsInJobs
<1>2. ASSUME UNCHANGED <<plan, sessionVars>>, NEW l, worker' = [worker EXCEPT ![w] = l], worker[w].at # "exec", l.at # "exec"
      PROVE  SessionInv' /\ PermitsConserved' /\ SessionsInJobs'
  <2>1. SessionInv' /\ PermitsConserved'
    BY <1>1, <1>2, SessionsSame
  <2>2. ses' = ses /\ \A v \in Workers : worker'[v] = IF v = w THEN l ELSE worker[v]
    BY <1>1, <1>2 DEF sessionVars
  <2>3. SessionsInJobs'
    BY <1>1, <1>2, <2>2 DEF SessionsInJobs
  <2> QED
    BY <2>1, <2>3
<1>3. ASSUME NEW s, ses' = [ses EXCEPT ![w] = s], NEW l, worker' = [worker EXCEPT ![w] = l],
             s = NoSession \/ (l.at = "exec" /\ l.step # "plain")
      PROVE  SessionsInJobs'
  <2>1. \A v \in Workers : worker'[v] = (IF v = w THEN l ELSE worker[v]) /\ ses'[v] = (IF v = w THEN s ELSE ses[v])
    BY <1>1, <1>3
  <2> QED
    BY <1>1, <1>3, <2>1 DEF SessionsInJobs
<1>4. CASE LoopTop(w) \/ WaitEnds(w) \/ Idle(w)
  <2>1. UNCHANGED <<plan, sessionVars>> /\ worker[w].at # "exec"
    BY <1>4 DEF LoopTop, WaitEnds, Idle
  <2>2. PICK l : worker' = [worker EXCEPT ![w] = l] /\ l.at # "exec"
    <3>1. CASE worker' = [worker EXCEPT ![w] = Off]
      BY <3>1, Names
    <3>2. CASE worker' = [worker EXCEPT ![w] = [Off EXCEPT !.at = "claim", !.gate = worker_ready]]
      <4>1. [Off EXCEPT !.at = "claim", !.gate = worker_ready].at = "claim"
        BY Loops DEF worker_ready
      <4> QED
        BY <3>2, <4>1
    <3>3. CASE Goes(w, "top") \/ Goes(w, "wait")
      <4>1. [Off EXCEPT !.at = "top"].at = "top" /\ [Off EXCEPT !.at = "wait"].at = "wait"
        BY Loops
      <4> QED
        BY <3>3, <4>1 DEF Goes
    <3> QED
      BY <1>4, <3>1, <3>2, <3>3 DEF LoopTop, WaitEnds, Idle
  <2> QED
    BY <1>2, <2>1, <2>2
<1>5. CASE \E kind \in JobTypes : Claim(w, kind)
  <2>1. PICK kind \in JobTypes : Claim(w, kind)
    BY <1>5
  <2> DEFINE l == [Off EXCEPT !.at = "exec", !.step = FirstStep(kind)]
  <2>2. /\ UNCHANGED <<plan, free, row, cleanups, sidecar>> /\ worker[w].at = "claim"
        /\ worker' = [worker EXCEPT ![w] = l]
        /\ IF requires_browser(kind) THEN StartsSession(w, FirstStep(kind)) ELSE UNCHANGED ses
    BY <2>1 DEF Claim
  <2>3. l.at = "exec" /\ l.step = FirstStep(kind)
    BY Loops DEF FirstStep
  <2> HIDE DEF l
  <2>4. ses[w] = NoSession /\ ses[w].token = 0 /\ ~Held(ses[w])
    BY <1>1, <2>2, Opened
  <2>5. CASE requires_browser(kind)
    <3>1. StartAuthenticated(w) \/ StartPublic(w)
      BY <2>2, <2>5 DEF StartsSession
    <3>2. SessionInv' /\ PermitsConserved'
      BY <1>1, <2>2, <2>4, <3>1, StartKeeps
    <3>3. PICK s : ses' = [ses EXCEPT ![w] = s]
      BY <3>1 DEF StartAuthenticated, StartPublic
    <3>4. l.step # "plain"
      BY <2>3, <2>5 DEF FirstStep
    <3> QED
      BY <1>3, <2>2, <2>3, <3>2, <3>3, <3>4
  <2>6. CASE ~requires_browser(kind)
    <3>1. UNCHANGED <<plan, sessionVars>> /\ ses' = [ses EXCEPT ![w] = NoSession]
      BY <1>1, <2>2, <2>4, <2>6 DEF sessionVars
    <3> QED
      BY <1>1, <1>3, <2>2, <3>1, SessionsSame
  <2> QED
    BY <2>5, <2>6
<1>6. CASE SessionDone(w)
  <2> DEFINE step == NextStep(w)
             l == [worker[w] EXCEPT !.step = step]
  <2>1. /\ UNCHANGED <<plan, free, row, cleanups, sidecar>> /\ worker[w].at = "exec" /\ ses[w].stage = "done"
        /\ worker' = [worker EXCEPT ![w] = l] /\ (StartAuthenticated(w) \/ StartPublic(w))
    BY <1>6 DEF SessionDone, StartsSession
  <2>2. step # "plain"
    BY DEF NextStep
  <2> HIDE DEF step
  <2>3. worker[w] \in Loop
    BY <1>1
  <2>4. l.at = "exec" /\ l.step # "plain"
    BY <2>1, <2>2, <2>3 DEF Loop
  <2> HIDE DEF l
  <2>5. ses[w].token = 0 /\ ~Held(ses[w])
    BY <1>1, <2>1, HoldsNothing
  <2>6. SessionInv' /\ PermitsConserved'
    BY <1>1, <2>1, <2>5, StartKeeps
  <2>7. PICK s : ses' = [ses EXCEPT ![w] = s]
    BY <2>1 DEF StartAuthenticated, StartPublic
  <2> QED
    BY <1>3, <2>1, <2>4, <2>6, <2>7
<1>7. CASE JobDone(w)
  <2>1. /\ UNCHANGED <<plan, free, row, cleanups, sidecar>> /\ ses' = [ses EXCEPT ![w] = NoSession]
        /\ (worker[w].step = "plain" \/ ses[w].stage = "done") /\ (Goes(w, "top") \/ Goes(w, "wait"))
    BY <1>7 DEF JobDone
  <2>2. ses[w].token = 0 /\ ~Held(ses[w])
    BY <1>1, <2>1, Opened, HoldsNothing
  <2>3. SessionInv' /\ PermitsConserved'
    BY <1>1, <2>1, <2>2, OverKeeps
  <2>4. PICK l : worker' = [worker EXCEPT ![w] = l]
    BY <2>1 DEF Goes
  <2> QED
    BY <1>3, <2>1, <2>3, <2>4
<1>8. CASE Interrupt(w)
  <2> DEFINE hs == {w}
  <2>1. /\ UNCHANGED <<plan, row, sidecar>> /\ Dropped(hs) /\ (Goes(w, "top") \/ Goes(w, "wait")) /\ hs \in SUBSET Holders
    BY <1>1, <1>8 DEF Interrupt
  <2>2. \A v \in Holders : v \in hs <=> v = w
    OBVIOUS
  <2> HIDE DEF hs
  <2>3. SessionInv' /\ PermitsConserved' /\ \A v \in Holders : ses'[v] = IF v \in hs THEN NoSession ELSE ses[v]
    BY <1>1, <2>1, DropKeeps
  <2>4. \A v \in Workers : v # w => worker'[v] = worker[v]
    BY <1>1, <2>1 DEF Goes
  <2>5. SessionsInJobs'
    BY <1>1, <2>2, <2>3, <2>4 DEF SessionsInJobs
  <2> QED
    BY <2>3, <2>5
<1>9. CASE worker[w].at = "exec" /\ SessionStep(w) /\ UNCHANGED runtimeVars
  <2>1. UNCHANGED plan /\ UNCHANGED worker
    BY <1>9 DEF runtimeVars
  <2>2. SessionInv' /\ PermitsConserved' /\ ses[w] # NoSession /\ \A g \in Holders \ {w} : ses'[g] = ses[g]
    BY <1>1, <1>9, <2>1, SessionStepKeeps
  <2>3. SessionsInJobs'
    BY <1>1, <1>9, <2>1, <2>2 DEF SessionsInJobs
  <2> QED
    BY <2>2, <2>3
<1> QED
  BY <1>4, <1>5, <1>6, <1>7, <1>8, <1>9 DEF WorkerStep

\* Tasks are dropped with what they hold, one that panics or all that run.
LEMMA DropSessions ==
    ASSUME RuntimeInv, NEW ts, Drop(ts), UNCHANGED <<plan, row, sidecar>>
    PROVE  SessionInv' /\ PermitsConserved' /\ SessionsInJobs'
<1> DEFINE hs == ts \cap Holders
<1>1. hs \in SUBSET Holders /\ Dropped(hs) /\ worker' = [w \in Workers |-> IF w \in ts THEN Off ELSE worker[w]]
  BY DEF Drop
<1>2. SessionInv' /\ PermitsConserved' /\ \A h \in Holders : ses'[h] = IF h \in hs THEN NoSession ELSE ses[h]
  BY <1>1, DropKeeps DEF RuntimeInv
<1>3. SessionsInJobs'
  BY <1>1, <1>2, MonitorIsNoWorker DEF RuntimeInv, SessionsInJobs
<1> QED
  BY <1>2, <1>3

\* Steps that leave every worker's session and loop alone.
LEMMA JobsSame ==
    ASSUME SessionsInJobs, UNCHANGED worker, \A w \in Workers : ses[w] = NoSession => ses'[w] = ses[w]
    PROVE  SessionsInJobs'
BY DEF SessionsInJobs

LEMMA MonitorSessions ==
    ASSUME RuntimeInv, MonitorStep
    PROVE  SessionInv' /\ PermitsConserved' /\ SessionsInJobs'
<1> DEFINE h == "monitor"
<1>1. /\ SessionInv /\ PermitsConserved /\ SessionsInJobs /\ ses \in [Holders -> Session] /\ h \in Holders
      /\ \A w \in Workers : w \in Holders \ {h}
  BY MonitorIsNoWorker DEF RuntimeInv, SessionInv, TypeOK
<1>2. UNCHANGED <<plan, worker>>
  BY DEF MonitorStep, MonitorTick, Probe, runtimeVars
<1>3. CASE MonitorTick \/ Probe \/ TryPermit
  <2>1. SessionInv' /\ PermitsConserved'
    BY <1>1, <1>2, <1>3, MonitorKeeps
  <2>2. (\E s : ses' = [ses EXCEPT ![h] = s]) \/ \E stage : ses' = [ses EXCEPT ![h].stage = stage]
    BY <1>3 DEF MonitorTick, Probe, TryPermit, StartProbe, At
  <2>3. \A w \in Workers : ses'[w] = ses[w]
    BY <1>1, <2>2
  <2> QED
    BY <1>1, <1>2, <2>1, <2>3, JobsSame
<1>4. CASE SessionStep(h)
  <2>1. SessionInv' /\ PermitsConserved' /\ \A g \in Holders \ {h} : ses'[g] = ses[g]
    BY <1>1, <1>2, <1>4, SessionStepKeeps
  <2> QED
    BY <1>1, <1>2, <2>1, JobsSame
<1> QED
  BY <1>3, <1>4 DEF MonitorStep

\* A component that is started, or whose start ends the run.
LEMMA SpawnSessions ==
    ASSUME RuntimeInv, Spawn
    PROVE  SessionInv' /\ PermitsConserved' /\ SessionsInJobs'
<1> DEFINE component == Head(todo)
<1>1. phase = "starting" /\ todo # <<>> /\ todo \in Seq(Components) /\ UNCHANGED plan
  BY DEF Spawn, RuntimeInv, RuntimeTypeOK
<1>2. CASE /\ worker' = [w \in Workers |-> IF component = "worker" THEN [Off EXCEPT !.at = "top"] ELSE worker[w]]
           /\ UNCHANGED sessionVars
  <2>1. SessionInv' /\ PermitsConserved'
    BY <1>1, <1>2, SessionsSame DEF RuntimeInv
  <2>2. component = "worker" => \A w \in Workers : worker[w].at = "off"
    <3>1. 1 \in 1 .. Len(todo) /\ component = todo[1]
      BY <1>1
    <3> QED
      BY <1>1, <3>1 DEF RuntimeInv, TasksFollowPhase
  <2>3. component = "worker" => \A w \in Workers : ses[w] = NoSession
    BY <2>2 DEF RuntimeInv, SessionsInJobs
  <2>4. SessionsInJobs'
    <3>1. ses' = ses
      BY <1>2 DEF sessionVars
    <3>2. CASE component = "worker"
      BY <2>3, <3>1, <3>2 DEF SessionsInJobs
    <3>3. CASE component # "worker"
      BY <1>2, <3>1, <3>3 DEF RuntimeInv, SessionsInJobs
    <3> QED
      BY <3>2, <3>3
  <2> QED
    BY <2>1, <2>4
<1>3. CASE Drop(Running) /\ UNCHANGED <<row, sidecar>>
  BY <1>1, <1>3, DropSessions
<1> QED
  BY <1>2, <1>3 DEF Spawn

\* Every step, as far as sessions and permits are concerned.
LEMMA SessionsNext ==
    ASSUME RuntimeInv, [Next]_vars
    PROVE  SessionInv' /\ PermitsConserved' /\ SessionsInJobs'
<1>1. SessionInv /\ PermitsConserved /\ SessionsInJobs /\ TasksFollowPhase /\ Workers \subseteq Holders
  BY MonitorIsNoWorker DEF RuntimeInv
<1>2. ASSUME UNCHANGED <<plan, worker, sessionVars>> PROVE SessionInv' /\ PermitsConserved' /\ SessionsInJobs'
  BY <1>1, <1>2, SessionsSame, JobsSame DEF sessionVars
<1>3. CASE Supervise
  <2>1. CASE Load \/ NotStarted \/ Shutdown \/ \E t \in Tasks : TaskJoined(t)
    BY <1>2, <2>1 DEF Load, NotStarted, Shutdown, TaskJoined
  <2>2. CASE Connected
    <3>1. SessionInv' /\ PermitsConserved'
      BY <1>1, <2>2, ConnectedKeeps
    <3> QED
      BY <1>1, <2>2, <3>1, JobsSame DEF Connected
  <2>3. CASE Spawn
    BY <2>3, SpawnSessions
  <2>4. CASE Drain
    <3>1. UNCHANGED plan
      BY <2>4 DEF Drain
    <3> QED
      BY <1>2, <2>4, <3>1, DropSessions DEF Drain
  <2>5. CASE Exit
    <3>1. SessionInv' /\ PermitsConserved'
      BY <1>1, <2>5, ExitKeeps
    <3> QED
      BY <1>1, <2>5, <3>1, JobsSame DEF Exit
  <2> QED
    BY <1>3, <2>1, <2>2, <2>3, <2>4, <2>5 DEF Supervise
<1>4. CASE Signal \/ ServerStops \/ SchedulerStops \/ MaintenanceStops \/ MonitorStops
  BY <1>2, <1>4 DEF Signal, ServerStops, SchedulerStops, MaintenanceStops, MonitorStops, TaskEnds
<1>5. CASE MonitorStep
  BY <1>5, MonitorSessions
<1>6. CASE CleanupStep
  <2>1. PICK c \in cleanups : Cleanup(c)
    BY <1>6 DEF CleanupStep
  <2>2. SessionInv' /\ UNCHANGED <<plan, worker, free, ses>>
    BY <1>1, <1>6, <2>1, CleanupKeeps DEF CleanupStep, Cleanup, runtimeVars
  <2> QED
    BY <1>1, <2>2, StagesKeepPermits, JobsSame
<1>7. CASE Environment
  <2>1. UNCHANGED <<plan, worker>>
    BY <1>7 DEF Environment, runtimeVars
  <2>2. CASE Expire
    <3>1. /\ SessionInv' /\ UNCHANGED free
          /\ \A h \in Holders : ses'[h].stage = ses[h].stage /\ (ses[h] = NoSession => ses'[h] = ses[h])
      BY <1>1, <2>2, ExpireKeeps DEF Expire
    <3> QED
      BY <1>1, <2>1, <3>1, StagesKeepPermits, JobsSame
  <2>3. CASE OtherReplica
    <3>1. SessionInv' /\ UNCHANGED <<free, ses>>
      BY <1>1, <2>3, OtherReplicaKeeps DEF OtherReplica
    <3> QED
      BY <1>1, <2>1, <3>1, StagesKeepPermits, JobsSame
  <2>4. CASE SidecarChanges
    <3>1. UNCHANGED <<free, ses, row, cleanups>> /\ sidecar' \in {"up", "down"}
      BY <2>4 DEF SidecarChanges
    <3>2. SessionInv'
      BY <1>1, <3>1 DEF SessionInv, TypeOK, SessionsShaped, OneHolder, RowShaped, LeaseAccountedFor
    <3> QED
      BY <1>1, <2>1, <3>1, <3>2, StagesKeepPermits, JobsSame
  <2> QED
    BY <1>7, <2>2, <2>3, <2>4 DEF Environment
<1>8. CASE \E t \in Tasks : TaskFails(t)
  BY <1>8, DropSessions DEF TaskFails
<1>9. CASE \E w \in Workers : WorkerStep(w) \/ Interrupt(w)
  BY <1>9, WorkerSessions
<1>10. CASE UNCHANGED vars
  BY <1>2, <1>10 DEF vars, runtimeVars
<1> QED
  BY <1>3, <1>4, <1>5, <1>6, <1>7, <1>8, <1>9, <1>10 DEF Next, Done

-----------------------------------------------------------------------------
(* The invariant. *)

LEMMA RuntimeInit ==
    Init => RuntimeInv
<1> SUFFICES ASSUME Init PROVE RuntimeInv
  OBVIOUS
<1>1. /\ raw \in Environments /\ plan = NoPlan /\ phase = "loading" /\ todo = <<>>
      /\ task = [t \in Tasks |-> "none"] /\ worker = [w \in Workers |-> Off]
      /\ stop = FALSE /\ signal = FALSE /\ failures = 0 /\ health = "NotReady" /\ free = 0
      /\ ses = [h \in Holders |-> NoSession] /\ row = NoLease /\ cleanups = {} /\ sidecar = "up"
  BY DEF Init, SessionsInit
<1>2. todo \in Seq(Components) /\ failures \in 0 .. MaxFailures
  BY <1>1, RuntimeConstants
<1>3. RuntimeTypeOK /\ NormalEndWaits /\ TasksFollowPhase
  BY <1>1, <1>2, Names DEF RuntimeTypeOK, NormalEndWaits, TasksFollowPhase
<1>4. row.token = 0 /\ row.owner = "none" /\ row \in [token : Tokens \cup {0}, owner : Workers \cup {"other", "none"}]
  BY <1>1 DEF NoLease
<1>5. ses \in [Holders -> Session] /\ \A h \in Holders : ses[h] = NoSession
  BY <1>1, SessionDefaults
<1>6. TypeOK
  BY <1>1, <1>4, <1>5 DEF TypeOK
<1>7. SessionsShaped /\ OneHolder /\ RowShaped /\ LeaseAccountedFor
  BY <1>4, <1>5, SessionDefaults, MonitorIsNoWorker DEF SessionsShaped, OneHolder, RowShaped, LeaseAccountedFor
<1>8. SessionsInJobs
  BY <1>5, MonitorIsNoWorker DEF SessionsInJobs
<1>9. PermitsConserved
  <2>1. HeldSessions = {}
    BY <1>5, SessionDefaults DEF HeldSessions, Holding
  <2>2. Cardinality(HeldSessions) = 0 /\ plan.pool = 0
    BY <1>1, <2>1, FS_EmptySet DEF NoPlan
  <2>3. free + Cardinality(HeldSessions) = plan.pool
    BY <1>1, <2>2
  <2> QED
    BY <2>3 DEF PermitsConserved, HeldSessions
<1> QED
  BY <1>3, <1>6, <1>7, <1>8, <1>9 DEF RuntimeInv, SessionInv

LEMMA RuntimeStep ==
    RuntimeInv /\ [Next]_vars => RuntimeInv'
<1> SUFFICES ASSUME RuntimeInv, [Next]_vars PROVE RuntimeInv'
  OBVIOUS
<1>1. ProcessInv'
  BY ProcessStep DEF RuntimeInv, ProcessInv
<1>2. SessionInv' /\ PermitsConserved' /\ SessionsInJobs'
  BY SessionsNext
<1> QED
  BY <1>1, <1>2 DEF RuntimeInv, ProcessInv

\* Between any two steps, for any number of workers, any environment and any
\* interleaving of jobs, probes, timeouts, panics and shutdowns: permits are
\* neither lost nor made up, a lease is in one pair of hands, and a run that
\* ended well has waited for its tasks (runtime_supervisor.rs, browser_pool.rs, webdriver.rs).
THEOREM RuntimeConsistent == Spec => []RuntimeInv
BY RuntimeInit, RuntimeStep, PTL DEF Spec

-----------------------------------------------------------------------------
(* The lease, step by step. *)

\* A session that is about to release its lease ends in no other way than by
\* that release.
LEMMA EndsByRelease ==
    ASSUME RuntimeInv, [Next]_vars, NEW w \in Workers, ses[w].stage = "release", ses'[w].stage = "done"
    PROVE  Release(w)
<1>1. /\ SessionInv /\ PermitsConserved /\ w \in Holders /\ w # "monitor" /\ ses \in [Holders -> Session] /\ ses[w] \in Session
      /\ \A h \in Workers : h \in Holders
  BY MonitorIsNoWorker DEF RuntimeInv, SessionInv, TypeOK
<1>2. ses' # ses /\ ses'[w] # ses[w] /\ ses'[w] # NoSession
  BY SessionDefaults
<1>3. ASSUME NEW ts, Drop(ts) PROVE FALSE
  BY <1>1, <1>2, <1>3 DEF Drop, Dropped
<1>4. ASSUME NEW v \in Workers, StartAuthenticated(v) \/ StartPublic(v) PROVE FALSE
  <2>1. [NoSession EXCEPT !.stage = "select", !.mode = "auth"].stage # "done" /\ [NoSession EXCEPT !.stage = "permit"].stage # "done"
    BY DEF NoSession
  <2>2. ses'[w] \in {ses[w], [NoSession EXCEPT !.stage = "select", !.mode = "auth"], [NoSession EXCEPT !.stage = "permit"]}
    BY <1>1, <1>4 DEF StartAuthenticated, StartPublic
  <2> QED
    BY <1>2, <2>1, <2>2
<1>5. ASSUME NEW h \in Holders, SessionStep(h), UNCHANGED runtimeVars PROVE Release(w)
  <2>1. UNCHANGED plan
    BY <1>5 DEF runtimeVars
  <2>2. h = w
    BY <1>1, <1>2, <1>5, <2>1, SessionStepKeeps
  <2>3. ~HeartbeatFails(w)
    <3> SUFFICES ASSUME HeartbeatFails(w) PROVE FALSE
      OBVIOUS
    <3> DEFINE s == [ses[w] EXCEPT !.hb = "failed"]
    <3>1. s.stage = ses[w].stage
      BY <1>1 DEF Session
    <3>2. ses'[w] = s
      BY <1>1 DEF HeartbeatFails
    <3> QED
      BY <3>1, <3>2
  <2> QED
    BY <1>5, <2>2, <2>3 DEF SessionStep, select_account, TakePermit, AcquireLease, Connect, PrepareRequest,
       Authenticate, Request, Page, StopHeartbeat, Close
<1>6. CASE Supervise
  BY <1>2, <1>3, <1>6 DEF Supervise, Load, Connected, NotStarted, Spawn, Shutdown, TaskJoined, Drain, Exit, sessionVars
<1>7. CASE Signal \/ ServerStops \/ SchedulerStops \/ MaintenanceStops \/ MonitorStops \/ CleanupStep
  BY <1>2, <1>7 DEF Signal, ServerStops, SchedulerStops, MaintenanceStops, MonitorStops, TaskEnds, CleanupStep, Cleanup, sessionVars
<1>8. CASE MonitorStep
  <2>1. CASE MonitorTick \/ Probe \/ TryPermit
    <3>1. (\E s : ses' = [ses EXCEPT !["monitor"] = s]) \/ \E stage : ses' = [ses EXCEPT !["monitor"].stage = stage]
      BY <2>1 DEF MonitorTick, Probe, TryPermit, StartProbe, At
    <3> QED
      BY <1>1, <1>2, <3>1
  <2>2. CASE SessionStep("monitor") /\ UNCHANGED runtimeVars
    BY <1>5, <2>2, MonitorIsNoWorker
  <2> QED
    BY <1>8, <2>1, <2>2 DEF MonitorStep
<1>9. CASE Environment
  <2>1. CASE Expire
    BY <1>1, <2>1, ExpireKeeps
  <2> QED
    BY <1>2, <1>9, <2>1 DEF Environment, OtherReplica, SidecarChanges
<1>10. CASE \E t \in Tasks : TaskFails(t)
  BY <1>3, <1>10 DEF TaskFails
<1>11. ASSUME NEW v \in Workers, WorkerStep(v) \/ Interrupt(v) PROVE Release(w)
  <2>1. CASE LoopTop(v) \/ Idle(v) \/ WaitEnds(v)
    BY <1>2, <2>1 DEF LoopTop, Idle, WaitEnds, sessionVars
  <2>2. CASE \E kind \in JobTypes : Claim(v, kind)
    BY <1>2, <1>4, <2>2 DEF Claim, StartsSession
  <2>3. CASE SessionDone(v)
    BY <1>4, <2>3 DEF SessionDone, StartsSession
  <2>4. CASE JobDone(v)
    BY <1>1, <1>2, <2>4 DEF JobDone
  <2>5. CASE Interrupt(v)
    BY <1>1, <1>2, <2>5 DEF Interrupt, Dropped
  <2>6. CASE SessionStep(v) /\ UNCHANGED runtimeVars
    BY <1>1, <1>5, <2>6
  <2> QED
    BY <1>11, <2>1, <2>2, <2>3, <2>4, <2>5, <2>6 DEF WorkerStep
<1>12. ~UNCHANGED vars
  BY <1>2 DEF vars, sessionVars
<1> QED
  BY <1>6, <1>7, <1>8, <1>9, <1>10, <1>11, <1>12 DEF Next, Done

\* A lease of this process ends in one of three ways.
LEMMA LeaseEnds ==
    ASSUME RuntimeInv, [Next]_vars, row.owner \in Workers, row' = NoLease
    PROVE  \/ \E h \in Holders : Release(h) /\ Releases(h, ses[h].token)
           \/ \E c \in cleanups : Cleanup(c) /\ row.token = c
           \/ Expire
<1>1. /\ row.token # 0 /\ row.owner # "other" /\ row # NoLease /\ row' # row /\ NoLease # OtherLease /\ row' # OtherLease
      /\ \A h \in Workers : h \in Holders
  BY MonitorIsNoWorker DEF RuntimeInv, SessionInv, RowShaped, NoLease, OtherLease
<1>2. ASSUME NEW h \in Holders, SessionStep(h) PROVE Release(h) /\ Releases(h, ses[h].token)
  <2>1. ~AcquireLease(h)
    BY <1>1 DEF AcquireLease, LeaseAvailable
  <2>2. Release(h)
    BY <1>1, <1>2, <2>1 DEF SessionStep, select_account, TakePermit, Connect, PrepareRequest, Authenticate, Request, Page,
       HeartbeatFails, StopHeartbeat, Close
  <2> QED
    BY <1>1, <2>2 DEF Release
<1>3. CASE Supervise
  BY <1>1, <1>3 DEF Supervise, Load, Connected, NotStarted, Spawn, Shutdown, TaskJoined, Drain, Exit, sessionVars
<1>4. CASE Signal \/ ServerStops \/ SchedulerStops \/ MaintenanceStops \/ MonitorStops
  BY <1>1, <1>4 DEF Signal, ServerStops, SchedulerStops, MaintenanceStops, MonitorStops, TaskEnds, sessionVars
<1>5. CASE MonitorStep
  BY <1>1, <1>2, <1>5, MonitorIsNoWorker DEF MonitorStep, MonitorTick, Probe, TryPermit
<1>6. CASE CleanupStep
  BY <1>1, <1>6 DEF CleanupStep, Cleanup, Releases, Holds
<1>7. CASE Environment
  BY <1>1, <1>7 DEF Environment, OtherReplica, SidecarChanges
<1>8. CASE \E t \in Tasks : TaskFails(t)
  BY <1>1, <1>8 DEF TaskFails
<1>9. CASE \E w \in Workers : WorkerStep(w) \/ Interrupt(w)
  BY <1>1, <1>2, <1>9 DEF WorkerStep, LoopTop, Idle, WaitEnds, Claim, SessionDone, JobDone, Interrupt, sessionVars
<1>10. ~UNCHANGED vars
  BY <1>1 DEF vars, sessionVars
<1> QED
  BY <1>3, <1>4, <1>5, <1>6, <1>7, <1>8, <1>9, <1>10 DEF Next, Done

LEMMA SuccessStep ==
    ASSUME RuntimeInv, [Next]_vars, NEW w \in Workers, ses[w].stage = "release", ses'[w].stage = "done", ses'[w].ok
    PROVE  ~ses[w].lost
<1>1. Release(w) /\ w \in Holders /\ ses \in [Holders -> Session]
  BY EndsByRelease, MonitorIsNoWorker DEF RuntimeInv, SessionInv, TypeOK
<1>2. ~Ended(w, FALSE)
  <2> DEFINE s == [NoSession EXCEPT !.stage = "done", !.ok = FALSE]
  <2>1. ~s.ok
    BY DEF NoSession
  <2>2. Ended(w, FALSE) => ses'[w] = s
    BY <1>1 DEF Ended
  <2> QED
    BY <2>1, <2>2
<1>3. row.token = ses[w].token
  BY <1>1, <1>2 DEF Release, Releases, Holds
<1> QED
  BY <1>1, <1>3 DEF RuntimeInv, SessionInv, RowShaped

LEMMA ReleaseStep ==
    ASSUME RuntimeInv, [Next]_vars, row' = NoLease, row.owner \in Workers
    PROVE  ses'[row.owner].token # row.token \/ ses'[row.owner].lost
<1>1. row.token # 0 /\ row.owner \in Holders /\ ses \in [Holders -> Session]
  BY MonitorIsNoWorker DEF RuntimeInv, SessionInv, TypeOK, RowShaped
<1>2. CASE \E h \in Holders : Release(h) /\ Releases(h, ses[h].token)
  <2>1. PICK h \in Holders : Release(h) /\ Releases(h, ses[h].token)
    BY <1>2
  <2>2. h = row.owner
    BY <2>1 DEF Releases, Holds
  <2>3. PICK ok : ses' = [ses EXCEPT ![h] = [NoSession EXCEPT !.stage = "done", !.ok = ok]]
    BY <2>1 DEF Release, Ended
  <2>4. [NoSession EXCEPT !.stage = "done", !.ok = ok].token = 0
    BY DEF NoSession
  <2> QED
    BY <1>1, <2>2, <2>3, <2>4
<1>3. CASE \E c \in cleanups : Cleanup(c) /\ row.token = c
  <2>1. ses' = ses /\ row.token \in cleanups
    BY <1>3 DEF Cleanup
  <2> QED
    BY <1>1, <2>1 DEF RuntimeInv, SessionInv, OneHolder
<1>4. CASE Expire
  <2> DEFINE o == row.owner
  <2>1. ses'[o] = IF ses[o].token # 0 /\ ses[o].token = row.token THEN [ses[o] EXCEPT !.lost = TRUE] ELSE ses[o]
    BY <1>1, <1>4 DEF Expire
  <2>2. ses[o] \in Session
    BY <1>1
  <2> HIDE DEF o
  <2>3. [ses[o] EXCEPT !.lost = TRUE].lost
    BY <2>2 DEF Session
  <2> QED
    BY <1>1, <2>1, <2>3 DEF o
<1> QED
  BY <1>2, <1>3, <1>4, LeaseEnds

\* For any number of workers: an acquisition that succeeds held the account's
\* lease until its own release, and no cleanup, however late, ends the lease of
\* a newer session or of another replica (webdriver.rs, browser_pool.rs).
THEOREM LeaseIsRespected == Spec => LeaseRespected
<1>1. RuntimeInv /\ [Next]_vars =>
        [\A w \in Workers : ses[w].stage = "release" /\ ses'[w].stage = "done" /\ ses'[w].ok => ~ses[w].lost]_sessionVars
  BY SuccessStep
<1>2. RuntimeInv /\ [Next]_vars =>
        [row' = NoLease /\ row.owner \in Workers => ses'[row.owner].token # row.token \/ ses'[row.owner].lost]_sessionVars
  BY ReleaseStep
<1> QED
  BY <1>1, <1>2, RuntimeConsistent, PTL DEF Spec, LeaseRespected, SuccessMeansLeaseHeld, OnlyOwnRelease

-----------------------------------------------------------------------------
(* Lists of checks. *)

\* A set of numbers that is not empty has a least one.
LEMMA LeastIn ==
    ASSUME NEW S \in SUBSET Nat, S # {}
    PROVE  \E n \in S : \A m \in S : n <= m
<1> DEFINE R == {p \in Nat \X Nat : p[1] < p[2]}
<1>1. IsWellFoundedOn(R, Nat)
  BY NatLessThanWellFounded DEF OpToRel
<1> HIDE DEF R
<1>2. PICK n \in S : \A m \in S : ~(<<m, n>> \in R)
  BY <1>1, WFMin
<1>3. \A m \in S : ~(m < n)
  BY <1>2 DEF R
<1> QED
  BY <1>3

\* What it says that all checks pass, and which may fail.
Legal(c) == c.variable # "ok"
CheckList(s) == \E C : s \in Seq(C) /\ \A c \in C : Legal(c)
Passes(checks) == \A k \in 1 .. Len(checks) : checks[k].ok
Tolerates(c, known) == c.ok \/ c.variable \in known
RefusesOnly(checks, known) == \A k \in 1 .. Len(checks) : Tolerates(checks[k], known)

LEMMA Joined ==
    ASSUME NEW s, NEW t, CheckList(s), CheckList(t)
    PROVE  /\ CheckList(s \o t)
           /\ Passes(s \o t) <=> Passes(s) /\ Passes(t)
           /\ \A known : RefusesOnly(s, known) /\ RefusesOnly(t, known) => RefusesOnly(s \o t, known)
<1>1. PICK C : s \in Seq(C) /\ \A c \in C : Legal(c)
  BY DEF CheckList
<1>2. PICK D : t \in Seq(D) /\ \A c \in D : Legal(c)
  BY DEF CheckList
<1> DEFINE E == C \cup D
<1>3. s \in Seq(E) /\ t \in Seq(E) /\ \A c \in E : Legal(c)
  BY <1>1, <1>2
<1> HIDE DEF E
<1>4. /\ Len(s \o t) = Len(s) + Len(t) /\ Len(s) \in Nat /\ Len(t) \in Nat
      /\ \A k \in 1 .. Len(s) : (s \o t)[k] = s[k]
      /\ \A k \in 1 .. Len(t) : (s \o t)[Len(s) + k] = t[k]
  BY <1>3
<1>5. \A k \in 1 .. Len(s) + Len(t) : k \in 1 .. Len(s) \/ \E j \in 1 .. Len(t) : k = Len(s) + j
  <2> TAKE k \in 1 .. Len(s) + Len(t)
  <2>1. k \notin 1 .. Len(s) => k - Len(s) \in 1 .. Len(t) /\ k = Len(s) + (k - Len(s))
    BY <1>4
  <2> QED BY <2>1
<1>6. /\ \A j \in 1 .. Len(t) : Len(s) + j \in 1 .. Len(s) + Len(t)
      /\ \A k \in 1 .. Len(s) : k \in 1 .. Len(s) + Len(t)
  BY <1>4
<1>7. CheckList(s \o t)
  <2>1. s \o t \in Seq(E)
    BY <1>3
  <2> QED BY <2>1, <1>3 DEF CheckList
<1>8. Passes(s \o t) <=> Passes(s) /\ Passes(t)
  <2>1. ASSUME Passes(s \o t) PROVE Passes(s) /\ Passes(t)
    BY <1>4, <1>6, <2>1 DEF Passes
  <2>2. ASSUME Passes(s), Passes(t) PROVE Passes(s \o t)
    BY <1>4, <1>5, <2>2 DEF Passes
  <2> QED BY <2>1, <2>2
<1>9. ASSUME NEW known, RefusesOnly(s, known), RefusesOnly(t, known) PROVE RefusesOnly(s \o t, known)
  <2> SUFFICES ASSUME NEW k \in 1 .. Len(s) + Len(t)
               PROVE  Tolerates((s \o t)[k], known)
    BY <1>4 DEF RefusesOnly
  <2>1. CASE k \in 1 .. Len(s)
    BY <1>4, <1>9, <2>1 DEF RefusesOnly
  <2>2. ASSUME NEW j \in 1 .. Len(t), k = Len(s) + j PROVE Tolerates((s \o t)[k], known)
    BY <1>4, <1>9, <2>2 DEF RefusesOnly
  <2> QED BY <1>5, <2>1, <2>2
<1> QED
  BY <1>7, <1>8, <1>9

\* The `?` operator on lists that refuse only what is known.
LEMMA FirstFailureKnown ==
    ASSUME NEW s, NEW known, RefusesOnly(s, known)
    PROVE  FirstFailure(s) \in {"ok"} \cup known
<1>1. CASE Fails(s) = {}
  BY <1>1 DEF FirstFailure
<1>2. CASE Fails(s) # {}
  <2>1. Fails(s) \in SUBSET Nat /\ \A k \in Fails(s) : s[k].variable \in known
    BY DEF Fails, RefusesOnly, Tolerates
  <2>2. \E k \in Fails(s) : \A j \in Fails(s) : k <= j
    BY <1>2, <2>1, LeastIn
  <2> DEFINE first == CHOOSE k \in Fails(s) : \A j \in Fails(s) : k <= j
  <2>3. first \in Fails(s)
    BY <2>2
  <2> QED BY <1>2, <2>1, <2>3 DEF FirstFailure
<1> QED BY <1>1, <1>2

LEMMA FirstFailureOk ==
    ASSUME NEW s, CheckList(s), FirstFailure(s) = "ok"
    PROVE  Passes(s)
<1> SUFFICES ASSUME Fails(s) # {} PROVE FALSE
  BY DEF Fails, Passes
<1>1. Fails(s) \in SUBSET Nat
  BY DEF Fails
<1>2. \E k \in Fails(s) : \A j \in Fails(s) : k <= j
  BY <1>1, LeastIn
<1> DEFINE first == CHOOSE k \in Fails(s) : \A j \in Fails(s) : k <= j
<1>3. first \in Fails(s)
  BY <1>2
<1>4. \A k \in Fails(s) : s[k].variable # "ok"
  BY DEF Fails, CheckList, Legal
<1>5. s[first].variable # "ok"
  BY <1>3, <1>4
<1> QED BY <1>5 DEF FirstFailure

LEMMA ListOf ==
    ASSUME NEW C, \A c \in C : Legal(c), NEW s \in Seq(C)
    PROVE  CheckList(s)
BY DEF CheckList

LEMMA NoCheck == CheckList(<<>>) /\ Passes(<<>>) /\ \A known : RefusesOnly(<<>>, known)
<1>1. <<>> \in Seq({})
  OBVIOUS
<1>2. CheckList(<<>>)
  BY <1>1, ListOf, Zenon
<1> QED BY <1>2 DEF Passes, RefusesOnly

LEMMA List1 ==
    ASSUME NEW a, Legal(a)
    PROVE  /\ CheckList(<<a>>) /\ (Passes(<<a>>) => a.ok)
           /\ \A known : Tolerates(a, known) => RefusesOnly(<<a>>, known)
<1>1. <<a>> \in Seq({a})
  OBVIOUS
<1>2. CheckList(<<a>>)
  BY <1>1, ListOf
<1>3. Len(<<a>>) = 1 /\ <<a>>[1] = a
  OBVIOUS
<1>4. Passes(<<a>>) => a.ok
  BY <1>3 DEF Passes
<1> QED BY <1>2, <1>3, <1>4 DEF RefusesOnly

LEMMA List2 ==
    ASSUME NEW a, NEW b, Legal(a), Legal(b)
    PROVE  /\ CheckList(<<a, b>>) /\ (Passes(<<a, b>>) => a.ok /\ b.ok)
           /\ \A known : Tolerates(a, known) /\ Tolerates(b, known) => RefusesOnly(<<a, b>>, known)
<1>1. <<a, b>> \in Seq({a, b})
  OBVIOUS
<1>2. CheckList(<<a, b>>)
  BY <1>1, ListOf
<1>3. Len(<<a, b>>) = 2 /\ <<a, b>>[1] = a /\ <<a, b>>[2] = b
  OBVIOUS
<1>4. Passes(<<a, b>>) => a.ok /\ b.ok
  BY <1>3 DEF Passes
<1> QED BY <1>2, <1>3, <1>4 DEF RefusesOnly

LEMMA List3 ==
    ASSUME NEW a, NEW b, NEW c, Legal(a), Legal(b), Legal(c)
    PROVE  /\ CheckList(<<a, b, c>>) /\ (Passes(<<a, b, c>>) => a.ok /\ b.ok /\ c.ok)
           /\ \A known : Tolerates(a, known) /\ Tolerates(b, known) /\ Tolerates(c, known) => RefusesOnly(<<a, b, c>>, known)
<1>1. <<a, b, c>> \in Seq({a, b, c})
  OBVIOUS
<1>2. CheckList(<<a, b, c>>)
  BY <1>1, ListOf
<1>3. Len(<<a, b, c>>) = 3 /\ <<a, b, c>>[1] = a /\ <<a, b, c>>[2] = b /\ <<a, b, c>>[3] = c
  OBVIOUS
<1>4. Passes(<<a, b, c>>) => a.ok /\ b.ok /\ c.ok
  BY <1>3 DEF Passes
<1> QED BY <1>2, <1>3, <1>4 DEF RefusesOnly

LEMMA List4 ==
    ASSUME NEW a, NEW b, NEW c, NEW d, Legal(a), Legal(b), Legal(c), Legal(d)
    PROVE  CheckList(<<a, b, c, d>>) /\ (Passes(<<a, b, c, d>>) => a.ok /\ b.ok /\ c.ok /\ d.ok)
<1>1. <<a, b, c, d>> \in Seq({a, b, c, d})
  OBVIOUS
<1>2. CheckList(<<a, b, c, d>>)
  BY <1>1, ListOf
<1>3. /\ Len(<<a, b, c, d>>) = 4 /\ <<a, b, c, d>>[1] = a /\ <<a, b, c, d>>[2] = b
      /\ <<a, b, c, d>>[3] = c /\ <<a, b, c, d>>[4] = d
  OBVIOUS
<1> QED BY <1>2, <1>3 DEF Passes

\* Every check names a variable.
LEMMA NamedChecks ==
    \A env, v : v # "ok" =>
        /\ Legal(required(env, v)) /\ Legal(well_formed(env, v)) /\ Legal(parse_bool(env, v)) /\ Legal(parse_time(env, v))
        /\ Legal(decimal_megabytes(env, v)) /\ Legal(positive_u64(env, v)) /\ Legal(parse_optional_http_url(env, v))
        /\ Legal(chrono_duration(env, v))
BY SMT DEF Legal, Check, required, well_formed, parse_bool, parse_time, decimal_megabytes, positive_u64,
           parse_optional_http_url, chrono_duration

LEMMA BoundedChecks ==
    \A env, v, m : v # "ok" =>
        Legal(bounded_positive(env, v, m)) /\ Legal(bounded_non_negative_u64(env, v, m)) /\ (m # "ok" => Legal(Paired(env, v, m)))
BY SMT DEF Legal, Check, bounded_positive, bounded_non_negative_u64, Paired

LEMMA LeaseChecks == \A env, v, h, m : v # "ok" => Legal(LeaseExceeds(env, v, h, m))
BY SMT DEF Legal, Check, LeaseExceeds

LEMMA OwnChecks ==
    \A env : /\ Legal(refresh_cooldown(env)) /\ Legal(known_backend(env)) /\ Legal(parse_roles(env))
             /\ Legal(session_key_differs(env)) /\ Legal(quiet_limits(env)) /\ Legal(PacingPolicy(env))
             /\ Legal(reject_legacy_variables(env)) /\ Legal(reject_unknown_variables(env)) /\ Legal(browser_pool(env))
             /\ \A a, b : Legal(DelayDistribution(env, a, b))
BY SMT DEF Legal, Check, refresh_cooldown, known_backend, parse_roles, session_key_differs, quiet_limits, PacingPolicy,
           reject_legacy_variables, reject_unknown_variables, browser_pool, DelayDistribution

LEMMA PolicyLists ==
    ASSUME NEW env
    PROVE  CheckList(asset_cache_policy(env)) /\ CheckList(asset_repair_policy(env)) /\ CheckList(asset_refresh_policy(env))
<1>1. CheckList(asset_cache_policy(env))
  <2> DEFINE s == << decimal_megabytes(env, "ASSET_CACHE_MAX_SIZE_MB"), well_formed(env, "ASSET_CACHE_MAX_AGE_DAYS"),
                     decimal_megabytes(env, "ASSET_MAX_SIZE_MB"), decimal_megabytes(env, "ASSET_MAX_FETCH_BYTES_PER_ARTICLE_MB") >>
             t == AssetCachePolicy(env)
             C == {t[1], t[2], t[3], t[4], t[5], t[6]}
  <2>1. CheckList(s)
    BY NamedChecks, List4, SMT
  <2>2. \A c \in C : Legal(c)
    BY NamedChecks, BoundedChecks, SMT DEF AssetCachePolicy
  <2>3. t \in Seq(C)
    BY SMT DEF AssetCachePolicy
  <2>4. CheckList(t)
    BY <2>2, <2>3, ListOf, SMT
  <2> HIDE DEF s, t
  <2>5. CheckList(s \o t)
    BY <2>1, <2>4, Joined, Zenon
  <2> QED BY <2>5, SMT DEF asset_cache_policy, s, t
<1>2. CheckList(asset_repair_policy(env))
  <2> DEFINE s == << bounded_positive(env, "ASSET_REPAIR_MAX_PENDING", 100000),
                     bounded_non_negative_u64(env, "ASSET_REPAIR_PUBLIC_MAX_PENDING", Value(env, "ASSET_REPAIR_MAX_PENDING")),
                     bounded_positive(env, "ASSET_REPAIR_REQUEUE_SECONDS", 86400),
                     bounded_positive(env, "ASSET_REPAIR_MAX_ATTEMPTS", 100) >>
             t == AssetRepairPolicy(env)
  <2>1. CheckList(s)
    BY BoundedChecks, List4, SMT
  <2>2. CheckList(t)
    BY NamedChecks, BoundedChecks, List4, SMT DEF AssetRepairPolicy
  <2> HIDE DEF s, t
  <2>3. CheckList(s \o t)
    BY <2>1, <2>2, Joined, Zenon
  <2> QED BY <2>3, SMT DEF asset_repair_policy, s, t
<1>3. CheckList(asset_refresh_policy(env))
  BY BoundedChecks, OwnChecks, List2, SMT DEF AssetRefreshPolicy, asset_refresh_policy
<1> QED BY <1>1, <1>2, <1>3

LEMMA StorageLists == ASSUME NEW env PROVE CheckList(Storage(env))
<1>1. CheckList(LocalStorage(env)) /\ CheckList(S3Storage(env))
  BY NamedChecks, List1, List4, SMT DEF LocalStorage, S3Storage
<1>2. CheckList(OssStorage(env))
  <2> DEFINE s == << required(env, "ASSET_OSS_BUCKET"), required(env, "ASSET_OSS_VERSIONING"),
                     well_formed(env, "ASSET_OSS_VERSIONING"), required(env, "ASSET_OSS_ENDPOINT"),
                     parse_optional_http_url(env, "ASSET_OSS_ENDPOINT"), parse_oss_addressing_style(env),
                     parse_bool(env, "ASSET_OSS_SKIP_SIGNATURE") >>
             C == {s[1], s[2], s[3], s[4], s[5], s[6], s[7]}
             keys == << required(env, "ASSET_OSS_ACCESS_KEY_ID"), required(env, "ASSET_OSS_ACCESS_KEY_SECRET") >>
             t == Unless("ASSET_OSS_SKIP_SIGNATURE" \in env.on, keys)
  <2>1. \A c \in C : Legal(c)
    BY NamedChecks, SMT DEF parse_oss_addressing_style
  <2>2. s \in Seq(C)
    BY SMT
  <2>3. CheckList(s)
    BY <2>1, <2>2, ListOf, Zenon
  <2>4. CheckList(keys)
    BY NamedChecks, List2, SMT
  <2>5. CheckList(t)
    BY <2>4, NoCheck, Zenon DEF Unless
  <2> HIDE DEF s, t
  <2>6. CheckList(s \o t)
    BY <2>3, <2>5, Joined, Zenon
  <2> QED BY <2>6, SMT DEF OssStorage, s, t
<1>3. CheckList(GcsStorage(env))
  <2> DEFINE skip == "ASSET_GCS_SKIP_SIGNATURE" \in env.on
             s == << required(env, "ASSET_GCS_BUCKET"), parse_bool(env, "ASSET_GCS_SKIP_SIGNATURE") >>
             endpoint == << required(env, "ASSET_GCS_ENDPOINT") >>
             credential == << required(env, "ASSET_GCS_CREDENTIAL"), validate_gcs_credential(env) >>
             t == Unless(~skip, endpoint)
             u == Unless(skip, credential)
  <2>1. CheckList(s) /\ CheckList(endpoint) /\ CheckList(credential)
    BY NamedChecks, List1, List2, SMT DEF validate_gcs_credential
  <2>2. CheckList(t) /\ CheckList(u)
    BY <2>1, NoCheck, Zenon DEF Unless
  <2> HIDE DEF s, t, u
  <2>3. CheckList(s \o t \o u)
    BY <2>1, <2>2, Joined, Zenon
  <2> QED BY <2>3, SMT DEF GcsStorage, s, t, u
<1>4. CheckList(AzureStorage(env))
  <2> DEFINE s == << required(env, "ASSET_AZURE_CONTAINER"), required(env, "ASSET_AZURE_ENDPOINT"),
                     parse_bool(env, "ASSET_AZURE_SKIP_SIGNATURE") >>
             keys == << required(env, "ASSET_AZURE_ACCOUNT_NAME"), required(env, "ASSET_AZURE_ACCOUNT_KEY"),
                        validate_azure_account_key(env) >>
             t == Unless("ASSET_AZURE_SKIP_SIGNATURE" \in env.on, keys)
  <2>1. CheckList(s) /\ CheckList(keys)
    BY NamedChecks, List3, SMT DEF validate_azure_account_key
  <2>2. CheckList(t)
    BY <2>1, NoCheck, Zenon DEF Unless
  <2> HIDE DEF s, t
  <2>3. CheckList(s \o t)
    BY <2>1, <2>2, Joined, Zenon
  <2> QED BY <2>3, SMT DEF AzureStorage, s, t
<1>5. ASSUME NEW v, v # "ok" PROVE CheckList(protocol_endpoint(env, v))
  BY <1>5, NamedChecks, List2, SMT DEF protocol_endpoint
<1>6. ASSUME NEW v, NEW w, v # "ok", w # "ok" PROVE CheckList(<< Paired(env, v, w) >>)
  BY <1>6, BoundedChecks, List1, SMT
<1>7. CheckList(FtpStorage(env))
  <2> DEFINE s == protocol_endpoint(env, "ASSET_FTP_ENDPOINT")
             t == << Paired(env, "ASSET_FTP_USER", "ASSET_FTP_PASSWORD") >>
  <2>1. CheckList(s) /\ CheckList(t)
    BY <1>5, <1>6, SMT
  <2> HIDE DEF s, t
  <2>2. CheckList(s \o t)
    BY <2>1, Joined, Zenon
  <2> QED BY <2>2, SMT DEF FtpStorage, s, t
<1>8. CheckList(WebdavStorage(env))
  <2> DEFINE s == protocol_endpoint(env, "ASSET_WEBDAV_ENDPOINT")
             t == << Paired(env, "ASSET_WEBDAV_USER", "ASSET_WEBDAV_PASSWORD") >>
  <2>1. CheckList(s) /\ CheckList(t)
    BY <1>5, <1>6, SMT
  <2> HIDE DEF s, t
  <2>2. CheckList(s \o t)
    BY <2>1, Joined, Zenon
  <2> QED BY <2>2, SMT DEF WebdavStorage, s, t
<1>9. CheckList(SftpStorage(env))
  <2> DEFINE s == protocol_endpoint(env, "ASSET_SFTP_ENDPOINT")
             t == << required(env, "ASSET_SFTP_USER"), required(env, "ASSET_SFTP_KEY"), well_formed(env, "ASSET_SFTP_KEY") >>
  <2>1. CheckList(s) /\ CheckList(t)
    BY <1>5, NamedChecks, List3, SMT
  <2> HIDE DEF s, t
  <2>2. CheckList(s \o t)
    BY <2>1, Joined, Zenon
  <2> QED BY <2>2, SMT DEF SftpStorage, s, t
<1> QED
  BY <1>1, <1>2, <1>3, <1>4, <1>7, <1>8, <1>9, NoCheck, SMT DEF Storage

LEMMA ArchiveList == ASSUME NEW env PROVE CheckList(asset_archive_config(env))
<1> DEFINE s == << known_backend(env) >>
           t == Unless(~Archives(env), asset_repair_policy(env))
<1>1. CheckList(s)
  BY OwnChecks, List1, SMT
<1>2. CheckList(t)
  BY NoCheck, PolicyLists, Zenon DEF Unless
<1> HIDE DEF s, t
<1>3. CheckList(asset_cache_policy(env) \o s \o Storage(env) \o t)
  BY <1>1, <1>2, PolicyLists, StorageLists, Joined, Zenon
<1> QED BY <1>3, SMT DEF asset_archive_config, s, t

LEMMA SecretsList ==
    ASSUME NEW env
    PROVE  /\ CheckList(Secrets(env))
           /\ Passes(Secrets(env)) =>
                 /\ required(env, "CREDENTIAL_ENCRYPTION_KEY").ok
                 /\ "ADMIN_ENABLED" \in env.on => /\ required(env, "ADMIN_USERNAME").ok
                                                  /\ required(env, "ADMIN_PASSWORD").ok
                                                  /\ required(env, "SESSION_SIGNING_KEY").ok
<1> DEFINE s == << required(env, "DATABASE_URL"), required(env, "CREDENTIAL_ENCRYPTION_KEY"), parse_bool(env, "ADMIN_ENABLED") >>
           admin == << required(env, "ADMIN_USERNAME"), required(env, "ADMIN_PASSWORD"), required(env, "SESSION_SIGNING_KEY"),
                       session_key_differs(env) >>
           t == Unless("ADMIN_ENABLED" \notin env.on, admin)
<1>1. CheckList(s) /\ (Passes(s) => required(env, "CREDENTIAL_ENCRYPTION_KEY").ok)
  BY NamedChecks, List3, SMT
<1>2. CheckList(admin) /\ (Passes(admin) => /\ required(env, "ADMIN_USERNAME").ok
                                            /\ required(env, "ADMIN_PASSWORD").ok
                                            /\ required(env, "SESSION_SIGNING_KEY").ok)
  BY NamedChecks, OwnChecks, List4, SMT
<1> HIDE DEF s, admin
<1>3. CheckList(t) /\ ("ADMIN_ENABLED" \in env.on => t = admin)
  BY <1>2, NoCheck, Zenon DEF Unless
<1> HIDE DEF t
<1>4. CheckList(s \o t) /\ (Passes(s \o t) => Passes(s) /\ Passes(t))
  BY <1>1, <1>3, Joined, Zenon
<1>5. Secrets(env) = s \o t
  BY SMT DEF Secrets, s, t, admin
<1> QED BY <1>1, <1>2, <1>3, <1>4, <1>5, Zenon

LEMMA DatabaseList == ASSUME NEW env PROVE CheckList(Database(env))
BY NamedChecks, BoundedChecks, List3, SMT DEF Database

LEMMA QuietList == ASSUME NEW env PROVE CheckList(QuietHours(env))
<1> DEFINE s == << quiet_limits(env) >>
           times == << parse_time(env, "QUIET_HOURS_START"), parse_time(env, "QUIET_HOURS_END"), well_formed(env, "QUIET_HOURS") >>
           t == Unless(QuietLimits \cap env.set = {}, times)
<1>1. CheckList(s) /\ CheckList(times)
  BY OwnChecks, NamedChecks, List1, List3, SMT
<1>2. CheckList(t)
  BY <1>1, NoCheck, Zenon DEF Unless
<1> HIDE DEF s, t
<1>3. CheckList(s \o t)
  BY <1>1, <1>2, Joined, Zenon
<1> QED BY <1>3, SMT DEF QuietHours, s, t

LEMMA BrowserList ==
    ASSUME NEW env
    PROVE  /\ CheckList(Browser(env))
           /\ Passes(Browser(env)) => well_formed(env, "WEREAD_ACCOUNT_ID").ok /\ well_formed(env, "WEREAD_ARTICLE_LIST_URL").ok
<1> DEFINE s == Browser(env)
           C == {s[1], s[2], s[3], s[4], s[5], s[6], s[7], s[8], s[9]}
<1>1. \A c \in C : Legal(c)
  BY NamedChecks, BoundedChecks, SMT
  DEF Browser, BrowserEngine, parse_browser_user_agent, parse_browser_locale, parse_browser_extra_args,
      parse_optional_weread_account_id, parse_weread_article_list_url, bounded_browser_viewport
<1>2. s \in Seq(C) /\ Len(s) = 9
  BY SMT DEF Browser
<1>3. s[7] = well_formed(env, "WEREAD_ACCOUNT_ID") /\ s[8] = well_formed(env, "WEREAD_ARTICLE_LIST_URL")
  BY SMT DEF Browser, parse_optional_weread_account_id, parse_weread_article_list_url
<1> HIDE DEF s, C
<1>4. CheckList(s)
  BY <1>1, <1>2, ListOf, Zenon
<1>5. ASSUME Passes(s) PROVE s[7].ok /\ s[8].ok
  BY <1>2, <1>5, SMT DEF Passes
<1> QED BY <1>3, <1>4, <1>5 DEF s

LEMMA JobTimingList ==
    ASSUME NEW env
    PROVE  /\ CheckList(JobTiming(env))
           /\ Passes(JobTiming(env)) =>
                 /\ positive_u64(env, "JOB_POLL_SECONDS").ok /\ positive_u64(env, "JOB_MAX_ATTEMPTS").ok
                 /\ LeaseExceeds(env, "JOB_LEASE_SECONDS", "JOB_HEARTBEAT_SECONDS", 0).ok
                 /\ LeaseExceeds(env, "ACCOUNT_LEASE_SECONDS", "ACCOUNT_HEARTBEAT_SECONDS", 0).ok
                 /\ bounded_non_negative_u64(env, "SOURCE_FAILURE_COOLDOWN_SECONDS", 604800).ok
<1> DEFINE s == JobTiming(env)
           C == {s[1], s[2], s[3], s[4], s[5], s[6], s[7], s[8], s[9], s[10]}
<1>1. \A c \in C : Legal(c)
  BY NamedChecks, BoundedChecks, LeaseChecks, SMT DEF JobTiming
<1>2. s \in Seq(C) /\ Len(s) = 10
  BY SMT DEF JobTiming
<1>3. /\ s[1] = positive_u64(env, "JOB_POLL_SECONDS") /\ s[6] = positive_u64(env, "JOB_MAX_ATTEMPTS")
      /\ s[5] = LeaseExceeds(env, "JOB_LEASE_SECONDS", "JOB_HEARTBEAT_SECONDS", 0)
      /\ s[9] = LeaseExceeds(env, "ACCOUNT_LEASE_SECONDS", "ACCOUNT_HEARTBEAT_SECONDS", 0)
      /\ s[10] = bounded_non_negative_u64(env, "SOURCE_FAILURE_COOLDOWN_SECONDS", 604800)
  BY SMT DEF JobTiming
<1> HIDE DEF s, C
<1>4. CheckList(s)
  BY <1>1, <1>2, ListOf, Zenon
<1>5. ASSUME Passes(s) PROVE s[1].ok /\ s[5].ok /\ s[6].ok /\ s[9].ok /\ s[10].ok
  BY <1>2, <1>5, SMT DEF Passes
<1> QED BY <1>3, <1>4, <1>5, SMT DEF s

LEMMA FeedTimingList ==
    ASSUME NEW env
    PROVE  /\ CheckList(FeedTiming(env))
           /\ Passes(FeedTiming(env)) =>
                 /\ positive_u64(env, "RSS_CACHE_TTL_SECONDS").ok
                 /\ bounded_non_negative_u64(env, "RSS_STALE_WHILE_REVALIDATE_SECONDS", 86400).ok
                 /\ bounded_positive(env, "RSS_CACHE_MISS_WAIT_MS", 60000).ok
                 /\ LeaseExceeds(env, "FEED_BUILD_LEASE_SECONDS", "FEED_BUILD_HEARTBEAT_SECONDS", 0).ok
<1> DEFINE s == << positive_u64(env, "RSS_CACHE_TTL_SECONDS"),
                   bounded_non_negative_u64(env, "RSS_STALE_WHILE_REVALIDATE_SECONDS", 86400),
                   bounded_positive(env, "RSS_CACHE_MISS_WAIT_MS", 60000), parse_optional_http_url(env, "SERVER_ROOT_URL"),
                   parse_bool(env, "ASSET_USE_ABSOLUTE_URLS") >>
           C == {s[1], s[2], s[3], s[4], s[5]}
           root == << required(env, "SERVER_ROOT_URL") >>
           t == Unless(~Archives(env) \/ "ASSET_USE_ABSOLUTE_URLS" \notin env.on, root)
           u == << positive_u64(env, "FEED_BUILD_LEASE_SECONDS"), positive_u64(env, "FEED_BUILD_HEARTBEAT_SECONDS"),
                   LeaseExceeds(env, "FEED_BUILD_LEASE_SECONDS", "FEED_BUILD_HEARTBEAT_SECONDS", 0) >>
<1>1. \A c \in C : Legal(c)
  BY NamedChecks, BoundedChecks, SMT
<1>2. s \in Seq(C) /\ Len(s) = 5
  BY SMT
<1>3. /\ s[1] = positive_u64(env, "RSS_CACHE_TTL_SECONDS")
      /\ s[2] = bounded_non_negative_u64(env, "RSS_STALE_WHILE_REVALIDATE_SECONDS", 86400)
      /\ s[3] = bounded_positive(env, "RSS_CACHE_MISS_WAIT_MS", 60000)
  BY SMT
<1>4. CheckList(root) /\ CheckList(u)
      /\ (Passes(u) => LeaseExceeds(env, "FEED_BUILD_LEASE_SECONDS", "FEED_BUILD_HEARTBEAT_SECONDS", 0).ok)
  BY NamedChecks, LeaseChecks, List1, List3, SMT
<1>5. CheckList(t)
  BY <1>4, NoCheck, Zenon DEF Unless
<1>6. FeedTiming(env) = s \o t \o u
  BY SMT DEF FeedTiming
<1> HIDE DEF s, C, t, u
<1>7. CheckList(s)
  BY <1>1, <1>2, ListOf, Zenon
<1>8. CheckList(s \o t)
  BY <1>5, <1>7, Joined, Zenon
<1>9. CheckList(s \o t \o u) /\ (Passes(s \o t \o u) => Passes(s) /\ Passes(u))
  BY <1>4, <1>5, <1>7, <1>8, Joined, Zenon
<1>10. ASSUME Passes(s) PROVE s[1].ok /\ s[2].ok /\ s[3].ok
  BY <1>2, <1>10, SMT DEF Passes
<1> QED BY <1>3, <1>4, <1>6, <1>9, <1>10, SMT

LEMMA PacingList == ASSUME NEW env PROVE CheckList(PagePacing(env))
<1>1. ASSUME NEW a, NEW b, a # "ok", b # "ok" PROVE CheckList(distribution(env, a, b))
  <2>1. CheckList(bounded_delay(env, a)) /\ CheckList(bounded_delay(env, b))
    BY <1>1, NamedChecks, BoundedChecks, List2, SMT DEF bounded_delay
  <2> DEFINE t == << DelayDistribution(env, a, b) >>
  <2>2. CheckList(t)
    BY OwnChecks, List1, SMT
  <2> HIDE DEF t
  <2>3. CheckList(bounded_delay(env, a) \o bounded_delay(env, b) \o t)
    BY <2>1, <2>2, Joined, Zenon
  <2> QED BY <2>3, SMT DEF distribution, t
<1> DEFINE s == << bounded_non_negative_u64(env, "SCROLL_MAX_OPERATION_SECONDS", 3600), bounded_positive(env, "SCROLL_MAX_STEPS", 64),
                   bounded_positive(env, "SCROLL_MAX_PIXELS", 1000000),
                   LeaseExceeds(env, "JOB_LEASE_SECONDS", "JOB_HEARTBEAT_SECONDS", Value(env, "SCROLL_MAX_OPERATION_SECONDS")) >>
           d1 == distribution(env, "PACING_REQUEST_MIN_MS", "PACING_REQUEST_MAX_MS")
           d2 == distribution(env, "PACING_PAGE_NAVIGATION_MIN_MS", "PACING_PAGE_NAVIGATION_MAX_MS")
           d3 == distribution(env, "PACING_PAGE_ACTION_MIN_MS", "PACING_PAGE_ACTION_MAX_MS")
           d4 == distribution(env, "PACING_SCROLL_SETTLE_MIN_MS", "PACING_SCROLL_SETTLE_MAX_MS")
           p == << PacingPolicy(env) >>
<1>2. CheckList(s) /\ CheckList(p)
  BY BoundedChecks, LeaseChecks, OwnChecks, List1, List4, SMT
<1>3. CheckList(d1) /\ CheckList(d2) /\ CheckList(d3) /\ CheckList(d4)
  BY <1>1, SMT
<1>4. PagePacing(env) = s \o d1 \o d2 \o d3 \o d4 \o p
  BY SMT DEF PagePacing
<1> HIDE DEF s, d1, d2, d3, d4, p
<1>5. CheckList(s \o d1 \o d2)
  BY <1>2, <1>3, Joined, Zenon
<1>6. CheckList(s \o d1 \o d2 \o d3 \o d4)
  BY <1>3, <1>5, Joined, Zenon
<1> QED BY <1>2, <1>4, <1>6, Joined, Zenon

\* What every accepted environment satisfies, as far as building asks again.
Accepted(env) ==
    /\ parse_roles(env).ok /\ bounded_positive(env, "WORKER_CONCURRENCY", 1024).ok
    /\ required(env, "CREDENTIAL_ENCRYPTION_KEY").ok
    /\ "ADMIN_ENABLED" \in env.on => /\ required(env, "ADMIN_USERNAME").ok
                                     /\ required(env, "ADMIN_PASSWORD").ok
                                     /\ required(env, "SESSION_SIGNING_KEY").ok
    /\ well_formed(env, "WEREAD_ACCOUNT_ID").ok /\ well_formed(env, "WEREAD_ARTICLE_LIST_URL").ok
    /\ positive_u64(env, "JOB_POLL_SECONDS").ok /\ positive_u64(env, "JOB_MAX_ATTEMPTS").ok
    /\ LeaseExceeds(env, "JOB_LEASE_SECONDS", "JOB_HEARTBEAT_SECONDS", 0).ok
    /\ LeaseExceeds(env, "ACCOUNT_LEASE_SECONDS", "ACCOUNT_HEARTBEAT_SECONDS", 0).ok
    /\ bounded_non_negative_u64(env, "SOURCE_FAILURE_COOLDOWN_SECONDS", 604800).ok
    /\ positive_u64(env, "RSS_CACHE_TTL_SECONDS").ok
    /\ bounded_non_negative_u64(env, "RSS_STALE_WHILE_REVALIDATE_SECONDS", 86400).ok
    /\ bounded_positive(env, "RSS_CACHE_MISS_WAIT_MS", 60000).ok
    /\ LeaseExceeds(env, "FEED_BUILD_LEASE_SECONDS", "FEED_BUILD_HEARTBEAT_SECONDS", 0).ok

LEMMA ChecksPassed ==
    ASSUME NEW env
    PROVE  CheckList(Checks(env)) /\ (Passes(Checks(env)) => Accepted(env))
<1> DEFINE a == from_env_iter(env)
           b == << parse_roles(env), parse_log_level(env), bounded_positive(env, "WORKER_CONCURRENCY", 1024) >>
           c == asset_archive_config(env)
           d == asset_refresh_policy(env)
           e == Secrets(env)
           f == Database(env)
           g == << well_formed(env, "WEBDRIVER_URL"), well_formed(env, "APP_TIMEZONE") >>
           h == QuietHours(env)
           i == Browser(env)
           j == JobTiming(env)
           k == FeedTiming(env)
           l == PagePacing(env)
           m == << well_formed(env, "HTTP_BIND") >>
<1>1. CheckList(a) /\ CheckList(g) /\ CheckList(m)
  BY NamedChecks, OwnChecks, List1, List2, List3, SMT DEF from_env_iter
<1>2. CheckList(b) /\ (Passes(b) => parse_roles(env).ok /\ bounded_positive(env, "WORKER_CONCURRENCY", 1024).ok)
  BY NamedChecks, BoundedChecks, OwnChecks, List3, SMT DEF parse_log_level
<1>3. CheckList(c) /\ CheckList(d) /\ CheckList(f) /\ CheckList(h) /\ CheckList(l)
  BY ArchiveList, PolicyLists, DatabaseList, QuietList, PacingList, Zenon
<1>4. CheckList(e) /\ CheckList(i) /\ CheckList(j) /\ CheckList(k)
  BY SecretsList, BrowserList, JobTimingList, FeedTimingList, SMT
<1>5. Checks(env) = a \o b \o c \o d \o e \o f \o g \o h \o i \o j \o k \o l \o m
  BY SMT DEF Checks
<1>6. Passes(b) /\ Passes(e) /\ Passes(i) /\ Passes(j) /\ Passes(k) => Accepted(env)
  BY <1>2, SecretsList, BrowserList, JobTimingList, FeedTimingList, SMT DEF Accepted
<1> HIDE DEF a, b, c, d, e, f, g, h, i, j, k, l, m
<1> DEFINE s1 == a \o b \o c
           s2 == s1 \o d \o e
           s3 == s2 \o f \o g
           s4 == s3 \o h \o i
           s5 == s4 \o j \o k
<1>7. CheckList(s1) /\ (Passes(s1) => Passes(b))
  BY <1>1, <1>2, <1>3, Joined, Zenon
<1> HIDE DEF s1
<1>8. CheckList(s2) /\ (Passes(s2) => Passes(s1) /\ Passes(e))
  BY <1>7, <1>3, <1>4, Joined, Zenon
<1> HIDE DEF s2
<1>9. CheckList(s3) /\ (Passes(s3) => Passes(s2))
  BY <1>8, <1>1, <1>3, Joined, Zenon
<1> HIDE DEF s3
<1>10. CheckList(s4) /\ (Passes(s4) => Passes(s3) /\ Passes(i))
  BY <1>9, <1>3, <1>4, Joined, Zenon
<1> HIDE DEF s4
<1>11. CheckList(s5) /\ (Passes(s5) => Passes(s4) /\ Passes(j) /\ Passes(k))
  BY <1>10, <1>4, Joined, Zenon
<1> HIDE DEF s5
<1>12. CheckList(s5 \o l \o m) /\ (Passes(s5 \o l \o m) => Passes(s5))
  BY <1>11, <1>1, <1>3, Joined, Zenon
<1>13. Checks(env) = s5 \o l \o m
  BY <1>5, Zenon DEF s1, s2, s3, s4, s5
<1> QED
  BY <1>6, <1>7, <1>8, <1>9, <1>10, <1>11, <1>12, <1>13, Zenon

LEMMA AcceptedEnvironment == ASSUME NEW env, from_raw(env) = "ok" PROVE Accepted(env)
BY ChecksPassed, FirstFailureOk DEF from_raw

\* The numbers an environment leaves alone have their default.
LEMMA Numbers ==
    ASSUME NEW env \in Environments
    PROVE  /\ Value(env, "SOURCE_FAILURE_COOLDOWN_SECONDS") \in Nat /\ Value(env, "RSS_STALE_WHILE_REVALIDATE_SECONDS") \in Nat
           /\ Value(env, "RSS_CACHE_MISS_WAIT_MS") \in Nat
<1>1. /\ Default["SOURCE_FAILURE_COOLDOWN_SECONDS"] \in Nat /\ Default["RSS_STALE_WHILE_REVALIDATE_SECONDS"] \in Nat
      /\ Default["RSS_CACHE_MISS_WAIT_MS"] \in Nat
  BY SMT DEF Default
<1> QED BY <1>1, RuntimeConstants, SMT DEF Value

\* What a check says, and of which variable.
LEMMA CheckSays ==
    ASSUME NEW env, NEW v
    PROVE  /\ (required(env, v).ok <=> v \in env.set) /\ required(env, v).variable = v
           /\ (positive_u64(env, v).ok <=> Value(env, v) > 0) /\ positive_u64(env, v).variable = v
           /\ (chrono_duration(env, v).ok <=> Value(env, v) <= MaxChrono) /\ chrono_duration(env, v).variable = v
BY Zenon DEF Check, required, positive_u64, chrono_duration

LEMMA BoundSays ==
    ASSUME NEW env, NEW v, NEW m \in Nat
    PROVE  /\ bounded_positive(env, v, m).ok => Value(env, v) \in Nat /\ Value(env, v) > 0 /\ Value(env, v) <= m
           /\ bounded_non_negative_u64(env, v, m).ok => Value(env, v) <= m
<1>1. /\ bounded_positive(env, v, m).ok <=> Value(env, v) \in 1 .. m
      /\ bounded_non_negative_u64(env, v, m).ok <=> Value(env, v) <= m
  BY Zenon DEF Check, bounded_positive, bounded_non_negative_u64
<1>2. Value(env, v) \in 1 .. m => Value(env, v) \in Nat /\ Value(env, v) > 0 /\ Value(env, v) <= m
  BY SMT
<1> QED BY <1>1, <1>2, Zenon

LEMMA PoolSays == ASSUME NEW env PROVE browser_pool(env).ok <=> browser_pool_for_plan(env) > 0
BY Zenon DEF Check, browser_pool

LEMMA AcceptedNumbers ==
    ASSUME NEW env \in Environments, Accepted(env)
    PROVE  /\ Value(env, "WORKER_CONCURRENCY") > 0
           /\ Value(env, "SOURCE_FAILURE_COOLDOWN_SECONDS") <= 604800
           /\ Value(env, "RSS_STALE_WHILE_REVALIDATE_SECONDS") <= 86400
           /\ Value(env, "RSS_CACHE_MISS_WAIT_MS") > 0 /\ Value(env, "RSS_CACHE_MISS_WAIT_MS") <= 60000
<1>1. /\ bounded_positive(env, "WORKER_CONCURRENCY", 1024).ok
      /\ bounded_non_negative_u64(env, "SOURCE_FAILURE_COOLDOWN_SECONDS", 604800).ok
      /\ bounded_non_negative_u64(env, "RSS_STALE_WHILE_REVALIDATE_SECONDS", 86400).ok
      /\ bounded_positive(env, "RSS_CACHE_MISS_WAIT_MS", 60000).ok
  BY SMT DEF Accepted
<1>2. Value(env, "WORKER_CONCURRENCY") > 0
  BY <1>1, BoundSays, SMT
<1>3. Value(env, "SOURCE_FAILURE_COOLDOWN_SECONDS") <= 604800
  BY <1>1, BoundSays, SMT
<1>4. Value(env, "RSS_STALE_WHILE_REVALIDATE_SECONDS") <= 86400
  BY <1>1, BoundSays, SMT
<1>5. Value(env, "RSS_CACHE_MISS_WAIT_MS") > 0 /\ Value(env, "RSS_CACHE_MISS_WAIT_MS") <= 60000
  BY <1>1, BoundSays, SMT
<1> QED BY <1>2, <1>3, <1>4, <1>5, SMT

\* The checks that building repeats, and those it adds.
LEMMA RepeatedChecks ==
    ASSUME NEW env \in Environments, Accepted(env), NEW known, known = KnownRefusals(env)
    PROVE  /\ Tolerates(required(env, "CREDENTIAL_ENCRYPTION_KEY"), known)
           /\ Tolerates(required(env, "SERVER_ROOT_URL"), known)
           /\ Tolerates(well_formed(env, "WEREAD_ACCOUNT_ID"), known)
           /\ Tolerates(well_formed(env, "WEREAD_ARTICLE_LIST_URL"), known)
           /\ Tolerates(positive_u64(env, "JOB_POLL_SECONDS"), known)
           /\ Tolerates(positive_u64(env, "JOB_MAX_ATTEMPTS"), known)
           /\ Tolerates(positive_u64(env, "RSS_CACHE_TTL_SECONDS"), known)
           /\ Tolerates(positive_u64(env, "RSS_CACHE_MISS_WAIT_MS"), known)
           /\ Tolerates(LeaseExceeds(env, "JOB_LEASE_SECONDS", "JOB_HEARTBEAT_SECONDS", 0), known)
           /\ Tolerates(LeaseExceeds(env, "ACCOUNT_LEASE_SECONDS", "ACCOUNT_HEARTBEAT_SECONDS", 0), known)
           /\ Tolerates(LeaseExceeds(env, "FEED_BUILD_LEASE_SECONDS", "FEED_BUILD_HEARTBEAT_SECONDS", 0), known)
           /\ "ADMIN_ENABLED" \in env.on => /\ Tolerates(required(env, "ADMIN_USERNAME"), known)
                                            /\ Tolerates(required(env, "ADMIN_PASSWORD"), known)
                                            /\ Tolerates(required(env, "SESSION_SIGNING_KEY"), known)
           /\ "worker" \in Roles(env) => /\ Tolerates(browser_pool(env), known)
                                         /\ Tolerates(positive_u64(env, "SOURCE_FAILURE_COOLDOWN_SECONDS"), known)
<1>1. positive_u64(env, "RSS_CACHE_MISS_WAIT_MS").ok
  <2>1. Value(env, "RSS_CACHE_MISS_WAIT_MS") > 0
    BY AcceptedNumbers, SMT
  <2> QED BY <2>1, CheckSays, Zenon
<1>2. Tolerates(required(env, "SERVER_ROOT_URL"), known)
  BY CheckSays, SMT DEF Tolerates, KnownRefusals
<1>3. ASSUME "worker" \in Roles(env) PROVE browser_pool(env).ok
  <2>1. browser_pool_for_plan(env) > 0
    BY <1>3, AcceptedNumbers, SMT DEF browser_pool_for_plan
  <2> QED BY <2>1, PoolSays, Zenon
<1>4. ASSUME "worker" \in Roles(env) PROVE Tolerates(positive_u64(env, "SOURCE_FAILURE_COOLDOWN_SECONDS"), known)
  <2>1. CASE Value(env, "SOURCE_FAILURE_COOLDOWN_SECONDS") = 0
    BY <1>4, <2>1, CheckSays, SMT DEF Tolerates, KnownRefusals
  <2>2. CASE Value(env, "SOURCE_FAILURE_COOLDOWN_SECONDS") # 0
    BY <2>2, Numbers, CheckSays, SMT DEF Tolerates
  <2> QED BY <2>1, <2>2
<1> QED BY <1>1, <1>2, <1>3, <1>4, SMT DEF Tolerates, Accepted

LEMMA Durations ==
    ASSUME NEW env \in Environments, Accepted(env), NEW known, known = KnownRefusals(env)
    PROVE  \A v \in {"JOB_LEASE_SECONDS", "JOB_POLL_SECONDS", "ACCOUNT_LEASE_SECONDS", "ACCOUNT_HEARTBEAT_SECONDS",
                     "RSS_CACHE_TTL_SECONDS", "FEED_BUILD_LEASE_SECONDS", "FEED_BUILD_HEARTBEAT_SECONDS",
                     "SOURCE_FAILURE_COOLDOWN_SECONDS", "RSS_STALE_WHILE_REVALIDATE_SECONDS", "RSS_CACHE_MISS_WAIT_MS"} :
              Tolerates(chrono_duration(env, v), known)
<1>1. ASSUME NEW v \in {"JOB_LEASE_SECONDS", "JOB_POLL_SECONDS", "ACCOUNT_LEASE_SECONDS", "ACCOUNT_HEARTBEAT_SECONDS",
                        "RSS_CACHE_TTL_SECONDS", "FEED_BUILD_LEASE_SECONDS", "FEED_BUILD_HEARTBEAT_SECONDS"}
      PROVE  Tolerates(chrono_duration(env, v), known)
  <2>1. CASE Value(env, v) <= MaxChrono
    BY <2>1, CheckSays DEF Tolerates
  <2>2. CASE Value(env, v) > MaxChrono
    <3>1. v \in known
      BY <2>2 DEF KnownRefusals, Unrepresentable
    <3> QED BY <3>1, CheckSays DEF Tolerates
  <2>3. Value(env, v) \in Nat
    <3>1. Default[v] \in Nat
      BY SMT DEF Default
    <3> QED BY <3>1, RuntimeConstants, SMT DEF Value
  <2> QED BY <2>1, <2>2, <2>3, ChronoAssumption
<1>2. /\ chrono_duration(env, "SOURCE_FAILURE_COOLDOWN_SECONDS").ok
      /\ chrono_duration(env, "RSS_STALE_WHILE_REVALIDATE_SECONDS").ok
      /\ chrono_duration(env, "RSS_CACHE_MISS_WAIT_MS").ok
  <2>1. /\ Value(env, "SOURCE_FAILURE_COOLDOWN_SECONDS") <= MaxChrono
        /\ Value(env, "RSS_STALE_WHILE_REVALIDATE_SECONDS") <= MaxChrono
        /\ Value(env, "RSS_CACHE_MISS_WAIT_MS") <= MaxChrono
    BY Numbers, AcceptedNumbers, ChronoAssumption, SMT
  <2> QED BY <2>1, CheckSays, Zenon
<1> QED BY <1>1, <1>2, SMT DEF Tolerates

\* A list that refuses nothing but what is known; so do two of them in a row.
Harmless(s, env) == CheckList(s) /\ RefusesOnly(s, KnownRefusals(env))

LEMMA HarmlessJoined == ASSUME NEW env, NEW s, NEW t, Harmless(s, env), Harmless(t, env) PROVE Harmless(s \o t, env)
BY Joined, Zenon DEF Harmless

LEMMA NothingHarmless == ASSUME NEW env PROVE Harmless(<<>>, env)
BY NoCheck, Zenon DEF Harmless

\* A check that fails only for a variable that is known.
Mild(c, env) == Legal(c) /\ Tolerates(c, KnownRefusals(env))

LEMMA HarmlessLists ==
    ASSUME NEW env
    PROVE  /\ \A a : Mild(a, env) => Harmless(<<a>>, env)
           /\ \A a, b : Mild(a, env) /\ Mild(b, env) => Harmless(<<a, b>>, env)
           /\ \A a, b, c : Mild(a, env) /\ Mild(b, env) /\ Mild(c, env) => Harmless(<<a, b, c>>, env)
<1>1. ASSUME NEW a, Mild(a, env) PROVE Harmless(<<a>>, env)
  BY <1>1, List1, Zenon DEF Harmless, Mild
<1>2. ASSUME NEW a, NEW b, Mild(a, env), Mild(b, env) PROVE Harmless(<<a, b>>, env)
  BY <1>2, List2, Zenon DEF Harmless, Mild
<1>3. ASSUME NEW a, NEW b, NEW c, Mild(a, env), Mild(b, env), Mild(c, env) PROVE Harmless(<<a, b, c>>, env)
  BY <1>3, List3, Zenon DEF Harmless, Mild
<1> QED BY <1>1, <1>2, <1>3

LEMMA AccountParts ==
    ASSUME NEW env \in Environments, Accepted(env)
    PROVE  Harmless(build_auth_service(env), env)
<1> DEFINE known == KnownRefusals(env)
           s == << chrono_duration(env, "ACCOUNT_LEASE_SECONDS"), chrono_duration(env, "ACCOUNT_HEARTBEAT_SECONDS") >>
<1>1. Harmless(s, env)
  BY Durations, NamedChecks, HarmlessLists, SMT DEF Mild
<1>2. Harmless(AuthServiceConfig(env), env) /\ Harmless(RingCredentialCipher(env), env)
  BY RepeatedChecks, NamedChecks, LeaseChecks, HarmlessLists, SMT DEF Mild, AuthServiceConfig, RingCredentialCipher
<1> HIDE DEF s
<1>3. Harmless(s \o AuthServiceConfig(env) \o RingCredentialCipher(env), env)
  BY <1>1, <1>2, HarmlessJoined, Zenon
<1> QED BY <1>3, SMT DEF build_auth_service, s

LEMMA FeedParts ==
    ASSUME NEW env \in Environments, Accepted(env)
    PROVE  Harmless(RebuildDurations(env), env) /\ Harmless(feed_rebuild_config(env), env)
<1> DEFINE s == << required(env, "SERVER_ROOT_URL"), chrono_duration(env, "FEED_BUILD_HEARTBEAT_SECONDS") >>
<1>1. Harmless(RebuildDurations(env), env)
  BY Durations, NamedChecks, HarmlessLists, SMT DEF Mild, RebuildDurations
<1>2. Harmless(s, env)
  BY Durations, RepeatedChecks, NamedChecks, HarmlessLists, SMT DEF Mild
<1>3. Harmless(FeedRebuildConfig(env), env)
  BY RepeatedChecks, NamedChecks, LeaseChecks, HarmlessLists, SMT DEF Mild, FeedRebuildConfig
<1> HIDE DEF s
<1>4. Harmless(s \o FeedRebuildConfig(env), env)
  BY <1>2, <1>3, HarmlessJoined, Zenon
<1> QED BY <1>1, <1>4, SMT DEF feed_rebuild_config, s

LEMMA ApiParts ==
    ASSUME NEW env \in Environments, Accepted(env)
    PROVE  Harmless(build_api_router(env), env)
<1> DEFINE s == << chrono_duration(env, "RSS_STALE_WHILE_REVALIDATE_SECONDS"), chrono_duration(env, "RSS_CACHE_MISS_WAIT_MS") >>
           admin == AdminAuthenticator(env) \o build_auth_service(env)
           t == Unless("ADMIN_ENABLED" \notin env.on, admin)
<1>1. Harmless(s, env)
  BY Durations, NamedChecks, HarmlessLists, SMT DEF Mild
<1>2. Harmless(FeedServiceConfig(env), env) /\ Harmless(JobServiceConfig(env), env)
  BY RepeatedChecks, NamedChecks, HarmlessLists, SMT DEF Mild, FeedServiceConfig, JobServiceConfig
<1>3. Harmless(t, env)
  <2>1. CASE "ADMIN_ENABLED" \in env.on
    <3>1. Harmless(AdminAuthenticator(env), env)
      BY <2>1, RepeatedChecks, NamedChecks, HarmlessLists, SMT DEF Mild, AdminAuthenticator
    <3>2. Harmless(admin, env)
      BY <3>1, AccountParts, HarmlessJoined, Zenon
    <3> QED BY <2>1, <3>2, Zenon DEF Unless
  <2>2. CASE "ADMIN_ENABLED" \notin env.on
    BY <2>2, NothingHarmless, Zenon DEF Unless
  <2> QED BY <2>1, <2>2
<1> HIDE DEF s, t
<1>4. Harmless(s \o FeedServiceConfig(env) \o JobServiceConfig(env), env)
  BY <1>1, <1>2, HarmlessJoined, Zenon
<1>5. Harmless(s \o FeedServiceConfig(env) \o JobServiceConfig(env) \o RebuildDurations(env) \o feed_rebuild_config(env), env)
  BY <1>4, FeedParts, HarmlessJoined, Zenon
<1>6. Harmless(s \o FeedServiceConfig(env) \o JobServiceConfig(env) \o RebuildDurations(env) \o feed_rebuild_config(env) \o t, env)
  BY <1>3, <1>5, HarmlessJoined, Zenon
<1> QED BY <1>6, SMT DEF build_api_router, s, t

LEMMA SchedulerParts ==
    ASSUME NEW env \in Environments, Accepted(env), NEW refresher \in BOOLEAN
    PROVE  Harmless(build_scheduler(env, refresher), env)
<1> DEFINE t == Unless(~refresher, CredentialRefreshScheduleConfig(env))
<1>1. Harmless(SchedulerLoopConfig(env), env) /\ Harmless(CredentialRefreshScheduleConfig(env), env)
  BY RepeatedChecks, NamedChecks, HarmlessLists, SMT DEF Mild, SchedulerLoopConfig, CredentialRefreshScheduleConfig
<1>2. Harmless(t, env)
  BY <1>1, NothingHarmless, Zenon DEF Unless
<1> HIDE DEF t
<1>3. Harmless(SchedulerLoopConfig(env) \o t, env)
  BY <1>1, <1>2, HarmlessJoined, Zenon
<1> QED BY <1>3, SMT DEF build_scheduler, t

LEMMA WorkerParts ==
    ASSUME NEW env \in Environments, Accepted(env), NEW refresher \in BOOLEAN, "worker" \in Roles(env)
    PROVE  Harmless(build_worker(env, refresher), env)
<1> DEFINE pool == << browser_pool(env) >>
           poll == << chrono_duration(env, "JOB_POLL_SECONDS") >>
           account == << chrono_duration(env, "ACCOUNT_LEASE_SECONDS"), chrono_duration(env, "ACCOUNT_HEARTBEAT_SECONDS") >>
           cooldown == << chrono_duration(env, "JOB_POLL_SECONDS"), chrono_duration(env, "SOURCE_FAILURE_COOLDOWN_SECONDS") >>
<1>1. Harmless(pool, env)
  BY RepeatedChecks, OwnChecks, HarmlessLists, SMT DEF Mild
<1>2. Harmless(poll, env) /\ Harmless(account, env) /\ Harmless(cooldown, env)
  BY Durations, NamedChecks, HarmlessLists, SMT DEF Mild
<1>3. /\ Harmless(BrowserSourceSyncAcquirerConfig(env), env) /\ Harmless(WeReadAdapterConfig(env), env)
      /\ Harmless(SourceSyncJobHandlerConfig(env), env) /\ Harmless(ArticleBackfillJobHandlerConfig(env), env)
      /\ Harmless(FeedRebuildJobHandlerConfig(env), env) /\ Harmless(JobWorkerConfig(env), env)
  BY RepeatedChecks, NamedChecks, LeaseChecks, HarmlessLists, SMT
  DEF Mild, BrowserSourceSyncAcquirerConfig, WeReadAdapterConfig, SourceSyncJobHandlerConfig, ArticleBackfillJobHandlerConfig,
      FeedRebuildJobHandlerConfig, JobWorkerConfig
<1> HIDE DEF pool, poll, account, cooldown
<1>4. Harmless(build_source_sync_acquirer(env), env)
  <2>1. Harmless(account \o BrowserSourceSyncAcquirerConfig(env) \o WeReadAdapterConfig(env), env)
    BY <1>2, <1>3, HarmlessJoined, Zenon
  <2>2. Harmless(account \o BrowserSourceSyncAcquirerConfig(env) \o WeReadAdapterConfig(env) \o pool \o build_auth_service(env), env)
    BY <1>1, <2>1, AccountParts, HarmlessJoined, Zenon
  <2> QED BY <2>2, SMT DEF build_source_sync_acquirer, account, pool
<1>5. Harmless(build_source_sync_handler(env), env)
  <2>1. Harmless(build_source_sync_acquirer(env) \o cooldown \o SourceSyncJobHandlerConfig(env), env)
    BY <1>2, <1>3, <1>4, HarmlessJoined, Zenon
  <2> QED BY <2>1, SMT DEF build_source_sync_handler, cooldown
<1>6. Harmless(build_article_backfill_handler(env), env)
  <2>1. Harmless(build_source_sync_acquirer(env) \o poll \o ArticleBackfillJobHandlerConfig(env), env)
    BY <1>2, <1>3, <1>4, HarmlessJoined, Zenon
  <2> QED BY <2>1, SMT DEF build_article_backfill_handler, poll
<1>7. Harmless(build_credential_refresh_handler(env), env) /\ Harmless(build_asset_refresh_handler(env), env)
  <2>1. Harmless(build_auth_service(env) \o poll, env)
    BY <1>2, AccountParts, HarmlessJoined, Zenon
  <2> QED BY <1>1, <2>1, Zenon DEF build_credential_refresh_handler, build_asset_refresh_handler, poll, pool
<1> DEFINE refresh == Unless("AssetRefresh" \notin AllowedJobTypes(env, refresher), build_asset_refresh_handler(env))
           credentials == Unless(~refresher, build_credential_refresh_handler(env))
<1>8. Harmless(refresh, env) /\ Harmless(credentials, env)
  BY <1>7, NothingHarmless, Zenon DEF Unless
<1> HIDE DEF refresh, credentials
<1>9. Harmless(RebuildDurations(env) \o poll \o feed_rebuild_config(env), env)
  BY <1>2, FeedParts, HarmlessJoined, Zenon
<1>10. Harmless(RebuildDurations(env) \o poll \o feed_rebuild_config(env) \o FeedRebuildJobHandlerConfig(env) \o refresh, env)
  BY <1>3, <1>8, <1>9, HarmlessJoined, Zenon
<1> DEFINE s == RebuildDurations(env) \o poll \o feed_rebuild_config(env) \o FeedRebuildJobHandlerConfig(env) \o refresh
<1> HIDE DEF s
<1>11. Harmless(s \o build_source_sync_handler(env) \o build_article_backfill_handler(env), env)
  BY <1>5, <1>6, <1>10, HarmlessJoined, Zenon DEF s
<1>12. Harmless(s \o build_source_sync_handler(env) \o build_article_backfill_handler(env) \o credentials \o JobWorkerConfig(env), env)
  BY <1>3, <1>8, <1>11, HarmlessJoined, Zenon
<1> QED BY <1>12, SMT DEF build_worker, s, poll, refresh, credentials

\* RuntimeSupervisor::validated_plan and the builders of a role.
LEMMA PlanHarmless ==
    ASSUME NEW env \in Environments, Accepted(env)
    PROVE  Harmless(validated_plan(env), env)
<1> DEFINE lease == << chrono_duration(env, "JOB_LEASE_SECONDS") >>
           root == << required(env, "SERVER_ROOT_URL") >>
           s == Unless("worker" \notin Roles(env), lease)
           t == Unless(Roles(env) \cap {"api", "worker"} = {}, root)
<1>1. Harmless(lease, env) /\ Harmless(root, env)
  BY Durations, RepeatedChecks, NamedChecks, HarmlessLists, SMT DEF Mild
<1>2. Harmless(s, env) /\ Harmless(t, env)
  BY <1>1, NothingHarmless, Zenon DEF Unless
<1> HIDE DEF s, t
<1>3. Harmless(s \o t, env)
  BY <1>2, HarmlessJoined, Zenon
<1> QED BY <1>3, SMT DEF validated_plan, s, t

LEMMA BuildRefusals ==
    ASSUME NEW env \in Environments, Accepted(env), NEW component \in Roles(env), component \in {"api", "scheduler", "worker"}
    PROVE  build(env, FALSE, component) \in {"ok"} \cup KnownRefusals(env)
<1>1. CASE component = "api"
  <2>1. FirstFailure(build_api_router(env)) \in {"ok"} \cup KnownRefusals(env)
    BY ApiParts, FirstFailureKnown, Zenon DEF Harmless
  <2> QED BY <1>1, <2>1, Zenon DEF build
<1>2. CASE component = "scheduler"
  <2>1. FirstFailure(build_scheduler(env, FALSE)) \in {"ok"} \cup KnownRefusals(env)
    BY SchedulerParts, FirstFailureKnown, Zenon DEF Harmless
  <2>2. component # "api"
    BY <1>2, SMT
  <2> QED BY <1>2, <2>1, <2>2, Zenon DEF build
<1>3. CASE component = "worker"
  <2>1. FirstFailure(build_worker(env, FALSE)) \in {"ok"} \cup KnownRefusals(env)
    BY <1>3, WorkerParts, FirstFailureKnown, Zenon DEF Harmless
  <2>2. component # "api" /\ component # "scheduler"
    BY <1>3, SMT
  <2> QED BY <1>3, <2>1, <2>2, Zenon DEF build
<1> QED BY <1>1, <1>2, <1>3

LEMMA LoadRefusals ==
    ASSUME NEW env \in Environments, Accepted(env), from_raw(env) = "ok"
    PROVE  FirstFailure(Checks(env) \o validated_plan(env)) \in {"ok"} \cup KnownRefusals(env)
<1>1. CheckList(Checks(env)) /\ Passes(Checks(env))
  BY ChecksPassed, FirstFailureOk, Zenon DEF from_raw
<1>2. RefusesOnly(Checks(env), KnownRefusals(env))
  BY <1>1, SMT DEF Passes, RefusesOnly, Tolerates
<1>3. Harmless(Checks(env) \o validated_plan(env), env)
  BY <1>1, <1>2, PlanHarmless, HarmlessJoined, Zenon DEF Harmless
<1> QED BY <1>3, FirstFailureKnown, Zenon DEF Harmless

\* What passes with the plan's checks passes without them.
LEMMA PlanAccepted ==
    ASSUME NEW env, FirstFailure(Checks(env) \o validated_plan(env)) = "ok", CheckList(validated_plan(env))
    PROVE  from_raw(env) = "ok"
<1>1. CheckList(Checks(env)) /\ CheckList(Checks(env) \o validated_plan(env))
  BY ChecksPassed, Joined, Zenon
<1>2. Passes(Checks(env) \o validated_plan(env))
  BY <1>1, FirstFailureOk, Zenon
<1>3. Passes(Checks(env))
  BY <1>1, <1>2, ChecksPassed, Joined, Zenon
<1>4. Fails(Checks(env)) = {}
  BY <1>3 DEF Fails, Passes
<1> QED BY <1>4 DEF from_raw, FirstFailure

-----------------------------------------------------------------------------
(* What the process refuses. *)

Planned(env) == {"maintenance", "monitor"} \cup Roles(env)
MayEnd(env) == {"ok", "database", "storage", "bind", "task"} \cup KnownRefusals(env)

\* Past the loading, the environment was accepted; what is left to start are
\* its roles; and however the run goes, its result is one of those.
RefusalInv ==
    /\ raw \in Environments \cup {NoRaw}
    /\ raw # NoRaw /\ from_raw(raw) = "ok" => result \in MayEnd(raw)
    /\ raw # NoRaw /\ phase \in {"planned", "starting"} => from_raw(raw) = "ok"
    /\ raw # NoRaw /\ phase = "starting" => todo \in Seq(Planned(raw))

LEMMA PlanList == ASSUME NEW env PROVE CheckList(validated_plan(env))
<1> DEFINE lease == << chrono_duration(env, "JOB_LEASE_SECONDS") >>
           root == << required(env, "SERVER_ROOT_URL") >>
           s == Unless("worker" \notin Roles(env), lease)
           t == Unless(Roles(env) \cap {"api", "worker"} = {}, root)
<1>1. CheckList(lease) /\ CheckList(root)
  BY NamedChecks, List1, SMT
<1>2. CheckList(s) /\ CheckList(t)
  BY <1>1, NoCheck, Zenon DEF Unless
<1> HIDE DEF s, t
<1>3. CheckList(s \o t)
  BY <1>2, Joined, Zenon
<1> QED BY <1>3, SMT DEF validated_plan, s, t

LEMMA LoadRefuses ==
    ASSUME RefusalInv, RuntimeInv, Load
    PROVE  RefusalInv'
<1>1. raw' = raw /\ raw \in Environments /\ phase' # "starting"
  BY DEF Load, RuntimeInv, TasksFollowPhase
<1>2. result' = FirstFailure(Checks(raw) \o validated_plan(raw)) /\ (phase' = "planned" => result' = "ok")
  BY DEF Load
<1>3. phase' = "planned" => from_raw(raw) = "ok"
  BY <1>2, PlanList, PlanAccepted
<1>4. from_raw(raw) = "ok" => result' \in MayEnd(raw)
  BY <1>1, <1>2, AcceptedEnvironment, LoadRefusals DEF MayEnd
<1> QED BY <1>1, <1>3, <1>4 DEF RefusalInv

LEMMA PlannedRoles ==
    ASSUME NEW env, NEW a \in BOOLEAN, NEW b \in BOOLEAN
    PROVE  If(a, "maintenance") \o If(b, "monitor")
           \o (If("api" \in Roles(env), "api") \o If("scheduler" \in Roles(env), "scheduler") \o If("worker" \in Roles(env), "worker"))
           \in Seq(Planned(env))
<1> DEFINE p1 == If(a, "maintenance")
           p2 == If(b, "monitor")
           p3 == If("api" \in Roles(env), "api")
           p4 == If("scheduler" \in Roles(env), "scheduler")
           p5 == If("worker" \in Roles(env), "worker")
<1>1. \A x \in Planned(env) : <<x>> \in Seq(Planned(env))
  OBVIOUS
<1>2. <<>> \in Seq(Planned(env))
  OBVIOUS
<1>3. "maintenance" \in Planned(env) /\ "monitor" \in Planned(env) /\ \A x \in Roles(env) : x \in Planned(env)
  BY DEF Planned
<1>4. p1 \in Seq(Planned(env)) /\ p2 \in Seq(Planned(env))
  BY <1>1, <1>2, <1>3, Zenon DEF If
<1>5. p3 \in Seq(Planned(env)) /\ p4 \in Seq(Planned(env)) /\ p5 \in Seq(Planned(env))
  BY <1>1, <1>2, <1>3, Zenon DEF If
<1> HIDE DEF p1, p2, p3, p4, p5
<1>6. \A s, t \in Seq(Planned(env)) : s \o t \in Seq(Planned(env))
  OBVIOUS
<1>7. p1 \o p2 \o (p3 \o p4 \o p5) \in Seq(Planned(env))
  BY <1>4, <1>5, <1>6, Zenon
<1> QED BY <1>7 DEF p1, p2, p3, p4, p5

LEMMA ConnectedRefuses ==
    ASSUME RefusalInv, Connected
    PROVE  RefusalInv'
<1>1. raw' \in {raw, NoRaw} /\ phase = "planned" /\ phase' \in {"ended", "starting"}
  BY DEF Connected
<1>2. result' \in {result, "database", "storage"}
  BY DEF Connected, build_blob_store
<1>3. ASSUME phase' = "starting" PROVE todo' \in Seq(Planned(raw))
  <2>1. todo' = If(Archives(raw), "maintenance") \o If(plan'.pool > 0, "monitor") \o ComponentOrder
    BY <1>3 DEF Connected
  <2>2. ComponentOrder = If("api" \in Roles(raw), "api") \o If("scheduler" \in Roles(raw), "scheduler") \o If("worker" \in Roles(raw), "worker")
    BY Zenon DEF ComponentOrder
  <2> DEFINE a == Archives(raw)
             b == plan'.pool > 0
  <2>3. a \in BOOLEAN /\ b \in BOOLEAN
    BY DEF Archives
  <2> HIDE DEF a, b
  <2>4. If(a, "maintenance") \o If(b, "monitor") \o ComponentOrder \in Seq(Planned(raw))
    BY <2>2, <2>3, PlannedRoles, Zenon
  <2> QED BY <2>1, <2>4, Zenon DEF a, b
<1>4. raw' # NoRaw => raw' = raw
  BY <1>1
<1>5. ASSUME raw' # NoRaw, from_raw(raw') = "ok" PROVE result' \in MayEnd(raw')
  BY <1>2, <1>4, <1>5 DEF RefusalInv, MayEnd
<1>6. raw' # NoRaw => from_raw(raw') = "ok"
  BY <1>1, <1>4 DEF RefusalInv
<1>7. raw' \in Environments \cup {NoRaw}
  BY <1>1 DEF RefusalInv
<1>8. raw' # NoRaw /\ phase' = "starting" => todo' \in Seq(Planned(raw'))
  BY <1>3, <1>4
<1> QED BY <1>5, <1>6, <1>7, <1>8 DEF RefusalInv

LEMMA SpawnRefuses ==
    ASSUME RefusalInv, RuntimeInv, Spawn
    PROVE  RefusalInv'
<1>1. raw' = raw /\ phase = "starting" /\ todo # <<>> /\ todo \in Seq(Components)
  BY DEF Spawn, RuntimeInv, RuntimeTypeOK
<1>2. CASE raw = NoRaw
  BY <1>1, <1>2 DEF RefusalInv
<1>3. CASE raw # NoRaw
  <2>1. raw \in Environments /\ from_raw(raw) = "ok" /\ Accepted(raw) /\ todo \in Seq(Planned(raw)) /\ result \in MayEnd(raw)
    BY <1>1, <1>3, AcceptedEnvironment DEF RefusalInv
  <2> DEFINE c == Head(todo)
  <2>2. c \in Planned(raw) /\ c \in Components /\ Tail(todo) \in Seq(Planned(raw))
    BY <1>1, <2>1
  <2>3. Built(c) \in {"ok"} \cup KnownRefusals(raw)
    <3>1. CASE c \in {"maintenance", "monitor"}
      BY <3>1 DEF Built
    <3>2. CASE c \notin {"maintenance", "monitor"}
      <4>1. c \in Roles(raw) /\ c \in {"api", "scheduler", "worker"}
        BY <2>2, <3>2 DEF Planned, Components
      <4> HIDE DEF c
      <4>2. build(raw, FALSE, c) \in {"ok"} \cup KnownRefusals(raw)
        BY <2>1, <4>1, BuildRefusals
      <4> QED BY <1>3, <3>2, <4>2, Zenon DEF Built
    <3> QED BY <3>1, <3>2
  <2>4. \/ todo' = Tail(todo) /\ result' = result
        \/ phase' = "ended" /\ result' \in {"bind"} \cup ({Built(c)} \ {"ok"})
    BY DEF Spawn
  <2>5. result' \in MayEnd(raw)
    BY <2>1, <2>3, <2>4 DEF MayEnd
  <2>6. phase' = "starting" => todo' \in Seq(Planned(raw))
    BY <2>2, <2>4
  <2> QED BY <1>1, <2>1, <2>5, <2>6 DEF RefusalInv
<1> QED BY <1>2, <1>3

LEMMA RefusalStep ==
    ASSUME RefusalInv, RuntimeInv, [Next]_vars
    PROVE  RefusalInv'
<1>1. CASE Load
  BY <1>1, LoadRefuses
<1>2. CASE Connected
  BY <1>2, ConnectedRefuses
<1>3. CASE Spawn
  BY <1>3, SpawnRefuses
<1>4. ASSUME raw' = raw, result' = result, phase' = phase, todo' = todo PROVE RefusalInv'
  BY <1>4 DEF RefusalInv
<1>5. ASSUME raw' = raw, result' \in {result, "task"}, phase' \notin {"planned", "starting"} PROVE RefusalInv'
  BY <1>5 DEF RefusalInv, MayEnd
<1>6. CASE NotStarted \/ Shutdown \/ (\E t \in Tasks : TaskJoined(t)) \/ Drain \/ Exit
  BY <1>5, <1>6 DEF NotStarted, Shutdown, TaskJoined, Drain, Exit
<1>7. CASE Signal \/ MonitorStep \/ CleanupStep \/ Environment
  BY <1>4, <1>7 DEF Signal, MonitorStep, MonitorTick, Probe, CleanupStep, Environment, runtimeVars
<1>8. CASE ServerStops \/ SchedulerStops \/ MaintenanceStops \/ MonitorStops \/ (\E t \in Tasks : TaskFails(t))
  BY <1>4, <1>8 DEF ServerStops, SchedulerStops, MaintenanceStops, MonitorStops, TaskEnds, TaskFails
<1>9. ASSUME NEW w \in Workers, WorkerStep(w) \/ Interrupt(w) PROVE RefusalInv'
  BY <1>4, <1>9 DEF WorkerStep, Interrupt, LoopTop, Idle, Claim, SessionDone, JobDone, WaitEnds, runtimeVars
<1>10. CASE UNCHANGED vars
  BY <1>4, <1>10 DEF vars, runtimeVars
<1> QED
  BY <1>1, <1>2, <1>3, <1>6, <1>7, <1>8, <1>9, <1>10 DEF Next, Supervise, Done

\* For every environment the process may be started in, and every way its run
\* goes: what the configuration accepted is refused later only for one of the
\* known reasons, and a worker that runs can execute every job it claims
\* (config.rs, runtime_supervisor.rs).
THEOREM AcceptedCanBeBuilt == Spec => []ConfigurationAgrees
<1>1. Init => RefusalInv
  BY DEF Init, RefusalInv, MayEnd
<1>2. RefusalInv /\ RuntimeInv /\ [Next]_vars => RefusalInv'
  BY RefusalStep
<1>3. RefusalInv => ConfigurationAgrees
  <2>1. RefusalInv => OnlyKnownRefusals
    BY DEF RefusalInv, OnlyKnownRefusals, MayEnd
  <2>2. ASSUME NEW refresher \in BOOLEAN PROVE AllowedJobTypes(raw, refresher) \subseteq Handlers(raw, refresher)
    BY DEF AllowedJobTypes, Handlers, EXECUTABLE_WORKER_JOB_TYPES
  <2> QED BY <2>1, <2>2 DEF ConfigurationAgrees, WorkersCanExecute
<1> QED
  BY <1>1, <1>2, <1>3, RuntimeConsistent, PTL DEF Spec

=============================================================================
