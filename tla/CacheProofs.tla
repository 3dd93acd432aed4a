----------------------------- MODULE CacheProofs ----------------------------
(***************************************************************************)
(* What is kept to be served, proved: BlobStore for any number of clients, *)
(* any contents and sizes and any number of requests that land late,       *)
(* AssetCache above it for any images, sizes, articles and limits, and     *)
(* FeedCache for any number of workers, requests, tokens, revisions and    *)
(* faults and every lease and TTL.                                         *)
(*                                                                         *)
(* BlobStore.  BlobInv with OkIsReadable is inductive.  A lock holder is   *)
(* alone with the objects, so that what it has seen is still so, and it    *)
(* only goes on past its first read when there is no readable blob to      *)
(* lose.  Without a lock (object stores) what exists stays, since every    *)
(* write is conditional; only a delete ends that, and from its first step  *)
(* on nothing is acknowledged until a delete has been alone with the key.  *)
(* A request that its caller gave up and that lands without a condition    *)
(* ends both (stray), on an object store only behind a delete.             *)
(*                                                                         *)
(* AssetCache.  CacheIInv, in the second part, says the same of the       *)
(* committed tables and of a transaction's own copy: that copy only adds   *)
(* rows to what is committed, everything available in it has an object or  *)
(* was reused although its object is on its way out, and the rows it adds  *)
(* while it evicts nothing fit into the limit.  What happens beside a      *)
(* transaction (clean-ups that end, deletes that land late, relations that *)
(* go) changes no row of either.                                           *)
(*                                                                         *)
(* FeedCache, in the third part.  FeedInv is inductive; each of its parts  *)
(* is shown to survive each action by a lemma of its own that uses the     *)
(* parts it depends on.                                                    *)
(***************************************************************************)
EXTENDS BlobStore, AssetCache, FeedCache, FiniteSetTheorems, WellFoundedInduction, TLAPS

-----------------------------------------------------------------------------
(* The blob store. *)

StoreInv == BlobInv /\ OkIsReadable

\* What OkIsReadable means for the two objects.
AckedStored == acked # None /\ ~stray => body = acked /\ meta = acked

\* Where a writer can be sure of what it has seen.
Sure == Alone /\ ~stray

\* A read returns contents exactly when body and sidecar are of that blob.
LEMMA DecodeIs ==
    ASSUME NEW m \in Contents \cup {None}, NEW b \in Contents \cup {None, Part}
    PROVE  /\ Decode(m, b) \in Contents \cup {None, Bad}
           /\ Decode(m, b) \in Contents => m = Decode(m, b) /\ b = Decode(m, b)
           /\ m = b /\ b \in Contents => Decode(m, b) = b
  BY StoreNames DEF Decode, None, Part, Bad

\* The invariant in the form the steps use.
LEMMA Parts ==
    StoreInv <=> /\ TypeOK /\ LockExact /\ StrayExact /\ PhaseExact /\ ViewExact /\ PairAgrees
                 /\ DeletedIsGone /\ AckedStored
<1> SUFFICES ASSUME TypeOK, StrayExact, PhaseExact PROVE OkIsReadable <=> AckedStored
  BY DEF StoreInv, BlobInv
<1>1. body \in Contents \cup {None, Part} /\ meta \in Contents \cup {None} /\ acked \in Contents \cup {None}
  BY DEF TypeOK
<1>2. acked # None => (Readable = acked <=> body = acked /\ meta = acked)
  BY <1>1, DecodeIs, StoreNames DEF Readable, None, Part, Bad
<1>3. acked # None /\ stray => kind \in {"webdav", "ftp"}
  BY DEF TypeOK, StrayExact, PhaseExact, Remote
<1> QED
  BY <1>2, <1>3 DEF OkIsReadable, AckedStored

\* The primed form, for a step.
LEMMA PartsNext ==
    (StoreInv)' <=> /\ TypeOK' /\ LockExact' /\ StrayExact' /\ PhaseExact' /\ ViewExact' /\ PairAgrees'
                    /\ DeletedIsGone' /\ AckedStored'
<1> SUFFICES ASSUME TypeOK', StrayExact', PhaseExact' PROVE (OkIsReadable)' <=> AckedStored'
  BY DEF StoreInv, BlobInv
<1>1. body' \in Contents \cup {None, Part} /\ meta' \in Contents \cup {None} /\ acked' \in Contents \cup {None}
  BY DEF TypeOK
<1>2. acked' # None => (Readable' = acked' <=> body' = acked' /\ meta' = acked')
  BY <1>1, DecodeIs, StoreNames DEF Readable, None, Part, Bad
<1>3. acked' # None /\ stray' => kind' \in {"webdav", "ftp"}
  BY DEF TypeOK, StrayExact, PhaseExact, Remote
<1> QED
  BY <1>2, <1>3 DEF OkIsReadable, AckedStored

-----------------------------------------------------------------------------
(* How a call moves. *)

\* Calls that are not the one that moves stay where they are.
OthersStay(c) == \A d \in Clients \ {c} : cl'[d] = cl[d]

\* The objects when one call changes them: a lock holder may do anything to a key
\* without a readable blob; others only create.
Changes(c) ==
    /\ body' \in Contents \cup {None, Part} /\ meta' \in Contents \cup {None}
    /\ late' \subseteq [fld : {"body", "meta"}, v : Contents \cup {None}]
    /\ ~Remote => late' = {}
    /\ kind = "object" /\ phase # "going" => \A w \in late' : w.v # None
    /\ acked # None /\ ~stray => UNCHANGED <<body, meta>>
    /\ ~Locked => (body # None => body' = body) /\ (meta # None => meta' = meta)

\* A put goes on.
LEMMA PutMoves ==
    ASSUME StoreInv, NEW c \in Clients,
           cl[c].op = "put", cl[c].pc # "lock",
           Stay, Changes(c), OthersStay(c),
           cl' \in [Clients -> ClientRecord],
           cl'[c].op = "put", cl'[c].pc \notin {"idle", "lock"},
           CallTyped(cl[c])', 
           Sure => StillSo(cl[c])' /\ (FoundNone(cl'[c]) => acked = None),
           PairAgrees'
    PROVE  StoreInv'
<1> USE DEF Stay
<1>a. /\ TypeOK /\ LockExact /\ StrayExact /\ PhaseExact /\ ViewExact /\ PairAgrees
      /\ DeletedIsGone /\ AckedStored
  BY Parts
<1>b. cl[c].pc # "idle" /\ phase # "clean" /\ \A d \in Clients : CallTyped(cl[d])
  BY <1>a DEF TypeOK, CallTyped, PhaseExact, None
<1>c. Locked => lock = c
  BY <1>a, <1>b DEF LockExact, StrayExact, Remote
<1>1. TypeOK'
  <2>1. \A d \in Clients : CallTyped(cl[d])'
    BY <1>b DEF OthersStay, CallTyped
  <2> QED
    BY <1>a, <2>1 DEF TypeOK, Changes
<1>2. LockExact' /\ StrayExact'
  <2>1. LockExact'
    BY <1>a, <1>c DEF LockExact, Locked, OthersStay
  <2>2. StrayExact'
    BY <1>a DEF StrayExact, Remote, Changes
  <2> QED
    BY <2>1, <2>2
<1>3. PhaseExact'
  <2>1. ASSUME NEW d \in Clients, cl'[d].op = "delete"
        PROVE  phase' = "going" /\ cl'[d].ret # "alone"
    BY <1>a, <1>b, <2>1 DEF PhaseExact, OthersStay
  <2> QED
    BY <1>a, <1>b, <2>1 DEF PhaseExact
<1>4. ViewExact'
  <2> SUFFICES ASSUME Sure, NEW d \in Clients, d # c
               PROVE  StillSo(cl[d])' /\ (FoundNone(cl'[d]) => acked' = None)
    BY DEF ViewExact, Alone, Sure, FoundNone, Locked
  <2>1. cl'[d] = cl[d] /\ StillSo(cl[d]) /\ (FoundNone(cl[d]) => acked = None)
    BY <1>a DEF OthersStay, ViewExact, Sure
  <2>2. CASE Locked
    <3>1. cl[d].pc \in {"idle", "lock"}
      BY <1>a, <1>c, <2>2 DEF LockExact, StrayExact, Remote, PhaseExact, Alone, Sure
    <3> QED
      BY <2>1, <3>1 DEF StillSo
  <2>3. CASE ~Locked
    <3>1. CallTyped(cl[d]) /\ kind \in {"object", "pg"}
      BY <1>b, <2>3, <1>a DEF TypeOK, Locked, Kinds
    <3>2. cl[d].pc \in {"idle", "dbody", "dmeta", "rmeta", "rbody", "body", "meta", "metafailed", "recover", "recon"}
      BY <3>1, <1>a DEF CallTyped, StepsOf, TypeOK, ClientRecord
    <3>a. cl[d].pc = "rbody" => kind = "object"
      BY <3>1, <1>a DEF CallTyped, StepsOf, TypeOK, ClientRecord
    <3>3. cl[d].pc = "meta" => cl[d].want \in Contents
      BY <3>1, <1>a DEF CallTyped, TypeOK, ClientRecord
    <3>4. StillSo(cl[d])'
      BY <2>1, <2>3, <3>a, <3>2, <3>3, StoreNames DEF StillSo, Changes, None
    <3> QED
      BY <2>1, <2>3, <3>4 DEF FoundNone
  <2> QED
    BY <2>2, <2>3
<1>5. DeletedIsGone' /\ AckedStored'
  BY <1>a, <1>b DEF DeletedIsGone, AckedStored, Changes
<1> QED
  BY <1>1, <1>2, <1>3, <1>4, <1>5, PartsNext

\* The same, for the record that the call becomes.
LEMMA PutGoesOn ==
    ASSUME StoreInv, NEW c \in Clients, NEW y \in ClientRecord,
           cl[c].op = "put", cl[c].pc # "lock",
           cl' = [cl EXCEPT ![c] = y], Stay, Changes(c), PairAgrees',
           y.op = "put", y.pc \notin {"idle", "lock"}, CallTyped(y),
           Sure => StillSo(y)' /\ (FoundNone(y) => acked = None)
    PROVE  StoreInv'
<1>1. cl' \in [Clients -> ClientRecord] /\ cl'[c] = y /\ OthersStay(c)
  BY DEF StoreInv, BlobInv, TypeOK, OthersStay
<1>2. CallTyped(cl[c])'
  BY <1>1 DEF CallTyped, Stay
<1>3. Sure => StillSo(cl[c])' /\ (FoundNone(cl'[c]) => acked = None)
  BY <1>1 DEF StillSo
<1> QED
  BY <1>1, <1>2, <1>3, PutMoves

\* A put that only reads.
LEMMA PutReads ==
    ASSUME StoreInv, NEW c \in Clients, NEW y \in ClientRecord,
           cl[c].op = "put", cl[c].pc # "lock",
           cl' = [cl EXCEPT ![c] = y], Stay, UNCHANGED store,
           y.op = "put", y.pc \notin {"idle", "lock"}, CallTyped(y),
           Sure => StillSo(y) /\ (FoundNone(y) => acked = None)
    PROVE  StoreInv'
<1>1. Changes(c)
  BY DEF Changes, store, StoreInv, BlobInv, TypeOK, StrayExact
<1>2. PairAgrees'
  BY DEF StoreInv, BlobInv, PairAgrees, store, Stay
<1>3. Sure => StillSo(y)'
  BY DEF StillSo, store, Stay
<1> QED
  BY <1>1, <1>2, <1>3, PutGoesOn

\* A call that returns leaves its lock and nothing of itself.
LEMMA FinishIs ==
    ASSUME TypeOK, NEW c \in Clients, NEW res, Finish(c, res)
    PROVE  /\ cl' \in [Clients -> ClientRecord] /\ OthersStay(c)
           /\ cl'[c] = Quiet /\ cl'[c].pc = "idle" /\ cl'[c].op = None
           /\ lock' = IF lock = c THEN Free ELSE lock
           /\ kind' = kind
<1>1. Quiet \in ClientRecord /\ Quiet.pc = "idle" /\ Quiet.op = None
  BY DEF Quiet, ClientRecord
<1> QED
  BY <1>1 DEF Finish, TypeOK, OthersStay

\* A put ends, well or not.
LEMMA PutEnds ==
    ASSUME StoreInv, NEW c \in Clients, NEW res,
           cl[c].op = "put", Finish(c, res), Changes(c), PairAgrees',
           cl[c].pc = "lock" => res # "ok" /\ UNCHANGED store,
           res = "ok" /\ phase # "going" /\ ~stray => body' = cl[c].want /\ meta' = cl[c].want
    PROVE  StoreInv'
<1>a. /\ TypeOK /\ LockExact /\ StrayExact /\ PhaseExact /\ ViewExact /\ PairAgrees
      /\ DeletedIsGone /\ AckedStored
  BY Parts
<1>b. cl[c].pc # "idle" /\ phase # "clean" /\ \A d \in Clients : CallTyped(cl[d])
  BY <1>a DEF TypeOK, CallTyped, PhaseExact, None
<1>c. Locked /\ cl[c].pc # "lock" => lock = c
  BY <1>a, <1>b DEF LockExact, StrayExact, Remote
<1>d. /\ cl' \in [Clients -> ClientRecord] /\ OthersStay(c)
      /\ cl'[c].pc = "idle" /\ cl'[c].op = None
      /\ lock' = IF lock = c THEN Free ELSE lock
      /\ kind' = kind
  BY <1>a, FinishIs
<1>e. stray' = stray /\ phase' = phase /\ acked' = IF res = "ok" /\ phase # "going" THEN cl[c].want ELSE acked
  BY DEF Finish, StoreInv, BlobInv, TypeOK
<1>f. cl[c].want \in Contents
  BY <1>b DEF CallTyped
<1>1. TypeOK'
  <2>1. \A d \in Clients : CallTyped(cl[d])'
    BY <1>b, <1>d DEF OthersStay, CallTyped, None
  <2>2. acked' \in Contents \cup {None} /\ lock' \in Clients \cup {Free}
    BY <1>a, <1>d, <1>e, <1>f DEF TypeOK
  <2> QED
    BY <1>a, <1>d, <1>e, <2>1, <2>2 DEF TypeOK, Changes
<1>2. LockExact'
  <2>1. ASSUME NEW d \in Clients, Locked, cl'[d].pc \notin {"idle", "lock"}
        PROVE  lock' = d \/ (kind = "fs" /\ cl'[d].op = "delete")
    BY <1>a, <1>d, <2>1 DEF LockExact, StrayExact, Remote, OthersStay
  <2>2. lock' # Free => lock' = lock /\ lock # c /\ lock \in Clients /\ cl'[lock] = cl[lock]
    BY <1>a, <1>d DEF OthersStay, TypeOK
  <2> QED
    BY <1>a, <1>d, <2>1, <2>2 DEF LockExact, Locked
<1>6. StrayExact'
  BY <1>a, <1>d, <1>e DEF StrayExact, Remote, Changes
<1>3. PhaseExact'
  <2>1. ASSUME NEW d \in Clients, cl'[d].op = "delete"
        PROVE  phase' = "going" /\ cl'[d].ret # "alone"
    BY <1>a, <1>b, <1>d, <1>e, <2>1 DEF PhaseExact, OthersStay, None
  <2>2. acked' # None => phase' = "live"
    BY <1>a, <1>b, <1>e DEF PhaseExact, TypeOK
  <2> QED
    BY <1>b, <1>e, <2>1, <2>2 DEF PhaseExact
<1>4. ViewExact'
  <2> SUFFICES ASSUME Sure, NEW d \in Clients
               PROVE  StillSo(cl[d])' /\ (FoundNone(cl'[d]) => acked' = None)
    BY <1>d, <1>e DEF ViewExact, Alone, Sure, FoundNone, Locked
  <2>1. CASE d = c
    BY <1>d, <2>1 DEF StillSo, FoundNone, None
  <2>2. CASE d # c /\ cl[c].pc = "lock"
    <3>1. cl'[d] = cl[d] /\ StillSo(cl[d]) /\ (FoundNone(cl[d]) => acked = None)
      BY <1>a, <1>d, <2>2 DEF OthersStay, ViewExact, Sure
    <3> QED
      BY <1>d, <1>e, <2>2, <3>1 DEF StillSo, store
  <2>3. CASE d # c /\ cl[c].pc # "lock" /\ Locked
    <3>1. cl'[d] = cl[d] /\ cl[d].pc \in {"idle", "lock"}
      BY <1>a, <1>b, <1>c, <1>d, <2>3 DEF LockExact, StrayExact, Remote, PhaseExact, Alone, Sure, OthersStay
    <3>2. cl[d].pc = "idle" => cl[d].op = None
      BY <1>b DEF CallTyped
    <3> QED
      BY <3>1, <3>2 DEF StillSo, FoundNone, None
  <2>4. CASE d # c /\ ~Locked
    <3>0. cl'[d] = cl[d] /\ StillSo(cl[d])
      BY <1>a, <1>d, <2>4 DEF OthersStay, ViewExact, Sure
    <3>1. CallTyped(cl[d]) /\ kind \in {"object", "pg"}
      BY <1>b, <2>4, <1>a DEF TypeOK, Locked, Kinds
    <3>2. cl[d].pc \in {"idle", "dbody", "dmeta", "rmeta", "rbody", "body", "meta", "metafailed", "recover", "recon"}
      BY <3>1, <1>a DEF CallTyped, StepsOf, TypeOK, ClientRecord
    <3>3. cl[d].pc = "meta" => cl[d].want \in Contents
      BY <3>1, <1>a DEF CallTyped, TypeOK, ClientRecord
    <3>4. cl[d].pc = "rbody" => kind = "object"
      BY <3>1, <1>a DEF CallTyped, StepsOf, TypeOK, ClientRecord
    <3>5. StillSo(cl[d])'
      BY <3>0, <2>4, <1>d, <3>4, <3>2, <3>3, StoreNames DEF StillSo, Changes, None
    <3> QED
      BY <3>0, <2>4, <3>5 DEF FoundNone
  <2> QED
    BY <2>1, <2>2, <2>3, <2>4
<1>5. DeletedIsGone' /\ AckedStored'
  BY <1>a, <1>b, <1>e DEF DeletedIsGone, AckedStored, Changes
<1> QED
  BY <1>1, <1>2, <1>3, <1>4, <1>5, <1>6, PartsNext

\* A put that ends without touching the objects.
LEMMA PutEndsHere ==
    ASSUME StoreInv, NEW c \in Clients, NEW res,
           cl[c].op = "put", Finish(c, res), UNCHANGED store,
           cl[c].pc = "lock" => res # "ok",
           res = "ok" /\ phase # "going" /\ ~stray => body = cl[c].want /\ meta = cl[c].want
    PROVE  StoreInv'
<1>1. Changes(c)
  BY DEF Changes, store, StoreInv, BlobInv, TypeOK, StrayExact
<1>2. PairAgrees'
  BY DEF StoreInv, BlobInv, PairAgrees, store, Finish
<1> QED
  BY <1>1, <1>2, PutEnds DEF store

\* What holds of a put that is at one of its own steps.
LEMMA PutIs ==
    ASSUME StoreInv, NEW c \in Clients, cl[c].pc \notin {"idle", "lock", "dbody", "dmeta"}
    PROVE  /\ cl[c].op = "put" /\ cl[c] \in ClientRecord /\ CallTyped(cl[c])
           /\ cl[c].want \in Contents /\ cl[c].ret \in Reads /\ cl[c].pc \in StepsOf[kind]
           /\ kind \in Kinds
           /\ body \in Contents \cup {None, Part} /\ meta \in Contents \cup {None}
           /\ acked \in Contents \cup {None}
           /\ Sure => StillSo(cl[c])
           /\ ~stray /\ FoundNone(cl[c]) => acked = None
           /\ ~Alone => acked = None
           /\ acked # None /\ ~stray => body = acked /\ meta = acked
<1>a. TypeOK /\ PhaseExact /\ ViewExact /\ AckedStored
  BY Parts
<1>1. CallTyped(cl[c]) /\ cl[c] \in ClientRecord /\ kind \in Kinds
  BY <1>a DEF TypeOK
<1>2. cl[c].op = "put"
  BY <1>1 DEF CallTyped, ClientRecord
<1> QED
  BY <1>a, <1>1, <1>2 DEF TypeOK, CallTyped, PhaseExact, ViewExact, AckedStored, Alone, Sure

-----------------------------------------------------------------------------
(* read, and the reads of the conditional writers. *)

\* The sidecar is read.
LEMMA ReadMetaKeeps ==
    ASSUME StoreInv, NEW c \in Clients, ReadMeta(c)
    PROVE  StoreInv'
<1>a. cl[c].pc \notin {"idle", "lock", "dbody", "dmeta"}
  BY DEF ReadMeta
<1>b. /\ cl[c].op = "put" /\ cl[c] \in ClientRecord /\ CallTyped(cl[c])
      /\ cl[c].want \in Contents /\ cl[c].ret \in Reads /\ cl[c].pc \in StepsOf[kind]
      /\ kind \in Kinds
      /\ body \in Contents \cup {None, Part} /\ meta \in Contents \cup {None}
      /\ acked \in Contents \cup {None}
      /\ Sure => StillSo(cl[c])
      /\ ~stray /\ FoundNone(cl[c]) => acked = None
      /\ ~Alone => acked = None
      /\ acked # None /\ ~stray => body = acked /\ meta = acked
  BY <1>a, PutIs
<1> DEFINE y == [cl[c] EXCEPT !.m = meta, !.pc = "rbody"]
<1>1. y \in ClientRecord /\ y.pc = "rbody" /\ y.m = meta /\ y.op = "put" /\ y.ret = cl[c].ret /\ y.want = cl[c].want /\ y.ctx = cl[c].ctx
  BY <1>b DEF ClientRecord
<1>2. cl' = [cl EXCEPT ![c] = y] /\ cl[c].pc = "rmeta" /\ Stay /\ UNCHANGED store
  BY DEF ReadMeta
<1> HIDE DEF y
<1>3. CallTyped(y)
  BY <1>b, <1>1, <1>2 DEF CallTyped, StepsOf, Kinds
<1>4. StillSo(y) /\ (FoundNone(y) => FoundNone(cl[c]))
  BY <1>b, <1>1, <1>2 DEF StillSo, FoundNone
<1> QED
  BY <1>b, <1>1, <1>2, <1>3, <1>4, PutReads DEF Sure

\* What the read returns decides where the writer goes; it answers Ok only for the
\* blob it was to write.
LEMMA ReadBodyKeeps ==
    ASSUME StoreInv, NEW c \in Clients, NEW fails \in BOOLEAN, ReadBody(c, fails)
    PROVE  StoreInv'
<1>a. cl[c].pc \notin {"idle", "lock", "dbody", "dmeta"}
  BY DEF ReadBody
<1>b. /\ cl[c].op = "put" /\ cl[c] \in ClientRecord /\ CallTyped(cl[c])
      /\ cl[c].want \in Contents /\ cl[c].ret \in Reads /\ cl[c].pc \in StepsOf[kind]
      /\ kind \in Kinds
      /\ body \in Contents \cup {None, Part} /\ meta \in Contents \cup {None}
      /\ acked \in Contents \cup {None}
      /\ Sure => StillSo(cl[c])
      /\ ~stray /\ FoundNone(cl[c]) => acked = None
      /\ ~Alone => acked = None
      /\ acked # None /\ ~stray => body = acked /\ meta = acked
  BY <1>a, PutIs
<1> DEFINE r == IF fails THEN Bad ELSE Decode(cl[c].m, body)
<1>c. cl[c].pc = "rbody" /\ Returned(c, r) /\ UNCHANGED store /\ cl[c].m \in Contents \cup {None}
  BY <1>b DEF ReadBody, ClientRecord
<1>d. kind \in {"fs", "object", "webdav"}
  BY <1>b, <1>c DEF StepsOf, Kinds
<1>e. /\ r \in Contents => r = body /\ r = cl[c].m
      /\ r \in Contents \cup {None, Bad}
      /\ r = None => cl[c].m = None \/ cl[c].m # body \/ body \notin Contents
  BY <1>b, <1>c, DecodeIs, StoreNames DEF None, Bad
<1> HIDE DEF r
<1>f. Sure => cl[c].m = meta \/ (kind = "object" /\ cl[c].m = None)
  BY <1>b, <1>c DEF StillSo
<1>g. r = None /\ Locked /\ ~stray => acked = None
  BY <1>b, <1>d, <1>e, <1>f, StoreNames DEF Locked, Sure
<1>w. cl[c].want # None
  BY <1>b, StoreNames
<1>h. cl[c].ret # "first" => kind # "webdav"
  BY <1>b, <1>c DEF CallTyped
<1>1. ASSUME NEW res, Finish(c, res), res = "ok" => r = cl[c].want
      PROVE  StoreInv'
  <2>1. res = "ok" /\ phase # "going" /\ ~stray => body = cl[c].want /\ meta = cl[c].want
    BY <1>1, <1>b, <1>e, <1>f, StoreNames DEF Alone, Sure
  <2> QED
    BY <1>1, <1>b, <1>c, <2>1, PutEndsHere
<1>2. ASSUME NEW y \in ClientRecord, cl' = [cl EXCEPT ![c] = y], Stay,
             y.op = "put", y.want = cl[c].want, y.ret \in Reads,
             y.pc \in {"rmeta", "metafailed", "lmeta", "body", "recover", "meta"} \cap StepsOf[kind],
             y.pc = "rmeta" => kind # "webdav" /\ y.ret # "metaexists",
             y.pc = "metafailed" => y.ctx \in ContextsOf[kind],
             y.pc = "meta" => y.ctx = "recon" /\ kind # "webdav",
             r = None \/ (FoundNone(y) => FoundNone(cl[c]))
      PROVE  StoreInv'
  <2>1. CallTyped(y)
    BY <1>2, <1>b, <1>d DEF CallTyped, ContextsOf, None
  <2>2. StillSo(y)
    BY <1>2 DEF StillSo
  <2>3. ~stray /\ FoundNone(y) => acked = None
    BY <1>2, <1>b, <1>g DEF FoundNone
  <2> QED
    BY <1>2, <1>b, <1>c, <2>1, <2>2, <2>3, PutReads DEF Sure
<1>3. CASE r = cl[c].want
  <2>1. CASE cl[c].ret = "metaexists" /\ cl[c].ctx = "recon"
    <3> DEFINE y == [cl[c] EXCEPT !.pc = "rmeta", !.ret = "recon2"]
    <3>1. cl' = [cl EXCEPT ![c] = y] /\ Stay
      BY <1>3, <2>1, <1>c DEF Returned, ReadFor
    <3>2. y \in ClientRecord /\ y.op = "put" /\ y.want = cl[c].want /\ y.ret = "recon2" /\ y.pc = "rmeta"
      BY <1>b DEF ClientRecord, Reads
    <3> HIDE DEF y
    <3>3. y.pc \in StepsOf[kind] /\ kind # "webdav"
      BY <1>b, <1>d, <2>1, <3>2, <1>h DEF StepsOf
    <3>4. FoundNone(y) => FoundNone(cl[c])
      BY <1>b, <1>c, <2>1, <3>2 DEF FoundNone
    <3> QED
      BY <1>2, <3>1, <3>2, <3>3, <3>4 DEF Reads
  <2>2. CASE ~(cl[c].ret = "metaexists" /\ cl[c].ctx = "recon")
    <3>1. Finish(c, "ok")
      BY <1>3, <1>w, <2>2, <1>c DEF Returned
    <3> QED
      BY <1>1, <1>3, <3>1
  <2> QED
    BY <2>1, <2>2
<1>4. CASE r # cl[c].want /\ cl[c].ret = "metaexists"
  <2> DEFINE y == [cl[c] EXCEPT !.pc = "metafailed"]
  <2>1. cl' = [cl EXCEPT ![c] = y] /\ Stay
    BY <1>4, <1>c DEF Returned, Goto
  <2>2. /\ y \in ClientRecord /\ y.op = "put" /\ y.want = cl[c].want /\ y.ret = cl[c].ret
        /\ y.pc = "metafailed" /\ y.ctx = cl[c].ctx
    BY <1>b DEF ClientRecord
  <2> HIDE DEF y
  <2>3. y.pc \in StepsOf[kind] /\ (FoundNone(y) => FoundNone(cl[c]))
    BY <1>b, <1>c, <1>d, <1>4, <2>2 DEF StepsOf, FoundNone
  <2>4. y.ctx \in ContextsOf[kind]
    BY <1>b, <1>c, <1>4, <2>2 DEF CallTyped
  <2> QED
    BY <1>2, <1>b, <2>1, <2>2, <2>3, <2>4
<1>5. CASE r # cl[c].want /\ r = None /\ cl[c].ret \in {"first", "exists"}
  <2> DEFINE pc == IF cl[c].ret = "exists" THEN "recover" ELSE IF kind = "webdav" THEN "lmeta" ELSE "body"
             y == [cl[c] EXCEPT !.pc = pc]
  <2>1. cl' = [cl EXCEPT ![c] = y] /\ Stay
    BY <1>5, <1>c DEF Returned, Goto
  <2>2. /\ y \in ClientRecord /\ y.op = "put" /\ y.want = cl[c].want /\ y.ret = cl[c].ret
        /\ y.pc = pc /\ pc \in {"recover", "lmeta", "body"}
    BY <1>b DEF ClientRecord
  <2>3. pc \in StepsOf[kind]
    BY <1>d, <1>h, <1>5 DEF StepsOf
  <2> HIDE DEF y, pc
  <2> QED
    BY <1>2, <1>b, <1>5, <2>1, <2>2, <2>3
<1>6. CASE r # cl[c].want /\ r = None /\ cl[c].ret = "recon1"
  <2> DEFINE y == [cl[c] EXCEPT !.pc = "meta", !.ctx = "recon"]
  <2>1. cl' = [cl EXCEPT ![c] = y] /\ Stay
    BY <1>6, <1>c DEF Returned, MetaFor
  <2>2. /\ y \in ClientRecord /\ y.op = "put" /\ y.want = cl[c].want /\ y.ret = cl[c].ret
        /\ y.pc = "meta" /\ y.ctx = "recon"
    BY <1>b DEF ClientRecord
  <2> HIDE DEF y
  <2>3. y.pc \in StepsOf[kind]
    BY <1>d, <2>2 DEF StepsOf
  <2> QED
    BY <1>2, <1>b, <1>h, <1>6, <2>1, <2>2, <2>3
<1>7. CASE /\ r # cl[c].want /\ cl[c].ret # "metaexists"
           /\ ~(r = None /\ cl[c].ret \in {"first", "exists", "recon1"})
  <2>1. Finish(c, "err")
    BY <1>7, <1>c DEF Returned
  <2> QED
    BY <1>1, <2>1
<1> QED
  BY <1>3, <1>4, <1>5, <1>6, <1>7

-----------------------------------------------------------------------------
(* The steps of a writer. *)

\* The body is created, found, or in doubt.
LEMMA WriteBodyKeeps ==
    ASSUME StoreInv, NEW c \in Clients, NEW o \in Outcomes, WriteBody(c, o)
    PROVE  StoreInv'
<1>a. cl[c].pc \notin {"idle", "lock", "dbody", "dmeta"}
  BY DEF WriteBody
<1>b. /\ cl[c].op = "put" /\ cl[c] \in ClientRecord /\ CallTyped(cl[c])
      /\ cl[c].want \in Contents /\ cl[c].ret \in Reads /\ cl[c].pc \in StepsOf[kind]
      /\ kind \in Kinds
      /\ body \in Contents \cup {None, Part} /\ meta \in Contents \cup {None}
      /\ acked \in Contents \cup {None}
      /\ Sure => StillSo(cl[c])
      /\ ~stray /\ FoundNone(cl[c]) => acked = None
      /\ ~Alone => acked = None
      /\ acked # None /\ ~stray => body = acked /\ meta = acked
  BY <1>a, PutIs
<1>c. /\ cl[c].pc = "body" /\ kind \in {"fs", "object"} /\ body' = Write(body, cl[c].want, o)
      /\ UNCHANGED <<meta, late>> /\ Stay
  BY <1>b DEF WriteBody, Conditional
<1>e. (kind = "fs" /\ ~stray => acked = None) /\ (body # None => body' = body) /\ body' \in {body, cl[c].want}
  BY <1>b, <1>c DEF FoundNone, Locked, Write, Exists, Conditional
<1>d. Changes(c) /\ PairAgrees'
  BY <1>b, <1>c, <1>e, StoreNames DEF Changes, PairAgrees, Stay, StoreInv, BlobInv, TypeOK, LockExact, StrayExact, Remote, Locked
<1>1. CASE Answer(body, o) = "ok"
  <2>1. PICK y \in ClientRecord : /\ cl' = [cl EXCEPT ![c] = y]
                                  /\ y.pc = "meta" /\ y.op = "put" /\ y.want = cl[c].want
                                  /\ y.m = cl[c].m /\ y.ret = cl[c].ret /\ y.ctx = "main"
    <3> DEFINE z == [cl[c] EXCEPT !.pc = "meta", !.ctx = "main"]
    <3>1. cl' = [cl EXCEPT ![c] = z]
      BY <1>1, <1>b, <1>c DEF WriteBody, MetaFor
    <3>2. /\ z \in ClientRecord /\ z.pc = "meta" /\ z.op = "put" /\ z.want = cl[c].want
                                  /\ z.m = cl[c].m /\ z.ret = cl[c].ret /\ z.ctx = "main"
      BY <1>1, <1>b, <1>c DEF ClientRecord, Reads
    <3> QED
      BY <3>1, <3>2
  <2>2. Stay
    BY <1>1, <1>b, <1>c DEF WriteBody, MetaFor
  <2>3. CallTyped(y)
    BY <1>1, <1>b, <1>c, <2>1 DEF CallTyped, StepsOf, ContextsOf, Reads, Kinds, None
  <2>4. Sure => StillSo(y)'
    BY <1>1, <1>b, <1>c, <2>1, <2>2, StoreNames DEF StillSo, Stay, Answer, Write
  <2>5. ~stray /\ FoundNone(y) => acked = None
    BY <1>b, <1>c, <2>1 DEF FoundNone
  <2> QED
    BY <1>b, <1>c, <2>1, <2>2, <2>3, <2>4, <2>5, <1>d, PutGoesOn DEF Sure
<1>2. CASE Answer(body, o) = "exists"
  <2>1. PICK y \in ClientRecord : /\ cl' = [cl EXCEPT ![c] = y]
                                  /\ y.pc = "rmeta" /\ y.op = "put" /\ y.want = cl[c].want
                                  /\ y.m = cl[c].m /\ y.ret = "exists" /\ y.ctx = cl[c].ctx
    <3> DEFINE z == [cl[c] EXCEPT !.pc = "rmeta", !.ret = "exists"]
    <3>1. cl' = [cl EXCEPT ![c] = z]
      BY <1>2, <1>b, <1>c DEF WriteBody, ReadFor
    <3>2. /\ z \in ClientRecord /\ z.pc = "rmeta" /\ z.op = "put" /\ z.want = cl[c].want
                                  /\ z.m = cl[c].m /\ z.ret = "exists" /\ z.ctx = cl[c].ctx
      BY <1>2, <1>b, <1>c DEF ClientRecord, Reads
    <3> QED
      BY <3>1, <3>2
  <2>2. Stay
    BY <1>2, <1>b, <1>c DEF WriteBody, ReadFor
  <2>3. CallTyped(y)
    BY <1>2, <1>b, <1>c, <2>1 DEF CallTyped, StepsOf, ContextsOf, Reads, Kinds, None
  <2>4. Sure => StillSo(y)'
    BY <1>2, <1>b, <1>c, <2>1, <2>2 DEF StillSo, Stay
  <2>5. ~stray /\ FoundNone(y) => acked = None
    BY <1>b, <1>c, <2>1 DEF FoundNone
  <2> QED
    BY <1>b, <1>c, <2>1, <2>2, <2>3, <2>4, <2>5, <1>d, PutGoesOn DEF Sure
<1>3. CASE Answer(body, o) \notin {"ok", "exists"}
  <2>1. PICK y \in ClientRecord : /\ cl' = [cl EXCEPT ![c] = y]
                                  /\ y.pc = "recon" /\ y.op = "put" /\ y.want = cl[c].want
                                  /\ y.m = cl[c].m /\ y.ret = cl[c].ret /\ y.ctx = cl[c].ctx
    <3> DEFINE z == [cl[c] EXCEPT !.pc = "recon"]
    <3>1. cl' = [cl EXCEPT ![c] = z]
      BY <1>3, <1>b, <1>c DEF WriteBody, Goto
    <3>2. /\ z \in ClientRecord /\ z.pc = "recon" /\ z.op = "put" /\ z.want = cl[c].want
                                  /\ z.m = cl[c].m /\ z.ret = cl[c].ret /\ z.ctx = cl[c].ctx
      BY <1>3, <1>b, <1>c DEF ClientRecord, Reads
    <3> QED
      BY <3>1, <3>2
  <2>2. Stay
    BY <1>3, <1>b, <1>c DEF WriteBody, Goto
  <2>3. CallTyped(y)
    BY <1>3, <1>b, <1>c, <2>1 DEF CallTyped, StepsOf, ContextsOf, Reads, Kinds, None
  <2>4. Sure => StillSo(y)'
    BY <1>3, <1>b, <1>c, <2>1, <2>2 DEF StillSo, Stay
  <2>5. ~stray /\ FoundNone(y) => acked = None
    BY <1>b, <1>c, <2>1 DEF FoundNone
  <2> QED
    BY <1>b, <1>c, <2>1, <2>2, <2>3, <2>4, <2>5, <1>d, PutGoesOn DEF Sure
<1> QED
  BY <1>1, <1>2, <1>3

\* The sidecar is written; without a doubt about the body that completes the blob.
LEMMA WriteMetaKeeps ==
    ASSUME StoreInv, NEW c \in Clients, NEW o \in Outcomes, WriteMeta(c, o)
    PROVE  StoreInv'
<1>a. cl[c].pc \notin {"idle", "lock", "dbody", "dmeta"}
  BY DEF WriteMeta
<1>b. /\ cl[c].op = "put" /\ cl[c] \in ClientRecord /\ CallTyped(cl[c])
      /\ cl[c].want \in Contents /\ cl[c].ret \in Reads /\ cl[c].pc \in StepsOf[kind]
      /\ kind \in Kinds
      /\ body \in Contents \cup {None, Part} /\ meta \in Contents \cup {None}
      /\ acked \in Contents \cup {None}
      /\ Sure => StillSo(cl[c])
      /\ ~stray /\ FoundNone(cl[c]) => acked = None
      /\ ~Alone => acked = None
      /\ acked # None /\ ~stray => body = acked /\ meta = acked
  BY <1>a, PutIs
<1>c. /\ cl[c].pc = "meta" /\ kind # "pg" /\ meta' = Write(meta, cl[c].want, o)
      /\ UNCHANGED <<body, late>> /\ kind' = kind /\ cl[c].ctx \in ContextsOf[kind]
  BY <1>b DEF WriteMeta, CallTyped, StepsOf, Stay, Finish
<1>e. /\ Locked /\ ~stray => acked = None
      /\ Conditional /\ meta # None => meta' = meta
      /\ meta' \in {meta, cl[c].want}
  BY <1>b, <1>c DEF FoundNone, Locked, Write, Exists, Conditional
<1>f. kind \in {"webdav", "ftp"} /\ ~stray => body = cl[c].want
  BY <1>b, <1>c DEF StillSo, Alone, Sure, ContextsOf
<1>d. Changes(c) /\ PairAgrees'
  <2>1. Changes(c)
    BY <1>b, <1>c, <1>e, StoreNames DEF Changes, StoreInv, BlobInv, TypeOK, LockExact, StrayExact, Remote, Locked, Conditional, Kinds
  <2>2. PairAgrees'
    BY <1>b, <1>c, <1>e, <1>f DEF PairAgrees, StoreInv, BlobInv, WriteMeta, Finish, Stay
  <2> QED
    BY <2>1, <2>2
<1>1. CASE Answer(meta, o) = "ok" /\ cl[c].ctx # "recon"
  <2>1. Finish(c, "ok")
    BY <1>1, <1>b, <1>c DEF WriteMeta
  <2>2. phase # "going" /\ ~stray => body' = cl[c].want /\ meta' = cl[c].want
    BY <1>1, <1>b, <1>c DEF StillSo, Alone, Sure, Answer, Write
  <2> QED
    BY <1>b, <1>c, <2>1, <2>2, <1>d, PutEnds
<1>2. CASE Answer(meta, o) = "ok" /\ cl[c].ctx = "recon"
  <2>1. PICK y \in ClientRecord : /\ cl' = [cl EXCEPT ![c] = y]
                                  /\ y.pc = "rmeta" /\ y.op = "put" /\ y.want = cl[c].want
                                  /\ y.m = cl[c].m /\ y.ret = "recon2" /\ y.ctx = cl[c].ctx
    <3> DEFINE z == [cl[c] EXCEPT !.pc = "rmeta", !.ret = "recon2"]
    <3>1. cl' = [cl EXCEPT ![c] = z]
      BY <1>2, <1>b, <1>c DEF WriteMeta, ReadFor
    <3>2. /\ z \in ClientRecord /\ z.pc = "rmeta" /\ z.op = "put" /\ z.want = cl[c].want
                                  /\ z.m = cl[c].m /\ z.ret = "recon2" /\ z.ctx = cl[c].ctx
      BY <1>2, <1>b, <1>c DEF ClientRecord, Reads
    <3> QED
      BY <3>1, <3>2
  <2>2. Stay
    BY <1>2, <1>b, <1>c DEF WriteMeta, ReadFor
  <2>3. CallTyped(y)
    BY <1>2, <1>b, <1>c, <2>1 DEF CallTyped, StepsOf, ContextsOf, Reads, Kinds, None
  <2>4. Sure => StillSo(y)'
    BY <1>2, <1>b, <1>c, <2>1, <2>2 DEF StillSo, Stay
  <2>5. ~stray /\ FoundNone(y) => acked = None
    BY <1>b, <1>c, <2>1 DEF FoundNone
  <2> QED
    BY <1>b, <1>c, <2>1, <2>2, <2>3, <2>4, <2>5, <1>d, PutGoesOn DEF Sure
<1>3. CASE Answer(meta, o) = "exists"
  <2>1. PICK y \in ClientRecord : /\ cl' = [cl EXCEPT ![c] = y]
                                  /\ y.pc = "rmeta" /\ y.op = "put" /\ y.want = cl[c].want
                                  /\ y.m = cl[c].m /\ y.ret = "metaexists" /\ y.ctx = cl[c].ctx
    <3> DEFINE z == [cl[c] EXCEPT !.pc = "rmeta", !.ret = "metaexists"]
    <3>1. cl' = [cl EXCEPT ![c] = z]
      BY <1>3, <1>b, <1>c DEF WriteMeta, ReadFor
    <3>2. /\ z \in ClientRecord /\ z.pc = "rmeta" /\ z.op = "put" /\ z.want = cl[c].want
                                  /\ z.m = cl[c].m /\ z.ret = "metaexists" /\ z.ctx = cl[c].ctx
      BY <1>3, <1>b, <1>c DEF ClientRecord, Reads
    <3> QED
      BY <3>1, <3>2
  <2>2. Stay
    BY <1>3, <1>b, <1>c DEF WriteMeta, ReadFor
  <2>3. CallTyped(y)
    BY <1>3, <1>b, <1>c, <2>1 DEF CallTyped, Answer, Exists, Conditional, StepsOf, ContextsOf, Reads, Kinds, None
  <2>4. Sure => StillSo(y)'
    BY <1>3, <1>b, <1>c, <2>1, <2>2 DEF StillSo, Stay
  <2>5. ~stray /\ FoundNone(y) => acked = None
    BY <1>b, <1>c, <2>1 DEF FoundNone
  <2> QED
    BY <1>b, <1>c, <2>1, <2>2, <2>3, <2>4, <2>5, <1>d, PutGoesOn DEF Sure
<1>4. CASE Answer(meta, o) \notin {"ok", "exists"}
  <2>1. PICK y \in ClientRecord : /\ cl' = [cl EXCEPT ![c] = y]
                                  /\ y.pc = "metafailed" /\ y.op = "put" /\ y.want = cl[c].want
                                  /\ y.m = cl[c].m /\ y.ret = cl[c].ret /\ y.ctx = cl[c].ctx
    <3> DEFINE z == [cl[c] EXCEPT !.pc = "metafailed"]
    <3>1. cl' = [cl EXCEPT ![c] = z]
      BY <1>4, <1>b, <1>c DEF WriteMeta, Goto
    <3>2. /\ z \in ClientRecord /\ z.pc = "metafailed" /\ z.op = "put" /\ z.want = cl[c].want
                                  /\ z.m = cl[c].m /\ z.ret = cl[c].ret /\ z.ctx = cl[c].ctx
      BY <1>4, <1>b, <1>c DEF ClientRecord, Reads
    <3> QED
      BY <3>1, <3>2
  <2>2. Stay
    BY <1>4, <1>b, <1>c DEF WriteMeta, Goto
  <2>3. CallTyped(y)
    BY <1>4, <1>b, <1>c, <2>1 DEF CallTyped, StepsOf, ContextsOf, Reads, Kinds, None
  <2>4. Sure => StillSo(y)'
    BY <1>4, <1>b, <1>c, <2>1, <2>2 DEF StillSo, Stay
  <2>5. ~stray /\ FoundNone(y) => acked = None
    BY <1>b, <1>c, <2>1 DEF FoundNone
  <2> QED
    BY <1>b, <1>c, <2>1, <2>2, <2>3, <2>4, <2>5, <1>d, PutGoesOn DEF Sure
<1> QED
  BY <1>1, <1>2, <1>3, <1>4

\* After a failed sidecar a lock holder cleans up and an object store reconciles.
LEMMA MetaFailedKeeps ==
    ASSUME StoreInv, NEW c \in Clients, MetaFailed(c)
    PROVE  StoreInv'
<1>a. cl[c].pc \notin {"idle", "lock", "dbody", "dmeta"}
  BY DEF MetaFailed
<1>b. /\ cl[c].op = "put" /\ cl[c] \in ClientRecord /\ CallTyped(cl[c])
      /\ cl[c].want \in Contents /\ cl[c].ret \in Reads /\ cl[c].pc \in StepsOf[kind]
      /\ kind \in Kinds
      /\ body \in Contents \cup {None, Part} /\ meta \in Contents \cup {None}
      /\ acked \in Contents \cup {None}
      /\ Sure => StillSo(cl[c])
      /\ ~stray /\ FoundNone(cl[c]) => acked = None
      /\ ~Alone => acked = None
      /\ acked # None /\ ~stray => body = acked /\ meta = acked
  BY <1>a, PutIs
<1>c. cl[c].pc = "metafailed" /\ UNCHANGED store /\ cl[c].ctx \in ContextsOf[kind]
  BY <1>b DEF MetaFailed, CallTyped
<1>1. CASE cl[c].ctx = "bodyonly" \/ (cl[c].ctx = "recon" /\ kind = "object")
  <2>1. Finish(c, "err")
    BY <1>1, <1>b, <1>c DEF MetaFailed
  <2> QED
    BY <1>b, <1>c, <2>1, PutEndsHere
<1>2. CASE ~(cl[c].ctx = "bodyonly" \/ (cl[c].ctx = "recon" /\ kind = "object")) /\ kind = "object"
  <2>1. PICK y \in ClientRecord : /\ cl' = [cl EXCEPT ![c] = y]
                                  /\ y.pc = "recon" /\ y.op = "put" /\ y.want = cl[c].want
                                  /\ y.m = cl[c].m /\ y.ret = cl[c].ret /\ y.ctx = cl[c].ctx
    <3> DEFINE z == [cl[c] EXCEPT !.pc = "recon"]
    <3>1. cl' = [cl EXCEPT ![c] = z]
      BY <1>2, <1>b, <1>c DEF MetaFailed, Goto
    <3>2. /\ z \in ClientRecord /\ z.pc = "recon" /\ z.op = "put" /\ z.want = cl[c].want
                                  /\ z.m = cl[c].m /\ z.ret = cl[c].ret /\ z.ctx = cl[c].ctx
      BY <1>2, <1>b, <1>c DEF ClientRecord, Reads
    <3> QED
      BY <3>1, <3>2
  <2>2. Stay
    BY <1>2, <1>b, <1>c DEF MetaFailed, Goto
  <2>3. CallTyped(y)
    BY <1>2, <1>b, <1>c, <2>1 DEF CallTyped, StepsOf, ContextsOf, Reads, Kinds, None
  <2>4. Sure => StillSo(y)
    BY <1>2, <1>b, <1>c, <2>1, <2>2 DEF StillSo
  <2>5. ~stray /\ FoundNone(y) => acked = None
    BY <1>b, <1>c, <2>1 DEF FoundNone
  <2> QED
    BY <1>b, <1>c, <2>1, <2>2, <2>3, <2>4, <2>5, PutReads DEF Sure
<1>3. CASE ~(cl[c].ctx = "bodyonly" \/ (cl[c].ctx = "recon" /\ kind = "object")) /\ kind # "object"
  <2>1. PICK y \in ClientRecord : /\ cl' = [cl EXCEPT ![c] = y]
                                  /\ y.pc = "dbody" /\ y.op = "put" /\ y.want = cl[c].want
                                  /\ y.m = cl[c].m /\ y.ret = cl[c].ret /\ y.ctx = cl[c].ctx
    <3> DEFINE z == [cl[c] EXCEPT !.pc = "dbody"]
    <3>1. cl' = [cl EXCEPT ![c] = z]
      BY <1>3, <1>b, <1>c DEF MetaFailed, Goto
    <3>2. /\ z \in ClientRecord /\ z.pc = "dbody" /\ z.op = "put" /\ z.want = cl[c].want
                                  /\ z.m = cl[c].m /\ z.ret = cl[c].ret /\ z.ctx = cl[c].ctx
      BY <1>3, <1>b, <1>c DEF ClientRecord, Reads
    <3> QED
      BY <3>1, <3>2
  <2>2. Stay
    BY <1>3, <1>b, <1>c DEF MetaFailed, Goto
  <2>3. CallTyped(y)
    BY <1>3, <1>b, <1>c, <2>1 DEF CallTyped, StepsOf, ContextsOf, Reads, Kinds, None
  <2>4. Sure => StillSo(y)
    BY <1>3, <1>b, <1>c, <2>1, <2>2 DEF StillSo
  <2>5. ~stray /\ FoundNone(y) => acked = None
    BY <1>b, <1>c, <2>1 DEF FoundNone
  <2> QED
    BY <1>b, <1>c, <2>1, <2>2, <2>3, <2>4, <2>5, PutReads DEF Sure
<1> QED
  BY <1>1, <1>2, <1>3

\* A body without a sidecar is completed if it is the right one; on fs the wrong one
\* may go.
LEMMA RecoverKeeps ==
    ASSUME StoreInv, NEW c \in Clients, NEW fails \in BOOLEAN, recover_body_only_partial_write(c, fails)
    PROVE  StoreInv'
<1>a. cl[c].pc \notin {"idle", "lock", "dbody", "dmeta"}
  BY DEF recover_body_only_partial_write
<1>b. /\ cl[c].op = "put" /\ cl[c] \in ClientRecord /\ CallTyped(cl[c])
      /\ cl[c].want \in Contents /\ cl[c].ret \in Reads /\ cl[c].pc \in StepsOf[kind]
      /\ kind \in Kinds
      /\ body \in Contents \cup {None, Part} /\ meta \in Contents \cup {None}
      /\ acked \in Contents \cup {None}
      /\ Sure => StillSo(cl[c])
      /\ ~stray /\ FoundNone(cl[c]) => acked = None
      /\ ~Alone => acked = None
      /\ acked # None /\ ~stray => body = acked /\ meta = acked
  BY <1>a, PutIs
<1>c. cl[c].pc = "recover" /\ kind \in {"fs", "object"} /\ UNCHANGED <<meta, late>> /\ kind' = kind /\ (kind = "fs" /\ ~stray => acked = None)
  BY <1>b DEF recover_body_only_partial_write, StepsOf, Kinds, Stay, Finish, FoundNone, Locked
<1>d. Changes(c) /\ PairAgrees'
  BY <1>b, <1>c DEF Changes, PairAgrees, StoreInv, BlobInv, TypeOK, LockExact, StrayExact, Remote, Locked, recover_body_only_partial_write
<1>1. CASE fails /\ kind = "object"
  <2>1. PICK y \in ClientRecord : /\ cl' = [cl EXCEPT ![c] = y]
                                  /\ y.pc = "recon" /\ y.op = "put" /\ y.want = cl[c].want
                                  /\ y.m = cl[c].m /\ y.ret = cl[c].ret /\ y.ctx = cl[c].ctx
    <3> DEFINE z == [cl[c] EXCEPT !.pc = "recon"]
    <3>1. cl' = [cl EXCEPT ![c] = z]
      BY <1>1, <1>b, <1>c DEF recover_body_only_partial_write, Goto
    <3>2. /\ z \in ClientRecord /\ z.pc = "recon" /\ z.op = "put" /\ z.want = cl[c].want
                                  /\ z.m = cl[c].m /\ z.ret = cl[c].ret /\ z.ctx = cl[c].ctx
      BY <1>1, <1>b, <1>c DEF ClientRecord, Reads
    <3> QED
      BY <3>1, <3>2
  <2>2. Stay
    BY <1>1, <1>b, <1>c DEF recover_body_only_partial_write, Goto
  <2>3. CallTyped(y)
    BY <1>1, <1>b, <1>c, <2>1 DEF CallTyped, StepsOf, ContextsOf, Reads, Kinds, None
  <2>4. Sure => StillSo(y)'
    BY <1>1, <1>b, <1>c, <2>1, <2>2 DEF StillSo, Stay
  <2>5. ~stray /\ FoundNone(y) => acked = None
    BY <1>b, <1>c, <2>1 DEF FoundNone
  <2> QED
    BY <1>b, <1>c, <2>1, <2>2, <2>3, <2>4, <2>5, <1>d, PutGoesOn DEF Sure
<1>2. CASE ~(fails /\ kind = "object") /\ (fails \/ body = None \/ body # cl[c].want)
  <2>1. Finish(c, "err")
    BY <1>2, <1>b, <1>c DEF recover_body_only_partial_write
  <2> QED
    BY <1>b, <1>c, <2>1, <1>d, PutEnds
<1>3. CASE ~fails /\ body = cl[c].want
  <2>1. PICK y \in ClientRecord : /\ cl' = [cl EXCEPT ![c] = y]
                                  /\ y.pc = "meta" /\ y.op = "put" /\ y.want = cl[c].want
                                  /\ y.m = cl[c].m /\ y.ret = cl[c].ret /\ y.ctx = "recover"
    <3> DEFINE z == [cl[c] EXCEPT !.pc = "meta", !.ctx = "recover"]
    <3>1. cl' = [cl EXCEPT ![c] = z]
      BY <1>3, <1>b, <1>c, StoreNames DEF recover_body_only_partial_write, MetaFor
    <3>2. /\ z \in ClientRecord /\ z.pc = "meta" /\ z.op = "put" /\ z.want = cl[c].want
                                  /\ z.m = cl[c].m /\ z.ret = cl[c].ret /\ z.ctx = "recover"
      BY <1>3, <1>b, <1>c DEF ClientRecord, Reads
    <3> QED
      BY <3>1, <3>2
  <2>2. Stay
    BY <1>3, <1>b, <1>c, StoreNames DEF recover_body_only_partial_write, MetaFor
  <2>3. CallTyped(y)
    BY <1>3, <1>b, <1>c, <2>1 DEF CallTyped, StepsOf, ContextsOf, Reads, Kinds, None
  <2>4. Sure => StillSo(y)'
    BY <1>3, <1>b, <1>c, <2>1, <2>2, StoreNames DEF StillSo, Stay, recover_body_only_partial_write
  <2>5. ~stray /\ FoundNone(y) => acked = None
    BY <1>b, <1>c, <2>1 DEF FoundNone
  <2> QED
    BY <1>b, <1>c, <2>1, <2>2, <2>3, <2>4, <2>5, <1>d, PutGoesOn DEF Sure
<1> QED
  BY <1>1, <1>2, <1>3

\* A body that is there is read with its sidecar.
LEMMA ReconcileKeeps ==
    ASSUME StoreInv, NEW c \in Clients, NEW fails \in BOOLEAN, reconcile_external_write(c, fails)
    PROVE  StoreInv'
<1>a. cl[c].pc \notin {"idle", "lock", "dbody", "dmeta"}
  BY DEF reconcile_external_write
<1>b. /\ cl[c].op = "put" /\ cl[c] \in ClientRecord /\ CallTyped(cl[c])
      /\ cl[c].want \in Contents /\ cl[c].ret \in Reads /\ cl[c].pc \in StepsOf[kind]
      /\ kind \in Kinds
      /\ body \in Contents \cup {None, Part} /\ meta \in Contents \cup {None}
      /\ acked \in Contents \cup {None}
      /\ Sure => StillSo(cl[c])
      /\ ~stray /\ FoundNone(cl[c]) => acked = None
      /\ ~Alone => acked = None
      /\ acked # None /\ ~stray => body = acked /\ meta = acked
  BY <1>a, PutIs
<1>c. cl[c].pc = "recon" /\ kind \in {"fs", "object"} /\ UNCHANGED store
  BY <1>b DEF reconcile_external_write, StepsOf, Kinds
<1>1. CASE fails \/ body = None
  <2>1. Finish(c, "err")
    BY <1>1, <1>b, <1>c DEF reconcile_external_write
  <2> QED
    BY <1>b, <1>c, <2>1, PutEndsHere
<1>2. CASE ~(fails \/ body = None)
  <2>1. PICK y \in ClientRecord : /\ cl' = [cl EXCEPT ![c] = y]
                                  /\ y.pc = "rmeta" /\ y.op = "put" /\ y.want = cl[c].want
                                  /\ y.m = cl[c].m /\ y.ret = "recon1" /\ y.ctx = cl[c].ctx
    <3> DEFINE z == [cl[c] EXCEPT !.pc = "rmeta", !.ret = "recon1"]
    <3>1. cl' = [cl EXCEPT ![c] = z]
      BY <1>2, <1>b, <1>c DEF reconcile_external_write, ReadFor
    <3>2. /\ z \in ClientRecord /\ z.pc = "rmeta" /\ z.op = "put" /\ z.want = cl[c].want
                                  /\ z.m = cl[c].m /\ z.ret = "recon1" /\ z.ctx = cl[c].ctx
      BY <1>2, <1>b, <1>c DEF ClientRecord, Reads
    <3> QED
      BY <3>1, <3>2
  <2>2. Stay
    BY <1>2, <1>b, <1>c DEF reconcile_external_write, ReadFor
  <2>3. CallTyped(y)
    BY <1>2, <1>b, <1>c, <2>1 DEF CallTyped, StepsOf, ContextsOf, Reads, Kinds, None
  <2>4. Sure => StillSo(y)
    BY <1>2, <1>b, <1>c, <2>1, <2>2 DEF StillSo
  <2>5. ~stray /\ FoundNone(y) => acked = None
    BY <1>b, <1>c, <2>1 DEF FoundNone
  <2> QED
    BY <1>b, <1>c, <2>1, <2>2, <2>3, <2>4, <2>5, PutReads DEF Sure
<1> QED
  BY <1>1, <1>2

-----------------------------------------------------------------------------
(* The writers under a lock that deletes take too. *)

\* A lock holder looks at the sidecar.
LEMMA LockedMetaKeeps ==
    ASSUME StoreInv, NEW c \in Clients, LockedMeta(c)
    PROVE  StoreInv'
<1>a. cl[c].pc \notin {"idle", "lock", "dbody", "dmeta"}
  BY DEF LockedMeta
<1>b. /\ cl[c].op = "put" /\ cl[c] \in ClientRecord /\ CallTyped(cl[c])
      /\ cl[c].want \in Contents /\ cl[c].ret \in Reads /\ cl[c].pc \in StepsOf[kind]
      /\ kind \in Kinds
      /\ body \in Contents \cup {None, Part} /\ meta \in Contents \cup {None}
      /\ acked \in Contents \cup {None}
      /\ Sure => StillSo(cl[c])
      /\ ~stray /\ FoundNone(cl[c]) => acked = None
      /\ ~Alone => acked = None
      /\ acked # None /\ ~stray => body = acked /\ meta = acked
  BY <1>a, PutIs
<1>c. cl[c].pc = "lmeta" /\ kind = "webdav" /\ Alone /\ UNCHANGED store
  BY <1>b DEF LockedMeta, StepsOf, Kinds, Alone, Sure, Stay, Finish
<1>1. CASE meta = None
  <2>1. PICK y \in ClientRecord : /\ cl' = [cl EXCEPT ![c] = y]
                                  /\ y.pc = "lbody" /\ y.op = "put" /\ y.want = cl[c].want
                                  /\ y.m = meta /\ y.ret = cl[c].ret /\ y.ctx = cl[c].ctx
    <3> DEFINE z == [cl[c] EXCEPT !.m = meta, !.pc = "lbody"]
    <3>1. cl' = [cl EXCEPT ![c] = z]
      BY <1>1, <1>b, <1>c DEF LockedMeta
    <3>2. /\ z \in ClientRecord /\ z.pc = "lbody" /\ z.op = "put" /\ z.want = cl[c].want
                                  /\ z.m = meta /\ z.ret = cl[c].ret /\ z.ctx = cl[c].ctx
      BY <1>1, <1>b, <1>c DEF ClientRecord, Reads
    <3> QED
      BY <3>1, <3>2
  <2>2. Stay
    BY <1>1, <1>b, <1>c DEF LockedMeta
  <2>3. CallTyped(y)
    BY <1>1, <1>b, <1>c, <2>1 DEF CallTyped, StepsOf, ContextsOf, Reads, Kinds, None
  <2>4. Sure => StillSo(y)
    BY <1>1, <1>b, <1>c, <2>1, <2>2, StoreNames DEF StillSo
  <2>5. ~stray /\ FoundNone(y) => acked = None
    BY <1>b, <1>c, <2>1 DEF FoundNone
  <2> QED
    BY <1>b, <1>c, <2>1, <2>2, <2>3, <2>4, <2>5, PutReads DEF Sure
<1>2. CASE meta # None /\ meta = cl[c].want
  <2>1. PICK y \in ClientRecord : /\ cl' = [cl EXCEPT ![c] = y]
                                  /\ y.pc = "lwrite" /\ y.op = "put" /\ y.want = cl[c].want
                                  /\ y.m = meta /\ y.ret = cl[c].ret /\ y.ctx = cl[c].ctx
    <3> DEFINE z == [cl[c] EXCEPT !.m = meta, !.pc = "lwrite"]
    <3>1. cl' = [cl EXCEPT ![c] = z]
      BY <1>2, <1>b, <1>c DEF LockedMeta
    <3>2. /\ z \in ClientRecord /\ z.pc = "lwrite" /\ z.op = "put" /\ z.want = cl[c].want
                                  /\ z.m = meta /\ z.ret = cl[c].ret /\ z.ctx = cl[c].ctx
      BY <1>2, <1>b, <1>c DEF ClientRecord, Reads
    <3> QED
      BY <3>1, <3>2
  <2>2. Stay
    BY <1>2, <1>b, <1>c DEF LockedMeta
  <2>3. CallTyped(y)
    BY <1>2, <1>b, <1>c, <2>1 DEF CallTyped, StepsOf, ContextsOf, Reads, Kinds, None
  <2>4. Sure => StillSo(y)
    BY <1>2, <1>b, <1>c, <2>1, <2>2 DEF StillSo
  <2>5. ~stray /\ FoundNone(y) => acked = None
    BY <1>b, <1>c, <2>1 DEF FoundNone
  <2> QED
    BY <1>b, <1>c, <2>1, <2>2, <2>3, <2>4, <2>5, PutReads DEF Sure
<1>3. CASE meta \notin {None, cl[c].want}
  <2>1. Finish(c, "err")
    BY <1>3, <1>b, <1>c DEF LockedMeta
  <2> QED
    BY <1>b, <1>c, <2>1, PutEndsHere
<1> QED
  BY <1>1, <1>2, <1>3

\* A lock holder without a sidecar looks at the body.
LEMMA LockedBodyKeeps ==
    ASSUME StoreInv, NEW c \in Clients, LockedBody(c)
    PROVE  StoreInv'
<1>a. cl[c].pc \notin {"idle", "lock", "dbody", "dmeta"}
  BY DEF LockedBody
<1>b. /\ cl[c].op = "put" /\ cl[c] \in ClientRecord /\ CallTyped(cl[c])
      /\ cl[c].want \in Contents /\ cl[c].ret \in Reads /\ cl[c].pc \in StepsOf[kind]
      /\ kind \in Kinds
      /\ body \in Contents \cup {None, Part} /\ meta \in Contents \cup {None}
      /\ acked \in Contents \cup {None}
      /\ Sure => StillSo(cl[c])
      /\ ~stray /\ FoundNone(cl[c]) => acked = None
      /\ ~Alone => acked = None
      /\ acked # None /\ ~stray => body = acked /\ meta = acked
  BY <1>a, PutIs
<1>c. cl[c].pc = "lbody" /\ kind = "webdav" /\ Alone /\ UNCHANGED store
  BY <1>b DEF LockedBody, StepsOf, Kinds, Alone, Sure, Stay, Finish
<1>e. ~stray => meta = None /\ cl[c].m = None
  BY <1>b, <1>c DEF StillSo, FoundNone, Locked, Sure
<1>1. CASE body = None
  <2>1. PICK y \in ClientRecord : /\ cl' = [cl EXCEPT ![c] = y]
                                  /\ y.pc = "lwrite" /\ y.op = "put" /\ y.want = cl[c].want
                                  /\ y.m = cl[c].m /\ y.ret = cl[c].ret /\ y.ctx = cl[c].ctx
    <3> DEFINE z == [cl[c] EXCEPT !.pc = "lwrite"]
    <3>1. cl' = [cl EXCEPT ![c] = z]
      BY <1>1, <1>b, <1>c DEF LockedBody, Goto
    <3>2. /\ z \in ClientRecord /\ z.pc = "lwrite" /\ z.op = "put" /\ z.want = cl[c].want
                                  /\ z.m = cl[c].m /\ z.ret = cl[c].ret /\ z.ctx = cl[c].ctx
      BY <1>1, <1>b, <1>c DEF ClientRecord, Reads
    <3> QED
      BY <3>1, <3>2
  <2>2. Stay
    BY <1>1, <1>b, <1>c DEF LockedBody, Goto
  <2>3. CallTyped(y)
    BY <1>1, <1>b, <1>c, <2>1 DEF CallTyped, StepsOf, ContextsOf, Reads, Kinds, None
  <2>4. Sure => StillSo(y)
    BY <1>1, <1>b, <1>c, <2>1, <2>2, <1>e DEF StillSo
  <2>5. ~stray /\ FoundNone(y) => acked = None
    BY <1>b, <1>c, <2>1 DEF FoundNone
  <2> QED
    BY <1>b, <1>c, <2>1, <2>2, <2>3, <2>4, <2>5, PutReads DEF Sure
<1>2. CASE body # None /\ body = cl[c].want
  <2>1. PICK y \in ClientRecord : /\ cl' = [cl EXCEPT ![c] = y]
                                  /\ y.pc = "meta" /\ y.op = "put" /\ y.want = cl[c].want
                                  /\ y.m = cl[c].m /\ y.ret = cl[c].ret /\ y.ctx = "bodyonly"
    <3> DEFINE z == [cl[c] EXCEPT !.pc = "meta", !.ctx = "bodyonly"]
    <3>1. cl' = [cl EXCEPT ![c] = z]
      BY <1>2, <1>b, <1>c DEF LockedBody, MetaFor
    <3>2. /\ z \in ClientRecord /\ z.pc = "meta" /\ z.op = "put" /\ z.want = cl[c].want
                                  /\ z.m = cl[c].m /\ z.ret = cl[c].ret /\ z.ctx = "bodyonly"
      BY <1>2, <1>b, <1>c DEF ClientRecord, Reads
    <3> QED
      BY <3>1, <3>2
  <2>2. Stay
    BY <1>2, <1>b, <1>c DEF LockedBody, MetaFor
  <2>3. CallTyped(y)
    BY <1>2, <1>b, <1>c, <2>1 DEF CallTyped, StepsOf, ContextsOf, Reads, Kinds, None
  <2>4. Sure => StillSo(y)
    BY <1>2, <1>b, <1>c, <2>1, <2>2 DEF StillSo
  <2>5. ~stray /\ FoundNone(y) => acked = None
    BY <1>b, <1>c, <2>1 DEF FoundNone
  <2> QED
    BY <1>b, <1>c, <2>1, <2>2, <2>3, <2>4, <2>5, PutReads DEF Sure
<1>3. CASE body # None /\ body # cl[c].want
  <2>1. Finish(c, "err")
    BY <1>3, <1>b, <1>c DEF LockedBody
  <2> QED
    BY <1>b, <1>c, <2>1, PutEndsHere
<1> QED
  BY <1>1, <1>2, <1>3

\* A lock holder writes the body; with a sidecar that completes the blob.
LEMMA LockedWriteKeeps ==
    ASSUME StoreInv, NEW c \in Clients, NEW o \in Outcomes, LockedWrite(c, o)
    PROVE  StoreInv'
<1>a. cl[c].pc \notin {"idle", "lock", "dbody", "dmeta"}
  BY DEF LockedWrite
<1>b. /\ cl[c].op = "put" /\ cl[c] \in ClientRecord /\ CallTyped(cl[c])
      /\ cl[c].want \in Contents /\ cl[c].ret \in Reads /\ cl[c].pc \in StepsOf[kind]
      /\ kind \in Kinds
      /\ body \in Contents \cup {None, Part} /\ meta \in Contents \cup {None}
      /\ acked \in Contents \cup {None}
      /\ Sure => StillSo(cl[c])
      /\ ~stray /\ FoundNone(cl[c]) => acked = None
      /\ ~Alone => acked = None
      /\ acked # None /\ ~stray => body = acked /\ meta = acked
  BY <1>a, PutIs
<1>c. cl[c].pc = "lwrite" /\ kind = "webdav" /\ Alone /\ kind' = kind /\ stray' = stray /\ UNCHANGED <<meta, late>> /\ body' = Write(body, cl[c].want, o)
  BY <1>b DEF LockedWrite, StepsOf, Kinds, Alone, Stay, Finish, StoreInv, BlobInv, TypeOK
<1>e. (~stray => acked = None /\ cl[c].m = meta /\ meta \in {None, cl[c].want}) /\ body' \in {body, cl[c].want} /\ (o = "ok" => body' = cl[c].want)
  BY <1>b, <1>c DEF StillSo, FoundNone, Locked, Sure, Write, Exists, Conditional
<1>d. Changes(c) /\ PairAgrees'
  BY <1>b, <1>c, <1>e, StoreNames DEF Changes, PairAgrees, StoreInv, BlobInv, TypeOK, LockExact, StrayExact, Remote, Locked, Kinds, None, Part
<1>1. CASE o # "ok"
  <2>1. Finish(c, "err")
    BY <1>1, <1>b, <1>c DEF LockedWrite
  <2> QED
    BY <1>b, <1>c, <2>1, <1>d, PutEnds
<1>2. CASE o = "ok" /\ cl[c].m = None
  <2>1. PICK y \in ClientRecord : /\ cl' = [cl EXCEPT ![c] = y]
                                  /\ y.pc = "meta" /\ y.op = "put" /\ y.want = cl[c].want
                                  /\ y.m = cl[c].m /\ y.ret = cl[c].ret /\ y.ctx = "main"
    <3> DEFINE z == [cl[c] EXCEPT !.pc = "meta", !.ctx = "main"]
    <3>1. cl' = [cl EXCEPT ![c] = z]
      BY <1>2, <1>b, <1>c DEF LockedWrite, MetaFor
    <3>2. /\ z \in ClientRecord /\ z.pc = "meta" /\ z.op = "put" /\ z.want = cl[c].want
                                  /\ z.m = cl[c].m /\ z.ret = cl[c].ret /\ z.ctx = "main"
      BY <1>2, <1>b, <1>c DEF ClientRecord, Reads
    <3> QED
      BY <3>1, <3>2
  <2>2. Stay
    BY <1>2, <1>b, <1>c DEF LockedWrite, MetaFor
  <2>3. CallTyped(y)
    BY <1>2, <1>b, <1>c, <2>1 DEF CallTyped, StepsOf, ContextsOf, Reads, Kinds, None
  <2>4. Sure => StillSo(y)'
    BY <1>2, <1>b, <1>c, <2>1, <2>2, <1>e DEF StillSo, Stay
  <2>5. ~stray /\ FoundNone(y) => acked = None
    BY <1>b, <1>c, <2>1 DEF FoundNone
  <2> QED
    BY <1>b, <1>c, <2>1, <2>2, <2>3, <2>4, <2>5, <1>d, PutGoesOn DEF Sure
<1>3. CASE o = "ok" /\ cl[c].m # None
  <2>1. Finish(c, "ok")
    BY <1>3, <1>b, <1>c DEF LockedWrite
  <2>2. phase # "going" /\ ~stray => body' = cl[c].want /\ meta' = cl[c].want
    BY <1>3, <1>c, <1>e
  <2> QED
    BY <1>b, <1>c, <2>1, <2>2, <1>d, PutEnds
<1> QED
  BY <1>1, <1>2, <1>3

\* An FTP writer looks at the sidecar.
LEMMA FtpMetaKeeps ==
    ASSUME StoreInv, NEW c \in Clients, FtpMeta(c)
    PROVE  StoreInv'
<1>a. cl[c].pc \notin {"idle", "lock", "dbody", "dmeta"}
  BY DEF FtpMeta
<1>b. /\ cl[c].op = "put" /\ cl[c] \in ClientRecord /\ CallTyped(cl[c])
      /\ cl[c].want \in Contents /\ cl[c].ret \in Reads /\ cl[c].pc \in StepsOf[kind]
      /\ kind \in Kinds
      /\ body \in Contents \cup {None, Part} /\ meta \in Contents \cup {None}
      /\ acked \in Contents \cup {None}
      /\ Sure => StillSo(cl[c])
      /\ ~stray /\ FoundNone(cl[c]) => acked = None
      /\ ~Alone => acked = None
      /\ acked # None /\ ~stray => body = acked /\ meta = acked
  BY <1>a, PutIs
<1>c. cl[c].pc = "fmeta" /\ kind = "ftp" /\ Alone /\ UNCHANGED store
  BY <1>b DEF FtpMeta, StepsOf, Kinds, Alone, Sure, Stay, Finish
<1>1. CASE meta \in {None, cl[c].want}
  <2>1. PICK y \in ClientRecord : /\ cl' = [cl EXCEPT ![c] = y]
                                  /\ y.pc = "fbody" /\ y.op = "put" /\ y.want = cl[c].want
                                  /\ y.m = meta /\ y.ret = cl[c].ret /\ y.ctx = cl[c].ctx
    <3> DEFINE z == [cl[c] EXCEPT !.m = meta, !.pc = "fbody"]
    <3>1. cl' = [cl EXCEPT ![c] = z]
      BY <1>1, <1>b, <1>c DEF FtpMeta
    <3>2. /\ z \in ClientRecord /\ z.pc = "fbody" /\ z.op = "put" /\ z.want = cl[c].want
                                  /\ z.m = meta /\ z.ret = cl[c].ret /\ z.ctx = cl[c].ctx
      BY <1>1, <1>b, <1>c DEF ClientRecord, Reads
    <3> QED
      BY <3>1, <3>2
  <2>2. Stay
    BY <1>1, <1>b, <1>c DEF FtpMeta
  <2>3. CallTyped(y)
    BY <1>1, <1>b, <1>c, <2>1 DEF CallTyped, StepsOf, ContextsOf, Reads, Kinds, None
  <2>4. Sure => StillSo(y)
    BY <1>1, <1>b, <1>c, <2>1, <2>2 DEF StillSo
  <2>5. ~stray /\ FoundNone(y) => acked = None
    BY <1>b, <1>c, <2>1 DEF FoundNone
  <2> QED
    BY <1>b, <1>c, <2>1, <2>2, <2>3, <2>4, <2>5, PutReads DEF Sure
<1>2. CASE meta \notin {None, cl[c].want}
  <2>1. Finish(c, "err")
    BY <1>2, <1>b, <1>c DEF FtpMeta
  <2> QED
    BY <1>b, <1>c, <2>1, PutEndsHere
<1> QED
  BY <1>1, <1>2

\* An FTP writer looks at the body: only without a readable blob does it go on.
LEMMA FtpBodyKeeps ==
    ASSUME StoreInv, NEW c \in Clients, FtpBody(c)
    PROVE  StoreInv'
<1>a. cl[c].pc \notin {"idle", "lock", "dbody", "dmeta"}
  BY DEF FtpBody
<1>b. /\ cl[c].op = "put" /\ cl[c] \in ClientRecord /\ CallTyped(cl[c])
      /\ cl[c].want \in Contents /\ cl[c].ret \in Reads /\ cl[c].pc \in StepsOf[kind]
      /\ kind \in Kinds
      /\ body \in Contents \cup {None, Part} /\ meta \in Contents \cup {None}
      /\ acked \in Contents \cup {None}
      /\ Sure => StillSo(cl[c])
      /\ ~stray /\ FoundNone(cl[c]) => acked = None
      /\ ~Alone => acked = None
      /\ acked # None /\ ~stray => body = acked /\ meta = acked
  BY <1>a, PutIs
<1>c. cl[c].pc = "fbody" /\ kind = "ftp" /\ Alone /\ UNCHANGED store
  BY <1>b DEF FtpBody, StepsOf, Kinds, Alone, Sure, Stay, Finish
<1>e. ~stray => cl[c].m = meta /\ meta \in {None, cl[c].want}
  BY <1>b, <1>c DEF StillSo, FoundNone, Locked, Sure
<1>1. CASE body = None /\ cl[c].m = None
  <2>1. PICK y \in ClientRecord : /\ cl' = [cl EXCEPT ![c] = y]
                                  /\ y.pc = "fwmeta" /\ y.op = "put" /\ y.want = cl[c].want
                                  /\ y.m = cl[c].m /\ y.ret = cl[c].ret /\ y.ctx = cl[c].ctx
    <3> DEFINE z == [cl[c] EXCEPT !.pc = "fwmeta"]
    <3>1. cl' = [cl EXCEPT ![c] = z]
      BY <1>1, <1>b, <1>c DEF FtpBody, Goto
    <3>2. /\ z \in ClientRecord /\ z.pc = "fwmeta" /\ z.op = "put" /\ z.want = cl[c].want
                                  /\ z.m = cl[c].m /\ z.ret = cl[c].ret /\ z.ctx = cl[c].ctx
      BY <1>1, <1>b, <1>c DEF ClientRecord, Reads
    <3> QED
      BY <3>1, <3>2
  <2>2. Stay
    BY <1>1, <1>b, <1>c DEF FtpBody, Goto
  <2>3. CallTyped(y)
    BY <1>1, <1>b, <1>c, <2>1 DEF CallTyped, StepsOf, ContextsOf, Reads, Kinds, None
  <2>4. Sure => StillSo(y)
    BY <1>1, <1>b, <1>c, <2>1, <2>2, <1>e DEF StillSo
  <2>5. ~stray /\ FoundNone(y) => acked = None
    BY <1>1, <1>b, <1>c, <1>e, StoreNames DEF None, Part
  <2> QED
    BY <1>b, <1>c, <2>1, <2>2, <2>3, <2>4, <2>5, PutReads DEF Sure
<1>2. CASE body = None /\ cl[c].m # None
  <2>1. PICK y \in ClientRecord : /\ cl' = [cl EXCEPT ![c] = y]
                                  /\ y.pc = "fwrite" /\ y.op = "put" /\ y.want = cl[c].want
                                  /\ y.m = cl[c].m /\ y.ret = cl[c].ret /\ y.ctx = cl[c].ctx
    <3> DEFINE z == [cl[c] EXCEPT !.pc = "fwrite"]
    <3>1. cl' = [cl EXCEPT ![c] = z]
      BY <1>2, <1>b, <1>c DEF FtpBody, Goto
    <3>2. /\ z \in ClientRecord /\ z.pc = "fwrite" /\ z.op = "put" /\ z.want = cl[c].want
                                  /\ z.m = cl[c].m /\ z.ret = cl[c].ret /\ z.ctx = cl[c].ctx
      BY <1>2, <1>b, <1>c DEF ClientRecord, Reads
    <3> QED
      BY <3>1, <3>2
  <2>2. Stay
    BY <1>2, <1>b, <1>c DEF FtpBody, Goto
  <2>3. CallTyped(y)
    BY <1>2, <1>b, <1>c, <2>1 DEF CallTyped, StepsOf, ContextsOf, Reads, Kinds, None
  <2>4. Sure => StillSo(y)
    BY <1>2, <1>b, <1>c, <2>1, <2>2, <1>e DEF StillSo
  <2>5. ~stray /\ FoundNone(y) => acked = None
    BY <1>2, <1>b, <1>c, <1>e, StoreNames DEF None, Part
  <2> QED
    BY <1>b, <1>c, <2>1, <2>2, <2>3, <2>4, <2>5, PutReads DEF Sure
<1>3. CASE body # None /\ body = cl[c].want /\ cl[c].m = None
  <2>1. PICK y \in ClientRecord : /\ cl' = [cl EXCEPT ![c] = y]
                                  /\ y.pc = "meta" /\ y.op = "put" /\ y.want = cl[c].want
                                  /\ y.m = cl[c].m /\ y.ret = cl[c].ret /\ y.ctx = "bodyonly"
    <3> DEFINE z == [cl[c] EXCEPT !.pc = "meta", !.ctx = "bodyonly"]
    <3>1. cl' = [cl EXCEPT ![c] = z]
      BY <1>3, <1>b, <1>c DEF FtpBody, MetaFor
    <3>2. /\ z \in ClientRecord /\ z.pc = "meta" /\ z.op = "put" /\ z.want = cl[c].want
                                  /\ z.m = cl[c].m /\ z.ret = cl[c].ret /\ z.ctx = "bodyonly"
      BY <1>3, <1>b, <1>c DEF ClientRecord, Reads
    <3> QED
      BY <3>1, <3>2
  <2>2. Stay
    BY <1>3, <1>b, <1>c DEF FtpBody, MetaFor
  <2>3. CallTyped(y)
    BY <1>3, <1>b, <1>c, <2>1 DEF CallTyped, StepsOf, ContextsOf, Reads, Kinds, None
  <2>4. Sure => StillSo(y)
    BY <1>3, <1>b, <1>c, <2>1, <2>2, <1>e DEF StillSo
  <2>5. ~stray /\ FoundNone(y) => acked = None
    BY <1>3, <1>b, <1>c, <1>e, StoreNames DEF None, Part
  <2> QED
    BY <1>b, <1>c, <2>1, <2>2, <2>3, <2>4, <2>5, PutReads DEF Sure
<1>4. CASE body # None /\ body = cl[c].want /\ cl[c].m # None
  <2>1. Finish(c, "ok")
    BY <1>4, <1>b, <1>c DEF FtpBody
  <2>2. phase # "going" /\ ~stray => body = cl[c].want /\ meta = cl[c].want
    BY <1>4, <1>c, <1>e
  <2> QED
    BY <1>b, <1>c, <2>1, <2>2, PutEndsHere
<1>5. CASE body # None /\ body # cl[c].want /\ body = Part /\ cl[c].m # None
  <2>1. PICK y \in ClientRecord : /\ cl' = [cl EXCEPT ![c] = y]
                                  /\ y.pc = "fdelete" /\ y.op = "put" /\ y.want = cl[c].want
                                  /\ y.m = cl[c].m /\ y.ret = cl[c].ret /\ y.ctx = cl[c].ctx
    <3> DEFINE z == [cl[c] EXCEPT !.pc = "fdelete"]
    <3>1. cl' = [cl EXCEPT ![c] = z]
      BY <1>5, <1>b, <1>c DEF FtpBody, Goto
    <3>2. /\ z \in ClientRecord /\ z.pc = "fdelete" /\ z.op = "put" /\ z.want = cl[c].want
                                  /\ z.m = cl[c].m /\ z.ret = cl[c].ret /\ z.ctx = cl[c].ctx
      BY <1>5, <1>b, <1>c DEF ClientRecord, Reads
    <3> QED
      BY <3>1, <3>2
  <2>2. Stay
    BY <1>5, <1>b, <1>c DEF FtpBody, Goto
  <2>3. CallTyped(y)
    BY <1>5, <1>b, <1>c, <2>1 DEF CallTyped, StepsOf, ContextsOf, Reads, Kinds, None
  <2>4. Sure => StillSo(y)
    BY <1>5, <1>b, <1>c, <2>1, <2>2, <1>e DEF StillSo
  <2>5. ~stray /\ FoundNone(y) => acked = None
    BY <1>5, <1>b, <1>c, <1>e, StoreNames DEF None, Part
  <2> QED
    BY <1>b, <1>c, <2>1, <2>2, <2>3, <2>4, <2>5, PutReads DEF Sure
<1>6. CASE body # None /\ body # cl[c].want /\ ~(body = Part /\ cl[c].m # None)
  <2>1. Finish(c, "err")
    BY <1>6, <1>b, <1>c DEF FtpBody
  <2> QED
    BY <1>b, <1>c, <2>1, PutEndsHere
<1> QED
  BY <1>1, <1>2, <1>3, <1>4, <1>5, <1>6

\* An interrupted body goes.
LEMMA FtpDeleteKeeps ==
    ASSUME StoreInv, NEW c \in Clients, NEW o \in Outcomes, FtpDelete(c, o)
    PROVE  StoreInv'
<1>a. cl[c].pc \notin {"idle", "lock", "dbody", "dmeta"}
  BY DEF FtpDelete
<1>b. /\ cl[c].op = "put" /\ cl[c] \in ClientRecord /\ CallTyped(cl[c])
      /\ cl[c].want \in Contents /\ cl[c].ret \in Reads /\ cl[c].pc \in StepsOf[kind]
      /\ kind \in Kinds
      /\ body \in Contents \cup {None, Part} /\ meta \in Contents \cup {None}
      /\ acked \in Contents \cup {None}
      /\ Sure => StillSo(cl[c])
      /\ ~stray /\ FoundNone(cl[c]) => acked = None
      /\ ~Alone => acked = None
      /\ acked # None /\ ~stray => body = acked /\ meta = acked
  BY <1>a, PutIs
<1>c. cl[c].pc = "fdelete" /\ kind = "ftp" /\ Alone /\ kind' = kind /\ stray' = stray /\ UNCHANGED <<meta, late>> /\ body' \in {body, None}
  BY <1>b DEF FtpDelete, StepsOf, Kinds, Alone, Stay, Finish, StoreInv, BlobInv, TypeOK
<1>e. ~stray => acked = None /\ meta = cl[c].want
  BY <1>b, <1>c DEF StillSo, FoundNone, Locked, Sure
<1>d. Changes(c) /\ PairAgrees'
  BY <1>b, <1>c, <1>e, StoreNames DEF Changes, PairAgrees, StoreInv, BlobInv, TypeOK, LockExact, StrayExact, Remote, Locked, Kinds, None, Part
<1>1. CASE o = "ok"
  <2>1. PICK y \in ClientRecord : /\ cl' = [cl EXCEPT ![c] = y]
                                  /\ y.pc = "fwrite" /\ y.op = "put" /\ y.want = cl[c].want
                                  /\ y.m = cl[c].m /\ y.ret = cl[c].ret /\ y.ctx = cl[c].ctx
    <3> DEFINE z == [cl[c] EXCEPT !.pc = "fwrite"]
    <3>1. cl' = [cl EXCEPT ![c] = z]
      BY <1>1, <1>b, <1>c DEF FtpDelete, Goto
    <3>2. /\ z \in ClientRecord /\ z.pc = "fwrite" /\ z.op = "put" /\ z.want = cl[c].want
                                  /\ z.m = cl[c].m /\ z.ret = cl[c].ret /\ z.ctx = cl[c].ctx
      BY <1>1, <1>b, <1>c DEF ClientRecord, Reads
    <3> QED
      BY <3>1, <3>2
  <2>2. Stay
    BY <1>1, <1>b, <1>c DEF FtpDelete, Goto
  <2>3. CallTyped(y)
    BY <1>1, <1>b, <1>c, <2>1 DEF CallTyped, StepsOf, ContextsOf, Reads, Kinds, None
  <2>4. Sure => StillSo(y)'
    BY <1>1, <1>b, <1>c, <2>1, <2>2, <1>e DEF StillSo, Stay
  <2>5. ~stray /\ FoundNone(y) => acked = None
    BY <1>b, <1>c, <2>1 DEF FoundNone
  <2> QED
    BY <1>b, <1>c, <2>1, <2>2, <2>3, <2>4, <2>5, <1>d, PutGoesOn DEF Sure
<1>2. CASE o # "ok"
  <2>1. Finish(c, "err")
    BY <1>2, <1>b, <1>c DEF FtpDelete
  <2> QED
    BY <1>b, <1>c, <2>1, <1>d, PutEnds
<1> QED
  BY <1>1, <1>2

\* The sidecar of a new blob.
LEMMA FtpWriteMetaKeeps ==
    ASSUME StoreInv, NEW c \in Clients, NEW o \in Outcomes, FtpWriteMeta(c, o)
    PROVE  StoreInv'
<1>a. cl[c].pc \notin {"idle", "lock", "dbody", "dmeta"}
  BY DEF FtpWriteMeta
<1>b. /\ cl[c].op = "put" /\ cl[c] \in ClientRecord /\ CallTyped(cl[c])
      /\ cl[c].want \in Contents /\ cl[c].ret \in Reads /\ cl[c].pc \in StepsOf[kind]
      /\ kind \in Kinds
      /\ body \in Contents \cup {None, Part} /\ meta \in Contents \cup {None}
      /\ acked \in Contents \cup {None}
      /\ Sure => StillSo(cl[c])
      /\ ~stray /\ FoundNone(cl[c]) => acked = None
      /\ ~Alone => acked = None
      /\ acked # None /\ ~stray => body = acked /\ meta = acked
  BY <1>a, PutIs
<1>c. cl[c].pc = "fwmeta" /\ kind = "ftp" /\ Alone /\ kind' = kind /\ stray' = stray /\ UNCHANGED <<body, late>> /\ meta' = Write(meta, cl[c].want, o)
  BY <1>b DEF FtpWriteMeta, StepsOf, Kinds, Alone, Stay, Finish, StoreInv, BlobInv, TypeOK
<1>e. (~stray => acked = None /\ body = None) /\ meta' \in {meta, cl[c].want} /\ (o = "ok" => meta' = cl[c].want)
  BY <1>b, <1>c DEF StillSo, FoundNone, Locked, Sure, Write, Exists, Conditional
<1>d. Changes(c) /\ PairAgrees'
  BY <1>b, <1>c, <1>e, StoreNames DEF Changes, PairAgrees, StoreInv, BlobInv, TypeOK, LockExact, StrayExact, Remote, Locked, Kinds, None, Part
<1>1. CASE o = "ok"
  <2>1. PICK y \in ClientRecord : /\ cl' = [cl EXCEPT ![c] = y]
                                  /\ y.pc = "fwrite" /\ y.op = "put" /\ y.want = cl[c].want
                                  /\ y.m = cl[c].m /\ y.ret = cl[c].ret /\ y.ctx = cl[c].ctx
    <3> DEFINE z == [cl[c] EXCEPT !.pc = "fwrite"]
    <3>1. cl' = [cl EXCEPT ![c] = z]
      BY <1>1, <1>b, <1>c DEF FtpWriteMeta, Goto
    <3>2. /\ z \in ClientRecord /\ z.pc = "fwrite" /\ z.op = "put" /\ z.want = cl[c].want
                                  /\ z.m = cl[c].m /\ z.ret = cl[c].ret /\ z.ctx = cl[c].ctx
      BY <1>1, <1>b, <1>c DEF ClientRecord, Reads
    <3> QED
      BY <3>1, <3>2
  <2>2. Stay
    BY <1>1, <1>b, <1>c DEF FtpWriteMeta, Goto
  <2>3. CallTyped(y)
    BY <1>1, <1>b, <1>c, <2>1 DEF CallTyped, StepsOf, ContextsOf, Reads, Kinds, None
  <2>4. Sure => StillSo(y)'
    BY <1>1, <1>b, <1>c, <2>1, <2>2, <1>e DEF StillSo, Stay
  <2>5. ~stray /\ FoundNone(y) => acked = None
    BY <1>b, <1>c, <2>1 DEF FoundNone
  <2> QED
    BY <1>b, <1>c, <2>1, <2>2, <2>3, <2>4, <2>5, <1>d, PutGoesOn DEF Sure
<1>2. CASE o # "ok"
  <2>1. Finish(c, "err")
    BY <1>2, <1>b, <1>c DEF FtpWriteMeta
  <2> QED
    BY <1>b, <1>c, <2>1, <1>d, PutEnds
<1> QED
  BY <1>1, <1>2

\* The body, or a prefix of it.
LEMMA FtpWriteKeeps ==
    ASSUME StoreInv, NEW c \in Clients, NEW o \in Outcomes, FtpWrite(c, o)
    PROVE  StoreInv'
<1>a. cl[c].pc \notin {"idle", "lock", "dbody", "dmeta"}
  BY DEF FtpWrite
<1>b. /\ cl[c].op = "put" /\ cl[c] \in ClientRecord /\ CallTyped(cl[c])
      /\ cl[c].want \in Contents /\ cl[c].ret \in Reads /\ cl[c].pc \in StepsOf[kind]
      /\ kind \in Kinds
      /\ body \in Contents \cup {None, Part} /\ meta \in Contents \cup {None}
      /\ acked \in Contents \cup {None}
      /\ Sure => StillSo(cl[c])
      /\ ~stray /\ FoundNone(cl[c]) => acked = None
      /\ ~Alone => acked = None
      /\ acked # None /\ ~stray => body = acked /\ meta = acked
  BY <1>a, PutIs
<1>c. cl[c].pc = "fwrite" /\ kind = "ftp" /\ Alone /\ kind' = kind /\ stray' = stray /\ UNCHANGED <<meta, late>> /\ body' = IF o = "fail" THEN Part ELSE cl[c].want
  BY <1>b DEF FtpWrite, StepsOf, Kinds, Alone, Stay, Finish, StoreInv, BlobInv, TypeOK
<1>e. (~stray => acked = None /\ meta = cl[c].want) /\ body' \in {Part, cl[c].want} /\ (o = "ok" => body' = cl[c].want)
  BY <1>b, <1>c DEF StillSo, FoundNone, Locked, Sure
<1>d. Changes(c) /\ PairAgrees'
  BY <1>b, <1>c, <1>e, StoreNames DEF Changes, PairAgrees, StoreInv, BlobInv, TypeOK, LockExact, StrayExact, Remote, Locked, Kinds, None, Part
<1>1. CASE o = "ok"
  <2>1. Finish(c, "ok")
    BY <1>1, <1>b, <1>c DEF FtpWrite
  <2>2. phase # "going" /\ ~stray => body' = cl[c].want /\ meta' = cl[c].want
    BY <1>1, <1>c, <1>e
  <2> QED
    BY <1>b, <1>c, <2>1, <2>2, <1>d, PutEnds
<1>2. CASE o # "ok"
  <2>1. Finish(c, "err")
    BY <1>2, <1>b, <1>c DEF FtpWrite
  <2> QED
    BY <1>b, <1>c, <2>1, <1>d, PutEnds
<1> QED
  BY <1>1, <1>2

-----------------------------------------------------------------------------
(* delete_locked_objects. *)

\* What holds of a put that cleans up after itself.
LEMMA CleanUpIs ==
    ASSUME StoreInv, NEW c \in Clients, cl[c].op = "put", cl[c].pc \in {"dbody", "dmeta"}
    PROVE  /\ cl[c] \in ClientRecord /\ CallTyped(cl[c]) /\ kind \in {"fs", "webdav"}
           /\ ~stray => acked = None
           /\ body \in Contents \cup {None, Part} /\ meta \in Contents \cup {None}
<1>a. TypeOK /\ PhaseExact /\ ViewExact
  BY Parts
<1>1. CallTyped(cl[c]) /\ cl[c] \in ClientRecord /\ kind \in Kinds
  BY <1>a DEF TypeOK
<1>2. kind \in {"fs", "webdav"}
  BY <1>1 DEF CallTyped, StepsOf, Kinds
<1>3. FoundNone(cl[c])
  BY <1>2 DEF FoundNone, Locked
<1> QED
  BY <1>a, <1>1, <1>2, <1>3 DEF TypeOK, PhaseExact, ViewExact, Alone, Sure

\* What holds of a delete.
LEMMA DeleteIs ==
    ASSUME StoreInv, NEW c \in Clients, cl[c].op = "delete"
    PROVE  /\ cl[c] \in ClientRecord /\ CallTyped(cl[c]) /\ kind # "pg" /\ kind \in Kinds
           /\ cl[c].pc \in {"lock", "dbody", "dmeta"}
           /\ phase = "going" /\ acked = None
           /\ kind \in {"webdav", "ftp"} /\ cl[c].pc # "lock" => 
                lock = c /\ \A d \in Clients \ {c} : cl[d].pc \in {"idle", "lock"}
           /\ cl[c].pc = "lock" => kind \in {"webdav", "ftp"} /\ lock # c
           /\ kind = "fs" => lock # c
           /\ \A d \in Clients \ {c} : ~(cl[d].op = "delete" /\ cl[d].ret = "alone")
<1>a. TypeOK /\ PhaseExact /\ LockExact
  BY Parts
<1>1. CallTyped(cl[c]) /\ cl[c] \in ClientRecord /\ kind \in Kinds /\ acked \in Contents \cup {None}
  BY <1>a DEF TypeOK
<1>2. cl[c].pc \in {"lock", "dbody", "dmeta"} /\ kind # "pg" /\ (cl[c].pc = "lock" => kind \in {"webdav", "ftp"})
  BY <1>1 DEF CallTyped
<1>3. phase = "going" /\ acked = None
  BY <1>a, <1>1 DEF PhaseExact
<1>4. lock = c => cl[c].pc # "lock" /\ kind # "fs"
  BY <1>a, <1>2, StoreNames DEF LockExact, StrayExact, Remote
<1>5. kind \in {"webdav", "ftp"} /\ cl[c].pc # "lock" => 
         lock = c /\ \A d \in Clients \ {c} : cl[d].pc \in {"idle", "lock"}
  BY <1>a, <1>2 DEF LockExact, StrayExact, Remote, Locked
<1>6. \A d \in Clients \ {c} : ~(cl[d].op = "delete" /\ cl[d].ret = "alone")
  BY <1>a, <1>2 DEF PhaseExact
<1> QED
  BY <1>1, <1>2, <1>3, <1>4, <1>5, <1>6

\* A delete has removed the body and goes on.
LEMMA DeleteGoesOn ==
    ASSUME StoreInv, NEW c \in Clients, NEW y \in ClientRecord,
           cl[c].op = "delete", cl[c].pc = "dbody", body' = None, UNCHANGED <<meta, late>>, Stay,
           cl' = [cl EXCEPT ![c] = y], y.pc = "dmeta", y.op = "delete", y.ret = cl[c].ret
    PROVE  StoreInv'
<1> USE DEF Stay
<1>a. /\ TypeOK /\ LockExact /\ StrayExact /\ PhaseExact /\ ViewExact /\ PairAgrees
      /\ DeletedIsGone /\ AckedStored
  BY Parts
<1>b. /\ kind # "pg" /\ phase = "going" /\ acked = None
      /\ kind \in {"webdav", "ftp"} => 
           lock = c /\ \A d \in Clients \ {c} : cl[d].pc \in {"idle", "lock"}
      /\ kind = "fs" => lock # c
      /\ \A d \in Clients \ {c} : ~(cl[d].op = "delete" /\ cl[d].ret = "alone")
  BY DeleteIs
<1>c. cl' \in [Clients -> ClientRecord] /\ cl'[c] = y /\ \A d \in Clients \ {c} : cl'[d] = cl[d]
  BY <1>a DEF TypeOK
<1>1. TypeOK'
  <2>1. \A d \in Clients : CallTyped(cl[d])'
    <3>1. CallTyped(cl[c])'
      BY <1>b, <1>c DEF CallTyped, None
    <3> QED
      BY <1>a, <1>c, <3>1 DEF TypeOK, CallTyped
  <2> QED
    BY <1>a, <1>c, <2>1 DEF TypeOK
<1>2. LockExact' /\ StrayExact'
  BY <1>a, <1>b, <1>c DEF LockExact, StrayExact, Remote, Locked
<1>3. PhaseExact'
  <2>1. cl[c].ret = "alone" => late = {} /\ \A d \in Clients \ {c} : cl[d].pc = "idle"
    BY <1>a DEF PhaseExact
  <2>2. ASSUME NEW d \in Clients, cl'[d].op = "delete", cl'[d].ret = "alone"
        PROVE  d = c
    BY <1>b, <1>c, <2>2
  <2>3. \A d \in Clients : cl'[d].op = "delete" =>
          /\ phase' = "going"
          /\ cl'[d].ret = "alone" =>
                /\ late' = {} /\ \A e \in Clients \ {d} : cl'[e].pc = "idle"
                /\ cl'[d].pc = "dmeta" => body' = None
    BY <1>b, <1>c, <2>1, <2>2
  <2> QED
    BY <1>b, <2>3 DEF PhaseExact
<1>4. ViewExact'
  <2> SUFFICES ASSUME Sure', NEW d \in Clients
               PROVE  StillSo(cl[d])'
    BY <1>b DEF ViewExact, Sure
  <2>1. cl'[d].pc \in {"idle", "lock", "dmeta"}
    BY <1>b, <1>c DEF Alone, Sure
  <2> QED
    BY <2>1 DEF StillSo
<1>5. PairAgrees' /\ DeletedIsGone' /\ AckedStored'
  BY <1>b DEF PairAgrees, DeletedIsGone, AckedStored
<1> QED
  BY <1>1, <1>2, <1>3, <1>4, <1>5, PartsNext

\* A delete returns; alone with the key and with success it leaves it clean.
LEMMA DeleteEnds ==
    ASSUME StoreInv, NEW c \in Clients, NEW res, cl[c].op = "delete", Finish(c, res),
           body' \in {body, None}, meta' \in {meta, None},
           late' \subseteq [fld : {"body", "meta"}, v : Contents \cup {None}],
           ~Remote => late' = {}, res = "ok" => late' = late,
           cl[c].pc = "lock" => res # "ok" /\ UNCHANGED store,
           res = "ok" => cl[c].pc = "dmeta" /\ body' = body /\ meta' = None
    PROVE  StoreInv'
<1>a. /\ TypeOK /\ LockExact /\ StrayExact /\ PhaseExact /\ ViewExact /\ PairAgrees
      /\ DeletedIsGone /\ AckedStored
  BY Parts
<1>b. /\ kind # "pg" /\ phase = "going" /\ acked = None
      /\ cl[c].pc \in {"lock", "dbody", "dmeta"}
      /\ kind \in {"webdav", "ftp"} /\ cl[c].pc # "lock" => 
           lock = c /\ \A d \in Clients \ {c} : cl[d].pc \in {"idle", "lock"}
      /\ cl[c].pc = "lock" => kind \in {"webdav", "ftp"} /\ lock # c
      /\ \A d \in Clients \ {c} : ~(cl[d].op = "delete" /\ cl[d].ret = "alone")
  BY DeleteIs
<1>c. /\ cl' \in [Clients -> ClientRecord] /\ OthersStay(c)
      /\ cl'[c].pc = "idle" /\ cl'[c].op = None
      /\ lock' = IF lock = c THEN Free ELSE lock
      /\ kind' = kind
  BY <1>a, FinishIs
<1>d. /\ acked' = None /\ phase' = IF cl[c].ret = "alone" /\ res = "ok" THEN "clean" ELSE "going"
      /\ stray' \in BOOLEAN /\ (stray' => stray) /\ (phase' = "going" => stray' = stray) /\ (phase' = "clean" => ~stray')
  BY <1>a, <1>b DEF Finish, TypeOK
<1>e. cl[c].ret = "alone" => /\ late = {} /\ \A d \in Clients \ {c} : cl[d].pc = "idle"
                             /\ cl[c].pc = "dmeta" => body = None
  BY <1>a DEF PhaseExact
<1>f. \A d \in Clients : CallTyped(cl[d])'
  BY <1>a, <1>c DEF TypeOK, OthersStay, CallTyped, None
<1>1. TypeOK'
  <2>1. lock' \in Clients \cup {Free}
    BY <1>a, <1>c DEF TypeOK
  <2> QED
    BY <1>a, <1>c, <1>d, <1>f, <2>1 DEF TypeOK
<1>2. LockExact'
  <2>1. ASSUME NEW d \in Clients, Locked, cl'[d].pc \notin {"idle", "lock"}
        PROVE  lock' = d \/ (kind = "fs" /\ cl'[d].op = "delete")
    BY <1>a, <1>c, <2>1 DEF LockExact, OthersStay
  <2>2. lock' # Free => lock' = lock /\ lock # c /\ lock \in Clients /\ cl'[lock] = cl[lock]
    BY <1>a, <1>c DEF OthersStay, TypeOK
  <2> QED
    BY <1>a, <1>c, <2>1, <2>2 DEF LockExact, Locked
<1>6. StrayExact'
  BY <1>a, <1>c, <1>d, <1>e DEF StrayExact, Remote
<1>3. PhaseExact'
  <2>1. CASE phase' = "clean"
    <3>1. late' = {} /\ ~stray' /\ \A d \in Clients : cl'[d].pc = "idle"
      BY <1>c, <1>d, <1>e, <2>1 DEF OthersStay
    <3>2. \A d \in Clients : cl'[d].op # "delete"
      BY <3>1, <1>f DEF CallTyped, None
    <3> QED
      BY <1>d, <3>1, <3>2 DEF PhaseExact
  <2>2. CASE phase' = "going"
    BY <1>b, <1>c, <1>d, <2>2 DEF PhaseExact, OthersStay, None
  <2> QED
    BY <1>d, <2>1, <2>2
<1>4. ViewExact'
  <2> SUFFICES ASSUME Sure', NEW d \in Clients
               PROVE  StillSo(cl[d])'
    BY <1>d DEF ViewExact, Sure
  <2>1. CASE d = c \/ phase' = "clean"
    <3>1. cl'[d].pc = "idle"
      BY <1>c, <1>d, <1>e, <2>1 DEF OthersStay
    <3> QED
      BY <3>1 DEF StillSo
  <2>2. CASE d # c /\ phase' = "going" /\ cl[c].pc = "lock"
    <3>1. cl'[d] = cl[d] /\ StillSo(cl[d])
      BY <1>a, <1>b, <1>c, <1>d, <2>2 DEF OthersStay, ViewExact, Alone, Sure
    <3> QED
      BY <1>c, <2>2, <3>1 DEF StillSo, store
  <2>3. CASE d # c /\ cl[c].pc # "lock"
    <3>1. cl'[d] = cl[d] /\ cl[d].pc \in {"idle", "lock"}
      BY <1>b, <1>c, <1>d, <1>e, <2>3 DEF OthersStay, Alone, Sure
    <3> QED
      BY <3>1 DEF StillSo
  <2> QED
    BY <1>d, <2>1, <2>2, <2>3
<1>5. PairAgrees' /\ DeletedIsGone' /\ AckedStored'
  <2>1. PairAgrees'
    BY <1>a, <1>c, <1>d, <1>e DEF PairAgrees
  <2>2. DeletedIsGone'
    BY <1>b, <1>d, <1>e DEF DeletedIsGone
  <2> QED
    BY <1>d, <2>1, <2>2 DEF AckedStored
<1> QED
  BY <1>1, <1>2, <1>3, <1>4, <1>5, <1>6, PartsNext

\* The body goes.
LEMMA DeleteBodyKeeps ==
    ASSUME StoreInv, NEW c \in Clients, NEW o \in Outcomes, DeleteBody(c, o)
    PROVE  StoreInv'
<1>a. cl[c].pc = "dbody" /\ cl[c].op \in {"put", "delete"} /\ cl[c] \in ClientRecord
  BY DEF DeleteBody, StoreInv, BlobInv, TypeOK, CallTyped, ClientRecord, None
<1>b. /\ body' \in {body, None} /\ UNCHANGED <<meta, late>> /\ kind' = kind
      /\ cl[c].op = "put" => stray' = stray
  BY DEF DeleteBody, Stay, Finish, StoreInv, BlobInv, TypeOK
<1>c. /\ late \subseteq [fld : {"body", "meta"}, v : Contents \cup {None}] /\ (~Remote => late = {})
      /\ kind = "object" /\ phase # "going" => \A w \in late : w.v # None
  BY DEF StoreInv, BlobInv, TypeOK, StrayExact
<1>1. CASE o = "ok"
  <2>1. PICK y \in ClientRecord : /\ cl' = [cl EXCEPT ![c] = y]
                                  /\ y.pc = "dmeta" /\ y.op = cl[c].op /\ y.want = cl[c].want
                                  /\ y.m = cl[c].m /\ y.ret = cl[c].ret /\ y.ctx = cl[c].ctx
    <3> DEFINE z == [cl[c] EXCEPT !.pc = "dmeta"]
    <3>1. cl' = [cl EXCEPT ![c] = z]
      BY <1>1 DEF DeleteBody, Goto
    <3>2. /\ z \in ClientRecord /\ z.pc = "dmeta" /\ z.op = cl[c].op /\ z.want = cl[c].want
          /\ z.m = cl[c].m /\ z.ret = cl[c].ret /\ z.ctx = cl[c].ctx
      BY <1>a DEF ClientRecord
    <3> QED
      BY <3>1, <3>2
  <2>2. Stay /\ body' = None
    BY <1>1 DEF DeleteBody
  <2>3. CASE cl[c].op = "put"
    <3>1. /\ CallTyped(cl[c]) /\ kind \in {"fs", "webdav"}
          /\ (~stray => acked = None)
          /\ body \in Contents \cup {None, Part} /\ meta \in Contents \cup {None}
      BY <1>a, <2>3, CleanUpIs
    <3>2. Changes(c) /\ PairAgrees'
      BY <1>b, <1>c, <3>1, <2>3 DEF Changes, PairAgrees, StoreInv, BlobInv, Locked
    <3>3. CallTyped(y) /\ StillSo(y)'
      BY <1>a, <2>1, <2>3, <3>1 DEF CallTyped, StillSo, None
    <3> QED
      BY <1>a, <2>1, <2>2, <2>3, <3>1, <3>2, <3>3, PutGoesOn DEF Sure
  <2>4. CASE cl[c].op = "delete"
    BY <1>a, <1>b, <2>1, <2>2, <2>4, DeleteGoesOn
  <2> QED
    BY <1>a, <2>3, <2>4
<1>2. CASE o # "ok"
  <2>1. Finish(c, "err")
    BY <1>2 DEF DeleteBody
  <2>2. CASE cl[c].op = "put"
    <3>1. /\ kind \in {"fs", "webdav"} /\ (~stray => acked = None)
          /\ body \in Contents \cup {None, Part} /\ meta \in Contents \cup {None}
      BY <1>a, <2>2, CleanUpIs
    <3>2. Changes(c) /\ PairAgrees'
      BY <1>b, <1>c, <3>1, <2>2 DEF Changes, PairAgrees, StoreInv, BlobInv, Locked
    <3> QED
      BY <1>a, <2>1, <2>2, <3>2, PutEnds
  <2>3. CASE cl[c].op = "delete"
    BY <1>a, <1>b, <1>c, <2>1, <2>3, DeleteEnds
  <2> QED
    BY <1>a, <2>2, <2>3
<1> QED
  BY <1>1, <1>2

\* The sidecar goes, and the call returns.
LEMMA DeleteMetaKeeps ==
    ASSUME StoreInv, NEW c \in Clients, NEW o \in Outcomes, DeleteMeta(c, o)
    PROVE  StoreInv'
<1>a. cl[c].pc = "dmeta" /\ cl[c].op \in {"put", "delete"}
  BY DEF DeleteMeta, StoreInv, BlobInv, TypeOK, CallTyped, ClientRecord, None
<1>b. /\ meta' \in {meta, None} /\ UNCHANGED <<body, late>> /\ kind' = kind /\ (o = "ok" => meta' = None)
      /\ cl[c].op = "put" => stray' = stray
  BY DEF DeleteMeta, Finish, StoreInv, BlobInv, TypeOK
<1>c. /\ late \subseteq [fld : {"body", "meta"}, v : Contents \cup {None}] /\ (~Remote => late = {})
      /\ kind = "object" /\ phase # "going" => \A w \in late : w.v # None
  BY DEF StoreInv, BlobInv, TypeOK, StrayExact
<1>1. CASE cl[c].op = "put"
  <2>1. /\ kind \in {"fs", "webdav"} /\ (~stray => acked = None)
        /\ body \in Contents \cup {None, Part} /\ meta \in Contents \cup {None}
    BY <1>a, <1>1, CleanUpIs
  <2>2. Changes(c) /\ PairAgrees'
    BY <1>b, <1>c, <2>1, <1>1 DEF Changes, PairAgrees, StoreInv, BlobInv, Locked
  <2>3. Finish(c, "err")
    BY <1>1 DEF DeleteMeta
  <2> QED
    BY <1>a, <1>1, <2>2, <2>3, PutEnds
<1>2. CASE cl[c].op = "delete" /\ o = "ok"
  <2>1. Finish(c, "ok")
    BY <1>2 DEF DeleteMeta
  <2> QED
    BY <1>a, <1>b, <1>c, <1>2, <2>1, DeleteEnds
<1>3. CASE cl[c].op = "delete" /\ o # "ok"
  <2>1. Finish(c, "err")
    BY <1>3 DEF DeleteMeta
  <2> QED
    BY <1>a, <1>b, <1>c, <1>3, <2>1, DeleteEnds
<1> QED
  BY <1>a, <1>1, <1>2, <1>3

\* A request is given up: it may land later, and its caller goes on without it.
LEMMA GiveUpKeeps ==
    ASSUME StoreInv, NEW c \in Clients, GiveUp(c)
    PROVE  StoreInv'
<1>a. TypeOK /\ LockExact /\ StrayExact /\ PhaseExact /\ PairAgrees
  BY Parts
<1>b. /\ cl[c].pc \in Sends /\ Remote /\ late' = late \cup {Request(cl[c])} /\ UNCHANGED <<body, meta>>
      /\ cl[c] \in ClientRecord /\ CallTyped(cl[c]) /\ kind \in Kinds
  BY <1>a DEF GiveUp, TypeOK
<1>c. cl[c].op \in {"put", "delete"}
  BY <1>b DEF CallTyped, ClientRecord, Sends, None
<1>d. late' \subseteq [fld : {"body", "meta"}, v : Contents \cup {None}]
  <2>1. Request(cl[c]) \in [fld : {"body", "meta"}, v : Contents \cup {None}]
    BY <1>b DEF Request, ClientRecord
  <2> QED
    BY <1>a, <1>b, <2>1 DEF TypeOK
<1>1. CASE cl[c].op = "put"
  <2>a. cl[c].want \in Contents /\ cl[c].ret \in Reads
    BY <1>b, <1>1 DEF CallTyped
  <2>b. kind = "object" => Request(cl[c]).v # None
    BY <1>b, <1>1, <2>a, StoreNames DEF CallTyped, StepsOf, Request
  <2>c. Changes(c)
    <3>1. kind = "object" /\ phase # "going" => \A w \in late' : w.v # None
      BY <1>a, <1>b, <2>b DEF StrayExact
    <3> QED
      BY <1>a, <1>b, <1>d, <3>1 DEF Changes, TypeOK
  <2>1. CASE cl[c].pc = "body"
    <3>1. Stay
      BY <2>1 DEF GiveUp
    <3>2. PICK y \in ClientRecord : /\ cl' = [cl EXCEPT ![c] = y]
                                    /\ y.pc = "recon" /\ y.op = "put" /\ y.want = cl[c].want
                                    /\ y.m = cl[c].m /\ y.ret = cl[c].ret /\ y.ctx = cl[c].ctx
      <4> DEFINE z == [cl[c] EXCEPT !.pc = "recon"]
      <4>1. cl' = [cl EXCEPT ![c] = z]
        BY <2>1 DEF GiveUp, Goto
      <4>2. /\ z \in ClientRecord /\ z.pc = "recon" /\ z.op = "put" /\ z.want = cl[c].want
            /\ z.m = cl[c].m /\ z.ret = cl[c].ret /\ z.ctx = cl[c].ctx
        BY <1>1, <1>b DEF ClientRecord
      <4> QED
        BY <4>1, <4>2
    <3>3. kind = "object"
      BY <1>b, <1>1, <2>1 DEF CallTyped, StepsOf, Remote
    <3>4. CallTyped(y)
      BY <1>b, <1>1, <2>1, <2>a, <3>2, <3>3 DEF CallTyped, StepsOf, None
    <3>6. StillSo(y)' /\ ~FoundNone(y)
      BY <3>2, <3>3 DEF StillSo, FoundNone, Locked
    <3>5. PairAgrees'
      BY <3>1, <3>3 DEF PairAgrees, Stay
    <3> QED
      BY <1>1, <2>1, <2>c, <3>1, <3>2, <3>4, <3>5, <3>6, PutGoesOn
  <2>2. CASE cl[c].pc = "meta"
    <3>1. Stay
      BY <2>2 DEF GiveUp
    <3>2. PICK y \in ClientRecord : /\ cl' = [cl EXCEPT ![c] = y]
                                    /\ y.pc = "metafailed" /\ y.op = "put" /\ y.want = cl[c].want
                                    /\ y.m = cl[c].m /\ y.ret = cl[c].ret /\ y.ctx = cl[c].ctx
      <4> DEFINE z == [cl[c] EXCEPT !.pc = "metafailed"]
      <4>1. cl' = [cl EXCEPT ![c] = z]
        BY <2>2 DEF GiveUp, Goto
      <4>2. /\ z \in ClientRecord /\ z.pc = "metafailed" /\ z.op = "put" /\ z.want = cl[c].want
            /\ z.m = cl[c].m /\ z.ret = cl[c].ret /\ z.ctx = cl[c].ctx
        BY <1>1, <1>b DEF ClientRecord
      <4> QED
        BY <4>1, <4>2
    <3>3. CallTyped(y)
      BY <1>b, <1>1, <2>2, <2>a, <3>2 DEF CallTyped, StepsOf, Kinds, None
    <3>6. StillSo(y)' /\ (FoundNone(y) => FoundNone(cl[c]))
      BY <1>1, <2>2, <3>2 DEF StillSo, FoundNone
    <3>4. ~stray /\ FoundNone(cl[c]) => acked = None
      BY <2>2, PutIs
    <3>5. PairAgrees'
      BY <1>a, <1>b, <3>1 DEF PairAgrees, Stay
    <3> QED
      BY <1>1, <2>2, <2>c, <3>1, <3>2, <3>3, <3>4, <3>5, <3>6, PutGoesOn DEF Sure
  <2>3. CASE cl[c].pc \notin {"body", "meta"}
    <3>1. Finish(c, "err") /\ cl[c].pc # "lock"
      BY <1>b, <2>3 DEF GiveUp, Sends
    <3>2. PairAgrees'
      BY <1>a, <1>b, <1>1, <3>1 DEF PairAgrees, Finish
    <3> QED
      BY <1>1, <2>c, <3>1, <3>2, PutEnds
  <2> QED
    BY <2>1, <2>2, <2>3
<1>2. CASE cl[c].op = "delete"
  <2>1. cl[c].pc \notin {"body", "meta", "lock"}
    BY <1>b, <1>2 DEF CallTyped, Sends
  <2>2. Finish(c, "err")
    BY <2>1 DEF GiveUp
  <2> QED
    BY <1>2, <1>b, <1>d, <2>1, <2>2, DeleteEnds
<1> QED
  BY <1>c, <1>1, <1>2

\* A call that is dropped leaves its lock, and the objects as they are.
LEMMA DroppedKeeps ==
    ASSUME StoreInv, NEW c \in Clients, Dropped(c)
    PROVE  StoreInv'
<1>a. TypeOK /\ StrayExact
  BY Parts
<1>b. /\ cl[c].pc # "idle" /\ Finish(c, "err") /\ UNCHANGED store
      /\ cl[c] \in ClientRecord /\ CallTyped(cl[c])
  BY <1>a DEF Dropped, TypeOK
<1>1. CASE cl[c].op = "put"
  BY <1>b, <1>1, PutEndsHere
<1>2. CASE cl[c].op = "delete"
  BY <1>a, <1>b, <1>2, DeleteEnds DEF store, TypeOK, StrayExact
<1> QED
  BY <1>b, <1>1, <1>2 DEF CallTyped, ClientRecord

-----------------------------------------------------------------------------
(* Calls begin, wait for their lock, and late writes land. *)

\* A put begins: a clean key comes to life, a delete at work is no longer alone.
LEMMA PutKeeps ==
    ASSUME StoreInv, NEW c \in Clients, NEW v \in Contents, put(c, v)
    PROVE  StoreInv'
<1>a. /\ TypeOK /\ LockExact /\ StrayExact /\ PhaseExact /\ ViewExact /\ PairAgrees
      /\ DeletedIsGone /\ AckedStored
  BY Parts
<1> DEFINE r == [Quiet EXCEPT !.op = "put", !.want = v, !.ret = "first",
                              !.pc = IF Locked THEN "lock" ELSE "rmeta"]
<1>b. /\ r \in ClientRecord /\ r.op = "put" /\ r.want = v /\ r.ret = "first"
      /\ r.pc = IF Locked THEN "lock" ELSE "rmeta"
  BY DEF Quiet, ClientRecord, Reads
<1>c. /\ kind # "pg" /\ cl[c].pc = "idle" /\ UNCHANGED <<kind, lock, stray, acked, body, meta, late>>
      /\ phase' = IF phase = "clean" THEN "live" ELSE phase
  BY DEF put, store
<1>d. cl' = [d \in Clients |-> IF d = c THEN r
               ELSE IF cl[d].op = "delete" THEN [cl[d] EXCEPT !.ret = None] ELSE cl[d]]
  BY DEF put, Begin
<1> HIDE DEF r
<1>e. /\ cl' \in [Clients -> ClientRecord] /\ cl'[c] = r
      /\ \A d \in Clients \ {c} :
            /\ cl'[d].pc = cl[d].pc /\ cl'[d].op = cl[d].op /\ cl'[d].want = cl[d].want
            /\ cl'[d].m = cl[d].m /\ cl'[d].ctx = cl[d].ctx
            /\ cl'[d].ret = IF cl[d].op = "delete" THEN None ELSE cl[d].ret
  <2>1. ASSUME NEW d \in Clients \ {c}
        PROVE  /\ cl'[d] \in ClientRecord
               /\ cl'[d].pc = cl[d].pc /\ cl'[d].op = cl[d].op /\ cl'[d].want = cl[d].want
               /\ cl'[d].m = cl[d].m /\ cl'[d].ctx = cl[d].ctx
               /\ cl'[d].ret = IF cl[d].op = "delete" THEN None ELSE cl[d].ret
    <3>1. cl[d] \in ClientRecord
      BY <1>a DEF TypeOK
    <3> QED
      BY <1>d, <3>1 DEF ClientRecord
  <2> QED
    BY <1>b, <1>d, <2>1
<1>1. TypeOK'
  <2>1. CallTyped(cl[c])'
    BY <1>a, <1>b, <1>c, <1>e DEF CallTyped, TypeOK, StepsOf, Kinds, Locked, Reads, None
  <2>2. ASSUME NEW d \in Clients \ {c} PROVE CallTyped(cl[d])'
    <3>1. CallTyped(cl[d])
      BY <1>a DEF TypeOK
    <3> QED
      BY <1>c, <1>e, <3>1 DEF CallTyped, None
  <2>3. phase' \in {"clean", "live", "going"}
    BY <1>a, <1>c DEF TypeOK
  <2> QED
    BY <1>a, <1>c, <1>e, <2>1, <2>2, <2>3 DEF TypeOK
<1>2. LockExact'
  <2>1. lock # c
    BY <1>a, <1>c, StoreNames DEF LockExact
  <2>2. lock # Free => lock \in Clients \ {c}
    BY <1>a, <2>1 DEF TypeOK
  <2> QED
    BY <1>a, <1>b, <1>c, <1>e, <2>2 DEF LockExact, Locked
<1>6. StrayExact'
  BY <1>a, <1>c DEF StrayExact, Remote, PhaseExact
<1>3. PhaseExact'
  <2>1. phase' # "clean" /\ (phase = "going" => phase' = "going") /\ (acked' # None => phase' = "live")
    BY <1>a, <1>c DEF PhaseExact
  <2>2. ASSUME NEW d \in Clients, cl'[d].op = "delete"
        PROVE  phase' = "going" /\ cl'[d].ret # "alone"
    BY <1>a, <1>b, <1>e, <2>1, <2>2 DEF PhaseExact, None
  <2> QED
    BY <2>1, <2>2 DEF PhaseExact
<1>4. ViewExact'
  <2> SUFFICES ASSUME Sure', NEW d \in Clients
               PROVE  StillSo(cl[d])' /\ (FoundNone(cl[d])' => acked' = None)
    BY DEF ViewExact, Sure
  <2>1. Sure
    BY <1>c DEF Alone, Sure
  <2>2. CASE d = c
    BY <1>b, <1>e, <2>2 DEF StillSo, FoundNone
  <2>3. CASE d # c
    <3>1. StillSo(cl[d]) /\ (FoundNone(cl[d]) => acked = None)
      BY <1>a, <2>1 DEF ViewExact, Sure
    <3>2. StillSo(cl[d])'
      BY <1>c, <1>e, <2>3, <3>1 DEF StillSo
    <3>3. FoundNone(cl[d])' => FoundNone(cl[d])
      BY <1>c, <1>e, <2>3 DEF FoundNone, Locked
    <3> QED
      BY <1>c, <3>1, <3>2, <3>3
  <2> QED
    BY <2>2, <2>3
<1>5. PairAgrees' /\ DeletedIsGone' /\ AckedStored'
  BY <1>a, <1>c DEF PairAgrees, DeletedIsGone, AckedStored
<1> QED
  BY <1>1, <1>2, <1>3, <1>4, <1>5, <1>6, PartsNext

\* A delete begins: nothing is promised of the key until a delete has been alone.
LEMMA DeleteKeeps ==
    ASSUME StoreInv, NEW c \in Clients, delete(c)
    PROVE  StoreInv'
<1>a. /\ TypeOK /\ LockExact /\ StrayExact /\ PhaseExact /\ ViewExact /\ PairAgrees
      /\ DeletedIsGone /\ AckedStored
  BY Parts
<1> DEFINE alone == late = {} /\ \A d \in Clients : cl[d].pc = "idle"
<1> DEFINE r == [Quiet EXCEPT !.op = "delete", !.ret = IF alone THEN "alone" ELSE None,
                              !.pc = IF kind \in {"webdav", "ftp"} THEN "lock" ELSE "dbody"]
<1>b. /\ r \in ClientRecord /\ r.op = "delete" /\ (r.ret = "alone" => alone)
      /\ r.pc = IF kind \in {"webdav", "ftp"} THEN "lock" ELSE "dbody"
  BY DEF Quiet, ClientRecord, Reads, None
<1>c. /\ kind # "pg" /\ cl[c].pc = "idle" /\ UNCHANGED <<kind, lock, stray, body, meta, late>>
      /\ phase' = "going" /\ acked' = None
  BY DEF delete, store
<1>d. cl' = [d \in Clients |-> IF d = c THEN r
               ELSE IF cl[d].op = "delete" THEN [cl[d] EXCEPT !.ret = None] ELSE cl[d]]
  BY DEF delete, Begin
<1> HIDE DEF r
<1>e. /\ cl' \in [Clients -> ClientRecord] /\ cl'[c] = r
      /\ \A d \in Clients \ {c} :
            /\ cl'[d].pc = cl[d].pc /\ cl'[d].op = cl[d].op /\ cl'[d].want = cl[d].want
            /\ cl'[d].m = cl[d].m /\ cl'[d].ctx = cl[d].ctx
            /\ cl'[d].ret = IF cl[d].op = "delete" THEN None ELSE cl[d].ret
  <2>1. ASSUME NEW d \in Clients \ {c}
        PROVE  /\ cl'[d] \in ClientRecord
               /\ cl'[d].pc = cl[d].pc /\ cl'[d].op = cl[d].op /\ cl'[d].want = cl[d].want
               /\ cl'[d].m = cl[d].m /\ cl'[d].ctx = cl[d].ctx
               /\ cl'[d].ret = IF cl[d].op = "delete" THEN None ELSE cl[d].ret
    <3>1. cl[d] \in ClientRecord
      BY <1>a DEF TypeOK
    <3> QED
      BY <1>d, <3>1 DEF ClientRecord
  <2> QED
    BY <1>b, <1>d, <2>1
<1>1. TypeOK'
  <2>1. CallTyped(cl[c])'
    BY <1>b, <1>c, <1>e DEF CallTyped, None
  <2>2. ASSUME NEW d \in Clients \ {c} PROVE CallTyped(cl[d])'
    <3>1. CallTyped(cl[d])
      BY <1>a DEF TypeOK
    <3> QED
      BY <1>c, <1>e, <3>1 DEF CallTyped, None
  <2> QED
    BY <1>a, <1>c, <1>e, <2>1, <2>2 DEF TypeOK
<1>2. LockExact'
  <2>1. lock # c
    BY <1>a, <1>c, StoreNames DEF LockExact
  <2>2. lock # Free => lock \in Clients \ {c}
    BY <1>a, <2>1 DEF TypeOK
  <2> QED
    BY <1>a, <1>b, <1>c, <1>e, <2>2 DEF LockExact, Locked
<1>6. StrayExact'
  BY <1>a, <1>c DEF StrayExact, Remote, PhaseExact
<1>3. PhaseExact'
  <2>1. ASSUME NEW d \in Clients, cl'[d].op = "delete", cl'[d].ret = "alone"
        PROVE  d = c /\ alone
    BY <1>b, <1>e, <2>1 DEF None
  <2>2. \A d \in Clients : cl'[d].op = "delete" =>
          /\ phase' = "going"
          /\ cl'[d].ret = "alone" =>
                /\ late' = {} /\ \A e \in Clients \ {d} : cl'[e].pc = "idle"
                /\ cl'[d].pc = "dmeta" => body' = None
    BY <1>b, <1>c, <1>e, <2>1
  <2> QED
    BY <1>c, <2>2 DEF PhaseExact
<1>4. ViewExact'
  <2> SUFFICES ASSUME Sure', NEW d \in Clients
               PROVE  StillSo(cl[d])'
    BY <1>c DEF ViewExact, Sure
  <2>1. Sure
    BY <1>c DEF Alone, Sure
  <2>2. CASE d = c
    BY <1>b, <1>e, <2>2 DEF StillSo
  <2>3. CASE d # c
    <3>1. StillSo(cl[d])
      BY <1>a, <2>1 DEF ViewExact, Sure
    <3> QED
      BY <1>c, <1>e, <2>3, <3>1 DEF StillSo
  <2> QED
    BY <2>2, <2>3
<1>5. PairAgrees' /\ DeletedIsGone' /\ AckedStored'
  BY <1>a, <1>c DEF PairAgrees, DeletedIsGone, AckedStored
<1> QED
  BY <1>1, <1>2, <1>3, <1>4, <1>5, <1>6, PartsNext

\* A call takes its lock, or gives up.
LEMMA AcquireLockKeeps ==
    ASSUME StoreInv, NEW c \in Clients, AcquireLock(c)
    PROVE  StoreInv'
<1>a. /\ TypeOK /\ LockExact /\ StrayExact /\ PhaseExact /\ ViewExact /\ PairAgrees
      /\ DeletedIsGone /\ AckedStored
  BY Parts
<1>b. cl[c].pc = "lock" /\ UNCHANGED <<body, meta, late>> /\ cl[c] \in ClientRecord /\ CallTyped(cl[c])
  BY <1>a DEF AcquireLock, store, TypeOK
<1>c. cl[c].op \in {"put", "delete"} /\ phase # "clean"
  BY <1>a, <1>b DEF CallTyped, ClientRecord, PhaseExact, None
<1>d. Locked /\ (cl[c].op = "delete" => kind \in {"webdav", "ftp"})
  BY <1>a, <1>b, <1>c DEF TypeOK, CallTyped, StepsOf, Kinds, Locked
<1>1. CASE kind # "fs" /\ Finish(c, "err")
  <2>1. CASE cl[c].op = "put"
    BY <1>b, <1>1, <2>1, PutEndsHere DEF store
  <2>2. CASE cl[c].op = "delete"
    BY <1>a, <1>b, <1>1, <2>2, DeleteEnds DEF store, TypeOK, StrayExact
  <2> QED
    BY <1>c, <2>1, <2>2
<1>2. CASE lock = Free /\ lock' = c /\ UNCHANGED <<kind, stray, acked, phase>>
           /\ Goto(c, IF cl[c].op = "delete" THEN "dbody" ELSE IF kind = "ftp" THEN "fmeta" ELSE "rmeta")
  <2> DEFINE pc == IF cl[c].op = "delete" THEN "dbody" ELSE IF kind = "ftp" THEN "fmeta" ELSE "rmeta"
  <2> DEFINE z == [cl[c] EXCEPT !.pc = pc]
  <2>1. /\ z \in ClientRecord /\ z.pc = pc /\ z.op = cl[c].op /\ z.want = cl[c].want
        /\ z.m = cl[c].m /\ z.ret = cl[c].ret /\ z.ctx = cl[c].ctx
    BY <1>b DEF ClientRecord
  <2>2. cl' \in [Clients -> ClientRecord] /\ cl'[c] = z /\ \A d \in Clients \ {c} : cl'[d] = cl[d]
    BY <1>2, <1>a, <2>1 DEF Goto, TypeOK
  <2> HIDE DEF z
  <2>3. TypeOK'
    <3>1. CallTyped(cl[c])'
      BY <1>a, <1>2, <1>b, <1>c, <1>d, <2>1, <2>2 DEF CallTyped, TypeOK, StepsOf, Kinds, Locked, Reads, None
    <3>2. \A d \in Clients : CallTyped(cl[d])'
      BY <1>a, <1>2, <2>2, <3>1 DEF TypeOK, CallTyped
    <3> QED
      BY <1>a, <1>b, <1>2, <2>2, <3>2 DEF TypeOK
  <2>4. LockExact'
    <3>1. \A d \in Clients \ {c} : cl[d].pc \notin {"idle", "lock"} => kind = "fs" /\ cl[d].op = "delete"
      BY <1>a, <1>d, <1>2, StoreNames DEF LockExact
    <3> QED
      BY <1>a, <1>b, <1>c, <1>d, <1>2, <2>1, <2>2, <3>1, StoreNames DEF LockExact, Locked
  <2>8. StrayExact'
    BY <1>a, <1>b, <1>2 DEF StrayExact, Remote
  <2>5. PhaseExact'
    <3>1. \A d \in Clients : cl'[d].op = cl[d].op /\ cl'[d].ret = cl[d].ret
      BY <2>1, <2>2
    <3>2. \A d \in Clients \ {c} : cl[d].op = "delete" => cl[d].ret # "alone"
      BY <1>a, <1>b DEF PhaseExact
    <3> QED
      BY <1>a, <1>b, <1>c, <1>2, <2>1, <2>2, <3>1, <3>2 DEF PhaseExact
  <2>6. ViewExact'
    <3> SUFFICES ASSUME Sure, NEW d \in Clients
                 PROVE  StillSo(cl[d])' /\ (FoundNone(cl[d])' => acked = None)
      BY <1>2 DEF ViewExact, Alone, Sure
    <3>1. CASE d = c
      <4>1. cl[c].op = "put" => cl[c].ret = "first"
        BY <1>b DEF CallTyped
      <4> QED
        BY <2>1, <2>2, <3>1, <4>1 DEF StillSo, FoundNone
    <3>2. CASE d # c
      <4>1. cl'[d] = cl[d] /\ StillSo(cl[d]) /\ (FoundNone(cl[d]) => acked = None)
        BY <1>a, <2>2, <3>2 DEF ViewExact, Sure
      <4> QED
        BY <1>b, <1>2, <4>1 DEF StillSo, FoundNone, Locked
    <3> QED
      BY <3>1, <3>2
  <2>7. PairAgrees' /\ DeletedIsGone' /\ AckedStored'
    BY <1>a, <1>b, <1>2 DEF PairAgrees, DeletedIsGone, AckedStored
  <2> QED
    BY <2>3, <2>4, <2>5, <2>6, <2>7, <2>8, PartsNext
<1> QED
  BY <1>1, <1>2 DEF AcquireLock

\* In PostgreSQL no call is ever between two steps.
LEMMA PgIsIdle ==
    ASSUME StoreInv, kind = "pg"
    PROVE  late = {} /\ ~stray /\ ~Locked /\ lock = Free
           /\ \A d \in Clients : cl[d].pc = "idle" /\ cl[d].op = None
<1>a. TypeOK /\ LockExact /\ StrayExact
  BY Parts
<1>1. ASSUME NEW d \in Clients PROVE cl[d].pc = "idle" /\ cl[d].op = None
  <2>1. cl[d] \in ClientRecord /\ CallTyped(cl[d])
    BY <1>a DEF TypeOK
  <2> QED
    BY <2>1 DEF CallTyped, ClientRecord, StepsOf
<1> QED
  BY <1>a, <1>1 DEF LockExact, StrayExact, Remote, Locked

\* The transactions of PostgreSQL.
LEMMA PgKeeps ==
    ASSUME StoreInv, (\E v \in Contents : \E c \in Clients : PutPg(c, v)) \/ DeletePg
    PROVE  StoreInv'
<1>a. /\ TypeOK /\ LockExact /\ StrayExact /\ PhaseExact /\ ViewExact /\ PairAgrees
      /\ DeletedIsGone /\ AckedStored
  BY Parts
<1>b. kind = "pg" /\ UNCHANGED <<kind, lock, late, stray, cl>>
  BY DEF PutPg, DeletePg
<1>c. late = {} /\ ~stray /\ ~Locked /\ lock = Free /\ \A d \in Clients : cl[d].pc = "idle" /\ cl[d].op = None
  BY <1>b, PgIsIdle
<1>d. /\ body' \in Contents \cup {None, Part} /\ meta' \in Contents \cup {None}
      /\ acked' \in Contents \cup {None} /\ phase' \in {"clean", "live"}
      /\ (acked' # None => phase' = "live" /\ body' = acked' /\ meta' = acked')
      /\ (phase' = "clean" => body' = None)
  <2>1. /\ body \in Contents \cup {None, Part} /\ meta \in Contents \cup {None}
        /\ acked \in Contents \cup {None} /\ (acked # None => body = acked /\ meta = acked)
    BY <1>a, <1>c DEF TypeOK, AckedStored
  <2>2. CASE DeletePg
    BY <2>1, <2>2 DEF DeletePg
  <2>3. CASE \E v \in Contents : \E c \in Clients : PutPg(c, v)
    BY <2>1, <2>3, StoreNames DEF PutPg, None
  <2> QED
    BY <2>2, <2>3
<1>1. TypeOK'
  BY <1>a, <1>b, <1>d DEF TypeOK, CallTyped
<1>2. LockExact' /\ StrayExact' /\ PhaseExact'
  BY <1>b, <1>c, <1>d DEF LockExact, StrayExact, Remote, PhaseExact, Locked, None
<1>3. ViewExact'
  BY <1>b, <1>c DEF ViewExact, StillSo, FoundNone, Locked
<1>4. PairAgrees' /\ DeletedIsGone' /\ AckedStored'
  BY <1>b, <1>d DEF PairAgrees, DeletedIsGone, AckedStored
<1> QED
  BY <1>1, <1>2, <1>3, <1>4, PartsNext

\* A late request lands: a conditional one creates what does not exist and nothing
\* else, and any other that changes the key is remembered.
LEMMA LandKeeps ==
    ASSUME StoreInv, NEW w \in late, Land(w)
    PROVE  StoreInv'
<1>a. /\ TypeOK /\ LockExact /\ StrayExact /\ PhaseExact /\ ViewExact /\ PairAgrees
      /\ DeletedIsGone /\ AckedStored
  BY Parts
<1>b. /\ Remote /\ phase # "clean" /\ w.v \in Contents \cup {None} /\ w.fld \in {"body", "meta"}
      /\ UNCHANGED <<kind, lock, cl, acked, phase>> /\ late' \subseteq late
      /\ stray' = (stray \/ ((w.v = None \/ ~Conditional) /\ <<body', meta'>> # <<body, meta>>))
  BY <1>a DEF StrayExact, PhaseExact, TypeOK, Land
<1>c. /\ body' \in {body, w.v, Part} /\ meta' \in {meta, w.v}
      /\ Conditional /\ w.v # None => /\ body' \in {body, w.v}
                                      /\ (body # None => body' = body) /\ (meta # None => meta' = meta)
  <2>1. w.fld = "body" => meta' = meta /\ body' \in Landed(body, w)
    BY DEF Land
  <2>2. w.fld = "meta" => body' = body /\ meta' \in Landed(meta, w)
    BY DEF Land
  <2> QED
    BY <1>b, <2>1, <2>2 DEF Landed, Write, Exists, Conditional
<1>d. ~stray' => ~stray /\ (UNCHANGED <<body, meta>> \/ (kind = "object" /\ w.v \in Contents))
  BY <1>b DEF Conditional, Remote
<1>1. TypeOK'
  <2>1. body' \in Contents \cup {None, Part} /\ meta' \in Contents \cup {None}
    BY <1>a, <1>b, <1>c DEF TypeOK
  <2>2. late' \subseteq [fld : {"body", "meta"}, v : Contents \cup {None}] /\ stray' \in BOOLEAN
    BY <1>a, <1>b DEF TypeOK
  <2>3. \A c \in Clients : CallTyped(cl[c])'
    BY <1>a, <1>b DEF TypeOK, CallTyped
  <2> QED
    BY <1>a, <1>b, <2>1, <2>2, <2>3 DEF TypeOK
<1>2. LockExact'
  BY <1>a, <1>b DEF LockExact, Locked
<1>6. StrayExact'
  BY <1>a, <1>b DEF StrayExact, Remote, Conditional
<1>3. PhaseExact'
  <2>1. \A c \in Clients : cl[c].op = "delete" => phase = "going" /\ cl[c].ret # "alone"
    BY <1>a DEF PhaseExact
  <2> QED
    BY <1>a, <1>b, <2>1 DEF PhaseExact
<1>4. ViewExact'
  <2> SUFFICES ASSUME Sure', NEW d \in Clients
               PROVE  StillSo(cl[d])' /\ (FoundNone(cl[d])' => acked = None)
    BY <1>b DEF ViewExact, Sure
  <2>1. /\ StillSo(cl[d]) /\ (FoundNone(cl[d]) => acked = None)
        /\ cl'[d] = cl[d] /\ cl[d] \in ClientRecord /\ CallTyped(cl[d])
    BY <1>a, <1>b, <1>d DEF ViewExact, TypeOK, Sure, Alone
  <2>2. CASE UNCHANGED <<body, meta>>
    BY <1>b, <2>1, <2>2 DEF StillSo, FoundNone, Locked
  <2>3. CASE kind = "object" /\ w.v \in Contents
    <3>1. cl[d].pc \in {"idle", "dbody", "dmeta", "rmeta", "rbody", "body", "meta", "metafailed", "recover", "recon"}
      BY <2>3, <2>1 DEF CallTyped, StepsOf, ClientRecord
    <3>2. cl[d].pc = "meta" => cl[d].want \in Contents
      BY <2>1 DEF CallTyped, ClientRecord
    <3>3. StillSo(cl[d])'
      BY <1>b, <1>c, <2>1, <2>3, <3>1, <3>2, StoreNames DEF StillSo, None, Conditional
    <3> QED
      BY <1>b, <2>3, <3>3 DEF FoundNone, Locked
  <2> QED
    BY <1>d, <2>2, <2>3 DEF Sure
<1>5. PairAgrees' /\ DeletedIsGone' /\ AckedStored'
  <2>1. PairAgrees'
    BY <1>a, <1>b, <1>d DEF PairAgrees
  <2>2. DeletedIsGone'
    BY <1>b DEF DeletedIsGone
  <2>3. AckedStored'
    BY <1>a, <1>b, <1>c, <1>d, StoreNames DEF AckedStored, Conditional
  <2> QED
    BY <2>1, <2>2, <2>3
<1> QED
  BY <1>1, <1>2, <1>3, <1>4, <1>5, <1>6, PartsNext

-----------------------------------------------------------------------------
(* Every step. *)

\* It holds of a key that was never written.
LEMMA StoreInit == Init => StoreInv
<1> SUFFICES ASSUME Init PROVE StoreInv
  OBVIOUS
<1>1. Quiet \in ClientRecord /\ Quiet.pc = "idle" /\ Quiet.op = None
  BY DEF Quiet, ClientRecord
<1>2. \A c \in Clients : cl[c] = Quiet
  BY DEF Init
<1>3. TypeOK
  <2>1. CallTyped(Quiet)
    BY <1>1 DEF CallTyped, None
  <2> QED
    BY <1>1, <1>2, <2>1 DEF Init, TypeOK
<1>4. LockExact /\ StrayExact /\ PhaseExact
  BY <1>1, <1>2 DEF Init, LockExact, StrayExact, Remote, PhaseExact, None
<1>5. ViewExact
  <2>1. StillSo(Quiet)
    BY <1>1 DEF StillSo
  <2> QED
    BY <1>2, <2>1 DEF ViewExact, Init
<1>6. PairAgrees /\ DeletedIsGone /\ AckedStored
  BY DEF Init, PairAgrees, DeletedIsGone, AckedStored
<1> QED
  BY <1>3, <1>4, <1>5, <1>6, Parts

\* And every backend call, failed or not, keeps it.
LEMMA StoreStep == StoreInv /\ [Next]_vars => StoreInv'
<1> SUFFICES ASSUME StoreInv, [Next]_vars PROVE StoreInv'
  OBVIOUS
<1>1. ASSUME NEW c \in Clients, Step(c) PROVE StoreInv'
  <2>1. CASE \E v \in Contents : put(c, v)
    BY <2>1, PutKeeps
  <2>2. CASE delete(c) \/ AcquireLock(c)
    BY <2>2, DeleteKeeps, AcquireLockKeeps
  <2>3. CASE \E v \in Contents : PutPg(c, v)
    BY <2>3, PgKeeps
  <2>4. CASE ReadMeta(c) \/ \E fails \in BOOLEAN : ReadBody(c, fails)
    BY <2>4, ReadMetaKeeps, ReadBodyKeeps
  <2>5. CASE \E o \in Outcomes : WriteBody(c, o) \/ WriteMeta(c, o)
    BY <2>5, WriteBodyKeeps, WriteMetaKeeps
  <2>6. CASE GiveUp(c) \/ Dropped(c) \/ MetaFailed(c)
    BY <2>6, GiveUpKeeps, DroppedKeeps, MetaFailedKeeps
  <2>7. CASE \E fails \in BOOLEAN : \/ recover_body_only_partial_write(c, fails)
                                    \/ reconcile_external_write(c, fails)
    BY <2>7, RecoverKeeps, ReconcileKeeps
  <2>8. CASE LockedMeta(c) \/ LockedBody(c) \/ \E o \in Outcomes : LockedWrite(c, o)
    BY <2>8, LockedMetaKeeps, LockedBodyKeeps, LockedWriteKeeps
  <2>9. CASE FtpMeta(c) \/ FtpBody(c) \/ \E o \in Outcomes : FtpDelete(c, o) \/ FtpWriteMeta(c, o) \/ FtpWrite(c, o)
    BY <2>9, FtpMetaKeeps, FtpBodyKeeps, FtpDeleteKeeps, FtpWriteMetaKeeps, FtpWriteKeeps
  <2>10. CASE \E o \in Outcomes : DeleteBody(c, o) \/ DeleteMeta(c, o)
    BY <2>10, DeleteBodyKeeps, DeleteMetaKeeps
  <2> QED
    BY <1>1, <2>1, <2>2, <2>3, <2>4, <2>5, <2>6, <2>7, <2>8, <2>9, <2>10 DEF Step
<1>2. CASE DeletePg
  BY <1>2, PgKeeps
<1>3. CASE \E w \in late : Land(w)
  BY <1>3, LandKeeps
<1>4. CASE UNCHANGED vars
  <2>1. TypeOK' <=> TypeOK
    BY <1>4 DEF vars, TypeOK, CallTyped
  <2>2. LockExact' /\ StrayExact' /\ PhaseExact' <=> LockExact /\ StrayExact /\ PhaseExact
    BY <1>4 DEF vars, LockExact, StrayExact, Remote, PhaseExact, Locked
  <2>3. ViewExact' <=> ViewExact
    BY <1>4 DEF vars, ViewExact, Alone, Sure, StillSo, FoundNone, Locked
  <2>4. PairAgrees' /\ DeletedIsGone' /\ AckedStored' <=> PairAgrees /\ DeletedIsGone /\ AckedStored
    BY <1>4 DEF vars, PairAgrees, DeletedIsGone, AckedStored
  <2> QED
    BY <2>1, <2>2, <2>3, <2>4, Parts, PartsNext
<1> QED
  BY <1>1, <1>2, <1>3, <1>4 DEF Next

\* Between any two backend calls, whatever failed: no error path keeps a lock, a
\* deletion that was alone with its key is complete and, until a request that was
\* given up lands without a condition, body and sidecar agree where writes are
\* unconditional and what a writer has seen and relies on is still so.
THEOREM StoreInvariant == Spec => []BlobInv
<1>1. StoreInv => BlobInv
  BY DEF StoreInv
<1> QED
  BY <1>1, StoreInit, StoreStep, PTL DEF Spec

\* A put that answered Ok can be read until somebody deletes the key, for every
\* backend and every number of clients and failed calls: on fs, object stores and
\* PostgreSQL whatever lands late, on WebDAV and FTP until a request that its caller
\* had given up lands and changes the key.
THEOREM AckedPutIsReadable == Spec => []OkIsReadable
<1>1. StoreInv => OkIsReadable
  BY DEF StoreInv
<1> QED
  BY <1>1, StoreInit, StoreStep, PTL DEF Spec

-----------------------------------------------------------------------------
(* Numbers and finite sets. *)

\* A set of numbers that is not empty has a least one.
LEMMA LeastOf ==
    ASSUME NEW S \in SUBSET Nat, S # {}
    PROVE  \E n \in S : \A m \in S : n <= m
<1> DEFINE R == {p \in Nat \X Nat : p[1] < p[2]}
<1>1. IsWellFoundedOn(R, Nat)
  BY NatLessThanWellFounded DEF OpToRel
<1> HIDE DEF R
<1>2. PICK n \in S : \A m \in S : ~(<<m, n>> \in R)
  BY <1>1, WFMin
<1>3. \A m \in S : ~(m < n)
  BY <1>2 DEF R
<1> QED
  BY <1>3

\* A bounded one has a greatest.
LEMMA GreatestOf ==
    ASSUME NEW S \in SUBSET Nat, S # {}, NEW k \in Nat, \A n \in S : n <= k
    PROVE  Max(S) \in S /\ \A m \in S : m <= Max(S)
<1> DEFINE T == {n \in Nat : \A m \in S : m <= n}
<1>1. k \in T /\ T \subseteq Nat
  OBVIOUS
<1>2. PICK n \in T : \A m \in T : n <= m
  BY <1>1, LeastOf
<1>3. n \in S
  <2>1. SUFFICES ASSUME n \notin S PROVE FALSE
    OBVIOUS
  <2>2. PICK m \in S : TRUE
    OBVIOUS
  <2>3. n - 1 \in Nat /\ \A x \in S : x <= n - 1
    BY <2>1, <2>2
  <2> QED
    BY <2>3, <1>2
<1> QED
  BY <1>3 DEF Max

LEMMA MinOf ==
    ASSUME NEW S \in SUBSET Nat, S # {}
    PROVE  Min(S) \in S
  BY LeastOf DEF Min

-----------------------------------------------------------------------------
(* The bytes of rows. *)

LEMMA PlacesFinite ==
    ASSUME NEW t \in Tables, NEW b \in Rows(t)
    PROVE  /\ IsFiniteSet(PlacesOf(t, b))
           /\ Cardinality(PlacesOf(t, b)) = BodySize[t.blob[b]]
           /\ BodySize[t.blob[b]] \in Nat
<1>1. t.blob[b] \in Bodies
  BY DEF Tables, Rows
<1>2. BodySize[t.blob[b]] \in Nat \ {0}
  BY <1>1, CacheConstants
<1> DEFINE n == BodySize[t.blob[b]]
<1>0. n \in Nat \ {0}
  BY <1>2
<1> HIDE DEF n
<1>3. IsFiniteSet(1 .. n) /\ Cardinality(1 .. n) = n
  <2>1. n \in Int /\ 1 \in Int /\ ~(1 > n) /\ n - 1 + 1 = n
    BY <1>0
  <2> QED
    BY <2>1, FS_Interval
<1>4. IsFiniteSet({b}) /\ Cardinality({b}) = 1
  BY FS_Singleton
<1>5. IsFiniteSet({b} \X (1 .. n)) /\ Cardinality({b} \X (1 .. n)) = 1 * n
  BY <1>3, <1>4, FS_Product
<1>6. n \in Nat
  BY <1>2 DEF n
<1>7. 1 * n = n
  BY <1>6
<1> QED
  BY <1>5, <1>6, <1>7 DEF PlacesOf, n

AllPlaces(t, S) == UNION {PlacesOf(t, b) : b \in S}

LEMMA AllPlacesFinite ==
    ASSUME NEW t \in Tables, NEW S \in SUBSET Rows(t)
    PROVE  /\ IsFiniteSet(AllPlaces(t, S))
           /\ Bytes(t, S) = Cardinality(AllPlaces(t, S))
           /\ Bytes(t, S) \in Nat
<1> DEFINE T == {PlacesOf(t, b) : b \in S}
           f == [b \in S |-> PlacesOf(t, b)]
<1>1. IsFiniteSet(S)
  BY CacheConstants, FS_Subset DEF Rows
<1>2. f \in Surjection(S, T)
  BY DEF Surjection
<1>3. IsFiniteSet(T)
  BY <1>1, <1>2, FS_Surjection
<1>4. \A x \in T : IsFiniteSet(x)
  BY PlacesFinite
<1>5. IsFiniteSet(UNION T)
  BY <1>3, <1>4, FS_UNION
<1> QED
  BY <1>5, FS_CardinalityType DEF AllPlaces, Bytes

\* Fewer rows, no more bytes.
LEMMA BytesMonotone ==
    ASSUME NEW t \in Tables, NEW S \in SUBSET Rows(t), NEW T \in SUBSET S
    PROVE  Bytes(t, T) <= Bytes(t, S) /\ Bytes(t, T) \in Nat /\ Bytes(t, S) \in Nat
<1>1. AllPlaces(t, T) \subseteq AllPlaces(t, S)
  BY DEF AllPlaces
<1>2. IsFiniteSet(AllPlaces(t, S))
  BY AllPlacesFinite
<1>3. Cardinality(AllPlaces(t, T)) <= Cardinality(AllPlaces(t, S))
  BY <1>1, <1>2, FS_Subset
<1>4. T \in SUBSET Rows(t)
  OBVIOUS
<1> QED
  BY <1>3, <1>4, AllPlacesFinite

\* Rows together have no more bytes than apart.
LEMMA BytesSum ==
    ASSUME NEW t \in Tables, NEW S \in SUBSET Rows(t), NEW T \in SUBSET Rows(t)
    PROVE  Bytes(t, S \cup T) <= Bytes(t, S) + Bytes(t, T)
<1>1. AllPlaces(t, S \cup T) = AllPlaces(t, S) \cup AllPlaces(t, T)
  BY DEF AllPlaces
<1>2. IsFiniteSet(AllPlaces(t, S)) /\ IsFiniteSet(AllPlaces(t, T))
  BY AllPlacesFinite
<1> DEFINE A == AllPlaces(t, S)
           B == AllPlaces(t, T)
<1>3. /\ Cardinality(A \cup B) = Cardinality(A) + Cardinality(B) - Cardinality(A \cap B)
  BY <1>2, FS_Union
<1>4. Cardinality(A \cap B) \in Nat /\ Cardinality(A) \in Nat /\ Cardinality(B) \in Nat
  BY <1>2, FS_Intersection, FS_CardinalityType
<1>5. S \cup T \in SUBSET Rows(t)
  OBVIOUS
<1>6. /\ Bytes(t, S \cup T) = Cardinality(A \cup B) /\ Bytes(t, S) = Cardinality(A)
      /\ Bytes(t, T) = Cardinality(B)
  BY <1>1, <1>5, AllPlacesFinite
<1> HIDE DEF A, B
<1> QED
  BY <1>3, <1>4, <1>6

LEMMA BytesOfOne ==
    ASSUME NEW t \in Tables, NEW b \in Rows(t)
    PROVE  Bytes(t, {b}) = BodySize[t.blob[b]]
<1>1. UNION {PlacesOf(t, x) : x \in {b}} = PlacesOf(t, b)
  OBVIOUS
<1> QED
  BY <1>1, PlacesFinite DEF Bytes

LEMMA BytesOfNone ==
    ASSUME NEW t PROVE Bytes(t, {}) = 0
<1>1. UNION {PlacesOf(t, x) : x \in {}} = {}
  OBVIOUS
<1> QED
  BY <1>1, FS_EmptySet DEF Bytes

\* Tables that agree on some rows count the same bytes for them.
LEMMA BytesAgree ==
    ASSUME NEW t, NEW u, NEW S, \A b \in S : t.blob[b] = u.blob[b]
    PROVE  Bytes(t, S) = Bytes(u, S)
<1>1. {PlacesOf(t, b) : b \in S} = {PlacesOf(u, b) : b \in S}
  BY DEF PlacesOf
<1> QED
  BY <1>1 DEF Bytes
-----------------------------------------------------------------------------
(* What a statement does to a table state. *)

LEMMA NamesOK == /\ NoBlob \notin BlobIds /\ BlobIds \subseteq Nat /\ "none" \notin Bodies
                 /\ IsFiniteSet(BlobIds)
  BY CacheConstants DEF NoBlob

LEMMA TouchOK ==
    ASSUME NEW t, WellFormed(t), NEW b \in Rows(t)
    PROVE  /\ WellFormed(Touch(t, b)) /\ Rows(Touch(t, b)) = Rows(t)
           /\ Touch(t, b).blob = t.blob /\ Touch(t, b).rec = t.rec /\ Touch(t, b).link = t.link
           /\ Touch(t, b).delq = t.delq /\ Touch(t, b).clnq = t.clnq
<1> DEFINE new == {p \in t.older : p[1] # b} \cup ((Rows(t) \ {b}) \X {b})
           u == Touch(t, b)
<1>1. t \in Tables /\ t.older \subseteq Rows(t) \X Rows(t) /\ Rows(t) \subseteq BlobIds
  BY DEF WellFormed, Rows
<1>2. /\ u \in Tables /\ u.older = new /\ u.blob = t.blob /\ u.rec = t.rec /\ u.link = t.link
      /\ u.delq = t.delq /\ u.clnq = t.clnq
  <2>1. new \subseteq BlobIds \X BlobIds
    BY <1>1
  <2> HIDE DEF new
  <2>2. u = [t EXCEPT !.older = new]
    BY DEF Touch, new
  <2> QED
    BY <1>1, <2>1, <2>2 DEF Tables
<1>3. Rows(u) = Rows(t)
  BY <1>2 DEF Rows
<1> HIDE DEF u
<1>4. new \subseteq Rows(t) \X Rows(t)
  BY <1>1
<1>5. \A x, y \in Rows(t) : <<x, y>> \in new <=> (x # b /\ (<<x, y>> \in t.older \/ y = b))
  BY <1>1
<1> HIDE DEF new
<1>6. \A x, y \in Rows(t) : <<x, y>> \in new <=> x # y /\ <<y, x>> \notin new
  BY <1>5 DEF WellFormed
<1>7. \A x, y, z \in Rows(t) : <<x, y>> \in new /\ <<y, z>> \in new => <<x, z>> \in new
  BY <1>5 DEF WellFormed
<1> QED
  BY <1>2, <1>3, <1>4, <1>6, <1>7 DEF WellFormed, u

LEMMA MarkOK ==
    ASSUME NEW t, WellFormed(t), NEW S \in SUBSET BlobIds
    PROVE  LET u == MarkMissing(t, S) IN
           /\ WellFormed(u) /\ Rows(u) = Rows(t)
           /\ u.blob = t.blob /\ u.older = t.older /\ u.link = t.link
           /\ u.delq = t.delq /\ u.clnq = t.clnq
           /\ \A r \in Records :
                 /\ u.rec[r].blob = t.rec[r].blob
                 /\ u.rec[r].st = IF t.rec[r].blob \in S /\ t.rec[r].st = "available"
                                  THEN "missing" ELSE t.rec[r].st
                 /\ u.rec[r] # NoRec <=> t.rec[r] # NoRec
<1> DEFINE new == [r \in Records |-> IF t.rec[r].blob \in S /\ t.rec[r].st = "available"
                                     THEN [t.rec[r] EXCEPT !.st = "missing"] ELSE t.rec[r]]
           u == MarkMissing(t, S)
           Rec == [blob : BlobIds \cup {NoBlob}, st : {"none", "available", "missing"}]
<1>1. t \in Tables
  BY DEF WellFormed
<1>2. \A r \in Records : t.rec[r] \in Rec
  BY <1>1 DEF Tables
<1>3. \A r \in Records : /\ new[r] \in Rec /\ new[r].blob = t.rec[r].blob
                         /\ new[r].st = IF t.rec[r].blob \in S /\ t.rec[r].st = "available"
                                        THEN "missing" ELSE t.rec[r].st
                         /\ new[r] # NoRec <=> t.rec[r] # NoRec
  <2> TAKE r \in Records
  <2>1. CASE t.rec[r].blob \in S /\ t.rec[r].st = "available"
    <3>1. new[r] = [t.rec[r] EXCEPT !.st = "missing"]
      BY <2>1
    <3>2. new[r].st = "missing" /\ new[r].blob = t.rec[r].blob /\ new[r] \in Rec
      BY <3>1, <1>2
    <3>3. new[r] # NoRec /\ t.rec[r] # NoRec
      BY <3>2, <2>1 DEF NoRec
    <3> QED
      BY <3>2, <3>3, <2>1
  <2>2. CASE ~(t.rec[r].blob \in S /\ t.rec[r].st = "available")
    <3>1. new[r] = t.rec[r]
      BY <2>2
    <3> QED
      BY <3>1, <2>2, <1>2
  <2> QED
    BY <2>1, <2>2
<1>4. new \in [Records -> Rec]
  BY <1>3
<1>5. u = [t EXCEPT !.rec = new]
  BY DEF MarkMissing
<1> HIDE DEF new, u, Rec
<1>6. /\ u \in Tables /\ u.rec = new /\ u.blob = t.blob /\ u.older = t.older /\ u.link = t.link
      /\ u.delq = t.delq /\ u.clnq = t.clnq
  BY <1>1, <1>4, <1>5 DEF Tables, Rec
<1>7. Rows(u) = Rows(t)
  BY <1>6 DEF Rows
<1>8. \A r \in Records : u.rec[r] # NoRec => u.rec[r].st # "none" /\ u.rec[r].blob \in Rows(u)
  BY <1>3, <1>6, <1>7 DEF WellFormed
<1>9. \A p \in u.link : u.rec[p[2]] # NoRec
  <2> TAKE p \in u.link
  <2>1. p[2] \in Records /\ t.rec[p[2]] # NoRec
    BY <1>1, <1>6 DEF WellFormed, Tables
  <2> QED
    BY <2>1, <1>3, <1>6
<1>10. WellFormed(u)
  BY <1>6, <1>7, <1>8, <1>9 DEF WellFormed
<1> QED
  BY <1>3, <1>6, <1>7, <1>10 DEF u

LEMMA InsertOK ==
    ASSUME NEW t, WellFormed(t), NEW b \in BlobIds, b \notin Rows(t), NEW c \in Bodies
    PROVE  LET u == InsertRow(t, b, c) IN
           /\ WellFormed(u) /\ Rows(u) = Rows(t) \cup {b} /\ u.blob[b] = c
           /\ \A x \in Rows(t) : u.blob[x] = t.blob[x]
           /\ u.rec = t.rec /\ u.link = t.link /\ u.delq = t.delq /\ u.clnq = t.clnq
<1> DEFINE new == t.older \cup (Rows(t) \X {b})
           rows == [t.blob EXCEPT ![b] = c]
           u == InsertRow(t, b, c)
<1>1. t \in Tables /\ t.older \subseteq Rows(t) \X Rows(t) /\ Rows(t) \subseteq BlobIds
  BY DEF WellFormed, Rows
<1>2. new \subseteq BlobIds \X BlobIds
  BY <1>1
<1>3. /\ rows \in [BlobIds -> Bodies \cup {"none"}] /\ rows[b] = c
      /\ \A x \in BlobIds \ {b} : rows[x] = t.blob[x]
  BY <1>1 DEF Tables
<1>4. u = [t EXCEPT !.blob = rows, !.older = new]
  BY <1>1 DEF InsertRow, Tables
<1>5. \A x, y \in Rows(t) \cup {b} :
         <<x, y>> \in new <=> (<<x, y>> \in t.older \/ (x # b /\ y = b))
  BY <1>1
<1>6. new \subseteq (Rows(t) \cup {b}) \X (Rows(t) \cup {b})
  BY <1>1
<1> HIDE DEF new, rows, u
<1>7. /\ u \in Tables /\ u.rec = t.rec /\ u.blob = rows /\ u.older = new /\ u.link = t.link
      /\ u.delq = t.delq /\ u.clnq = t.clnq
  BY <1>1, <1>2, <1>3, <1>4 DEF Tables
<1>8. Rows(u) = Rows(t) \cup {b}
  BY <1>1, <1>3, <1>7, CacheConstants DEF Rows
<1>9. \A x, y \in Rows(u) : <<x, y>> \in new <=> x # y /\ <<y, x>> \notin new
  <2> TAKE x, y \in Rows(u)
  <2>1. \A z \in Rows(u) : <<z, b>> \notin t.older /\ <<b, z>> \notin t.older
    BY <1>1
  <2>2. x # b /\ y # b => (<<x, y>> \in t.older <=> x # y /\ <<y, x>> \notin t.older)
    BY <1>8 DEF WellFormed
  <2> QED
    BY <2>1, <2>2, <1>5, <1>8
<1>10. \A x, y, z \in Rows(u) : <<x, y>> \in new /\ <<y, z>> \in new => <<x, z>> \in new
  <2> TAKE x, y, z \in Rows(u)
  <2>1. \A w \in Rows(u) : <<w, b>> \notin t.older /\ <<b, w>> \notin t.older
    BY <1>1
  <2>2. x # b /\ y # b /\ z # b /\ <<x, y>> \in t.older /\ <<y, z>> \in t.older => <<x, z>> \in t.older
    BY <1>8 DEF WellFormed
  <2> QED
    BY <2>1, <2>2, <1>5, <1>8
<1>11. WellFormed(u)
  BY <1>6, <1>7, <1>8, <1>9, <1>10 DEF WellFormed
<1> QED
  BY <1>1, <1>3, <1>7, <1>8, <1>11 DEF u

\* A record gets its bytes.
LEMMA RecordOK ==
    ASSUME NEW t, WellFormed(t), NEW b \in Rows(t), NEW r \in Records
    PROVE  LET u == [t EXCEPT !.rec[r] = [blob |-> b, st |-> "available"]] IN
           /\ WellFormed(u) /\ Rows(u) = Rows(t)
           /\ u.blob = t.blob /\ u.older = t.older /\ u.link = t.link
           /\ u.delq = t.delq /\ u.clnq = t.clnq
           /\ u.rec[r] = [blob |-> b, st |-> "available"] /\ u.rec[r] # NoRec
           /\ \A q \in Records \ {r} : u.rec[q] = t.rec[q]
<1> DEFINE new == [t.rec EXCEPT ![r] = [blob |-> b, st |-> "available"]]
           u == [t EXCEPT !.rec[r] = [blob |-> b, st |-> "available"]]
           Rec == [blob : BlobIds \cup {NoBlob}, st : {"none", "available", "missing"}]
<1>1. t \in Tables /\ Rows(t) \subseteq BlobIds
  BY DEF WellFormed, Rows
<1>2. t.rec \in [Records -> Rec]
  BY <1>1 DEF Tables
<1>3. [blob |-> b, st |-> "available"] \in Rec /\ [blob |-> b, st |-> "available"] # NoRec
  BY <1>1 DEF NoRec
<1> HIDE DEF Rec
<1>4. /\ new \in [Records -> Rec] /\ new[r] = [blob |-> b, st |-> "available"]
      /\ \A q \in Records \ {r} : new[q] = t.rec[q]
  BY <1>2, <1>3
<1>5. u = [t EXCEPT !.rec = new]
  BY <1>1, <1>2 DEF Tables
<1> HIDE DEF new, u
<1>6. /\ u \in Tables /\ u.rec = new /\ u.blob = t.blob /\ u.older = t.older /\ u.link = t.link
      /\ u.delq = t.delq /\ u.clnq = t.clnq
  BY <1>1, <1>4, <1>5 DEF Tables, Rec
<1>7. Rows(u) = Rows(t)
  BY <1>6 DEF Rows
<1>8. \A q \in Records : u.rec[q] # NoRec => u.rec[q].st # "none" /\ u.rec[q].blob \in Rows(u)
  <2> TAKE q \in Records
  <2>1. CASE q = r
    BY <2>1, <1>4, <1>6, <1>7
  <2>2. CASE q # r
    BY <2>2, <1>4, <1>6, <1>7 DEF WellFormed
  <2> QED
    BY <2>1, <2>2
<1>9. \A p \in u.link : u.rec[p[2]] # NoRec
  <2> TAKE p \in u.link
  <2>1. p[2] \in Records /\ t.rec[p[2]] # NoRec
    BY <1>1, <1>6 DEF WellFormed, Tables
  <2> QED
    BY <2>1, <1>3, <1>4, <1>6
<1>10. WellFormed(u)
  BY <1>6, <1>7, <1>8, <1>9 DEF WellFormed
<1> QED
  BY <1>3, <1>4, <1>6, <1>7, <1>10 DEF u

\* The relations of an article come and go; queues change nothing else.
LEMMA LinksOK ==
    ASSUME NEW t, WellFormed(t), NEW L \in SUBSET (Articles \X Records),
           \A p \in L : t.rec[p[2]] # NoRec
    PROVE  LET u == [t EXCEPT !.link = L] IN
           /\ WellFormed(u) /\ Rows(u) = Rows(t) /\ u.link = L
           /\ u.blob = t.blob /\ u.older = t.older /\ u.rec = t.rec
           /\ u.delq = t.delq /\ u.clnq = t.clnq
<1> DEFINE u == [t EXCEPT !.link = L]
<1>1. /\ u \in Tables /\ u.link = L /\ u.blob = t.blob /\ u.older = t.older /\ u.rec = t.rec
      /\ u.delq = t.delq /\ u.clnq = t.clnq
  BY DEF WellFormed, Tables
<1> HIDE DEF u
<1>2. Rows(u) = Rows(t)
  BY <1>1 DEF Rows
<1>3. WellFormed(u)
  BY <1>1, <1>2 DEF WellFormed
<1> QED
  BY <1>1, <1>2, <1>3 DEF u

\* What a table state has besides relations and queues.
SameRows(t, u) == u.blob = t.blob /\ u.older = t.older /\ u.rec = t.rec

LEMMA QueuesOnly ==
    ASSUME NEW t, WellFormed(t), NEW u \in Tables, SameRows(t, u), u.link = t.link
    PROVE  WellFormed(u) /\ Rows(u) = Rows(t)
<1>1. Rows(u) = Rows(t)
  BY DEF SameRows, Rows
<1> QED
  BY <1>1 DEF WellFormed, SameRows

LEMMA QueueCleanups ==
    ASSUME NEW t, WellFormed(t), NEW S \in SUBSET BlobIds, NEW u, u = [t EXCEPT !.clnq = @ \cup S]
    PROVE  /\ WellFormed(u) /\ Rows(u) = Rows(t) /\ SameRows(t, u)
           /\ u.link = t.link /\ u.clnq = t.clnq \cup S /\ u.delq = t.delq
<1>1. u \in Tables /\ SameRows(t, u) /\ u.link = t.link /\ u.clnq = t.clnq \cup S /\ u.delq = t.delq
  BY DEF WellFormed, Tables, SameRows
<1> QED
  BY <1>1, QueuesOnly

LEMMA QueueEvictions ==
    ASSUME NEW t, WellFormed(t), NEW S \in SUBSET BlobIds, NEW u, u = [t EXCEPT !.delq = @ \cup S]
    PROVE  /\ WellFormed(u) /\ Rows(u) = Rows(t) /\ SameRows(t, u)
           /\ u.link = t.link /\ u.delq = t.delq \cup S /\ u.clnq = t.clnq
<1>1. u \in Tables /\ SameRows(t, u) /\ u.link = t.link /\ u.delq = t.delq \cup S /\ u.clnq = t.clnq
  BY DEF WellFormed, Tables, SameRows
<1> QED
  BY <1>1, QueuesOnly

LEMMA NoEvictions ==
    ASSUME NEW t, WellFormed(t), NEW u, u = [t EXCEPT !.delq = {}]
    PROVE  /\ WellFormed(u) /\ Rows(u) = Rows(t) /\ SameRows(t, u)
           /\ u.link = t.link /\ u.delq = {} /\ u.clnq = t.clnq
<1>1. u \in Tables /\ SameRows(t, u) /\ u.link = t.link /\ u.delq = {} /\ u.clnq = t.clnq
  BY DEF WellFormed, Tables, SameRows
<1> QED
  BY <1>1, QueuesOnly

LEMMA NoCleanups ==
    ASSUME NEW t, WellFormed(t), NEW u, u = [t EXCEPT !.clnq = {}]
    PROVE  /\ WellFormed(u) /\ Rows(u) = Rows(t) /\ SameRows(t, u)
           /\ u.link = t.link /\ u.clnq = {} /\ u.delq = t.delq
<1>1. u \in Tables /\ SameRows(t, u) /\ u.link = t.link /\ u.clnq = {} /\ u.delq = t.delq
  BY DEF WellFormed, Tables, SameRows
<1> QED
  BY <1>1, QueuesOnly

\* Orphans: a row that a related record points at is never among the dead.
LEMMA OrphansOK ==
    ASSUME NEW t, WellFormed(t), NEW repaired
    PROVE  LET u == DeleteOrphans(t, repaired).t
               dead == DeleteOrphans(t, repaired).dead IN
           /\ WellFormed(u) /\ dead \subseteq Rows(t) /\ Rows(u) = Rows(t) \ dead
           /\ \A b \in Rows(u) : u.blob[b] = t.blob[b]
           /\ u.link = t.link /\ u.delq = t.delq /\ u.clnq = t.clnq
           /\ \A r \in Records : u.rec[r] \in {t.rec[r], NoRec} /\ u.rec[r].blob \notin dead
           /\ \A r \in Records : Linked(t, r) => t.rec[r].blob \notin dead
<1> DEFINE rec == [r \in Records |-> IF r \in repaired \/ \E a \in Articles : <<a, r>> \in t.link
                                    THEN t.rec[r] ELSE NoRec]
           t1 == [t EXCEPT !.rec = rec]
           dead == {b \in Rows(t1) : \A r \in Records : t1.rec[r].blob # b}
           rows == [b \in BlobIds |-> IF b \in dead THEN "none" ELSE t.blob[b]]
           older == {p \in t.older : p[1] \notin dead /\ p[2] \notin dead}
           u == [t1 EXCEPT !.blob = rows, !.older = older]
           Rec == [blob : BlobIds \cup {NoBlob}, st : {"none", "available", "missing"}]
<1>1. t \in Tables
  BY DEF WellFormed
<1>2. rec \in [Records -> Rec] /\ NoRec \in Rec
  <2>1. NoRec \in Rec
    BY DEF NoRec
  <2>2. t.rec \in [Records -> Rec]
    BY <1>1 DEF Tables
  <2> HIDE DEF Rec
  <2> QED
    BY <2>1, <2>2
<1>3. /\ t1 \in Tables /\ t1.rec = rec /\ t1.blob = t.blob /\ t1.older = t.older
      /\ t1.link = t.link /\ t1.delq = t.delq /\ t1.clnq = t.clnq
  <2> HIDE DEF rec
  <2> QED
    BY <1>1, <1>2 DEF Tables
<1>4. Rows(t1) = Rows(t)
  BY <1>3 DEF Rows
<1>5. DeleteOrphans(t, repaired).dead = dead /\ DeleteOrphans(t, repaired).t = u
  <2>1. DeleteOrphans(t, repaired) =
           [t |-> [t1 EXCEPT !.blob = [b \in BlobIds |-> IF b \in dead THEN "none" ELSE @[b]],
                             !.older = {p \in @ : p[1] \notin dead /\ p[2] \notin dead}],
            dead |-> dead]
    BY DEF DeleteOrphans
  <2>2. [t1 EXCEPT !.blob = [b \in BlobIds |-> IF b \in dead THEN "none" ELSE @[b]],
                   !.older = {p \in @ : p[1] \notin dead /\ p[2] \notin dead}] = u
    BY <1>3
  <2> HIDE DEF dead, u, t1
  <2> QED
    BY <2>1, <2>2
<1>6. dead \subseteq Rows(t) /\ dead = {b \in Rows(t) : \A r \in Records : rec[r].blob # b}
  BY <1>3, <1>4
<1> HIDE DEF dead, t1
<1>7. rows \in [BlobIds -> Bodies \cup {"none"}] /\ older \subseteq BlobIds \X BlobIds
  BY <1>1 DEF Tables
<1>8. /\ u \in Tables /\ u.rec = rec /\ u.blob = rows /\ u.older = older
      /\ u.link = t.link /\ u.delq = t.delq /\ u.clnq = t.clnq
  <2> HIDE DEF rows, older, rec
  <2> QED
    BY <1>3, <1>7 DEF Tables
<1> HIDE DEF u
<1>9. Rows(u) = Rows(t) \ dead /\ \A b \in Rows(u) : u.blob[b] = t.blob[b]
  BY <1>8 DEF Rows
<1>10. \A b, c \in Rows(u) : <<b, c>> \in older <=> <<b, c>> \in t.older
  BY <1>9
<1>11. older \subseteq Rows(u) \X Rows(u)
  BY <1>9 DEF WellFormed
<1> HIDE DEF older
<1>12. \A b, c \in Rows(u) : <<b, c>> \in u.older <=> b # c /\ <<c, b>> \notin u.older
  BY <1>8, <1>9, <1>10 DEF WellFormed
<1>13. \A b, c, d \in Rows(u) : <<b, c>> \in u.older /\ <<c, d>> \in u.older => <<b, d>> \in u.older
  BY <1>8, <1>9, <1>10 DEF WellFormed
<1>14. \A r \in Records : u.rec[r] # NoRec =>
          u.rec[r] = t.rec[r] /\ u.rec[r].st # "none" /\ u.rec[r].blob \in Rows(u)
  <2> TAKE r \in Records
  <2> HAVE u.rec[r] # NoRec
  <2>1. u.rec[r] = t.rec[r]
    BY <1>8
  <2>2. t.rec[r].st # "none" /\ t.rec[r].blob \in Rows(t)
    BY <2>1 DEF WellFormed
  <2>3. t.rec[r].blob \notin dead
    BY <1>6, <1>8, <2>1
  <2> QED
    BY <2>1, <2>2, <2>3, <1>9
<1>15. \A p \in u.link : u.rec[p[2]] # NoRec
  <2> TAKE p \in u.link
  <2>1. p \in Articles \X Records /\ t.rec[p[2]] # NoRec
    BY <1>1, <1>8 DEF WellFormed, Tables
  <2>2. p[2] \in Records /\ p[1] \in Articles /\ <<p[1], p[2]>> \in t.link
    BY <2>1, <1>8
  <2>3. rec[p[2]] = t.rec[p[2]]
    BY <2>2
  <2> QED
    BY <2>1, <2>3, <1>8
<1>16. WellFormed(u)
  BY <1>8, <1>11, <1>12, <1>13, <1>14, <1>15 DEF WellFormed
<1>17. \A r \in Records : u.rec[r] \in {t.rec[r], NoRec} /\ u.rec[r].blob \notin dead
  <2> TAKE r \in Records
  <2>1. u.rec[r] \in {t.rec[r], NoRec}
    BY <1>8
  <2> QED
    BY <2>1, <1>6, <1>8
<1>18. \A r \in Records : Linked(t, r) => t.rec[r].blob \notin dead
  <2> TAKE r \in Records
  <2> HAVE Linked(t, r)
  <2>1. rec[r] = t.rec[r]
    BY DEF Linked
  <2> QED
    BY <2>1, <1>6
<1> QED
  BY <1>5, <1>6, <1>8, <1>9, <1>16, <1>17, <1>18

-----------------------------------------------------------------------------
(* The capacity decision. *)

\* A fresh identifier.
LEMMA NewBlobOK ==
    ASSUME NEW t, RoomForBlob(t)
    PROVE  /\ NewBlobId(t) \in BlobIds
           /\ NewBlobId(t) \notin Rows(t) \cup obj \cup t.clnq \cup t.delq \cup tasks
<1> DEFINE P(b) == b \in Unused(t)
<1>1. \E b \in BlobIds : P(b)
  BY DEF RoomForBlob
<1> HIDE DEF P
<1>2. (CHOOSE b \in BlobIds : P(b)) \in BlobIds /\ P(CHOOSE b \in BlobIds : P(b))
  BY <1>1
<1> QED
  BY <1>2 DEF NewBlobId, P, Unused

\* Of two runs of oldest rows one holds the other.
LEMMA RunsNest ==
    ASSUME NEW t, WellFormed(t), NEW G, NEW V \in oldest_stored(t, G), NEW W \in oldest_stored(t, G)
    PROVE  V \subseteq W \/ W \subseteq V
<1> SUFFICES ASSUME NEW v \in V, v \notin W, NEW w \in W, w \notin V PROVE FALSE
  OBVIOUS
<1>1. v \in (Rows(t) \cap obj) \ G /\ w \in (Rows(t) \cap obj) \ G /\ v # w
  BY DEF oldest_stored
<1>2. <<v, w>> \in t.older \/ <<w, v>> \in t.older
  BY <1>1 DEF WellFormed
<1> QED
  BY <1>1, <1>2 DEF oldest_stored

\* Among some runs there is one that all others hold.
LEMMA ShortestRun ==
    ASSUME NEW t, WellFormed(t), NEW G, NEW E \in SUBSET oldest_stored(t, G), E # {}
    PROVE  \E V \in E : \A W \in E : V \subseteq W
<1>1. \A V \in E : IsFiniteSet(V) /\ Cardinality(V) \in Nat
  <2> TAKE V \in E
  <2>1. V \subseteq BlobIds
    BY DEF oldest_stored, Rows
  <2> QED
    BY <2>1, NamesOK, FS_Subset, FS_CardinalityType
<1> DEFINE N == {Cardinality(V) : V \in E}
<1>2. PICK n \in N : \A m \in N : n <= m
  <2>1. N \in SUBSET Nat /\ N # {}
    BY <1>1
  <2> HIDE DEF N
  <2> QED
    BY <2>1, LeastOf
<1>3. PICK V \in E : Cardinality(V) = n
  BY <1>2
<1>4. \A W \in E : V \subseteq W
  <2> SUFFICES ASSUME NEW W \in E PROVE V \subseteq W
    OBVIOUS
  <2>1. V \subseteq W \/ W \subseteq V
    BY RunsNest
  <2>2. CASE W \subseteq V
    <3>1. Cardinality(V) <= Cardinality(W)
      BY <1>2, <1>3
    <3>2. Cardinality(W) <= Cardinality(V) /\ (Cardinality(V) = Cardinality(W) => V = W)
      BY <2>2, <1>1, FS_Subset
    <3>3. Cardinality(V) = Cardinality(W)
      BY <3>1, <3>2, <1>1
    <3> QED
      BY <3>2, <3>3
  <2> QED
    BY <2>1, <2>2
<1> QED
  BY <1>4

\* A decision evicts stored rows that nobody protects, and makes room.
LimitFields(t, pend, deferred, protected, add, cap) ==
    /\ cap.ok \in BOOLEAN
    /\ cap.evict \subseteq (Rows(t) \cap obj) \ (protected \cup deferred)
    /\ MaxBytes # 0 /\ cap.ok => Fits(t, pend, deferred \cup cap.evict, add)

LEMMA LimitOK ==
    ASSUME NEW t, WellFormed(t), NEW pend, NEW deferred, NEW protected, NEW add
    PROVE  LimitFields(t, pend, deferred, protected, add,
                       enforce_cache_limit(t, pend, deferred, protected, add))
<1> DEFINE cap == enforce_cache_limit(t, pend, deferred, protected, add)
           G == protected \cup deferred
           enough == {V \in oldest_stored(t, G) : Fits(t, pend, deferred \cup V, add)}
           V0 == CHOOSE V \in enough : \A W \in enough : V \subseteq W
<1> SUFFICES /\ cap.ok \in BOOLEAN
             /\ cap.evict \subseteq (Rows(t) \cap obj) \ (protected \cup deferred)
             /\ MaxBytes # 0 /\ cap.ok => Fits(t, pend, deferred \cup cap.evict, add)
  <2> HIDE DEF enough, V0
  <2> QED
    BY DEF LimitFields
<1>1. CASE MaxBytes = 0 \/ add > MaxBytes \/ enough = {}
  <2>1. cap.evict = {} /\ cap.ok \in BOOLEAN /\ (MaxBytes # 0 => ~cap.ok)
    BY <1>1 DEF enforce_cache_limit
  <2> QED
    BY <2>1
<1>2. CASE ~(MaxBytes = 0 \/ add > MaxBytes \/ enough = {})
  <2>1. cap = [ok |-> TRUE, evict |-> V0]
    BY <1>2 DEF enforce_cache_limit
  <2>2. enough \in SUBSET oldest_stored(t, G)
    OBVIOUS
  <2>3. V0 \in enough
    <3> HIDE DEF enough, G
    <3>1. \E V \in enough : \A W \in enough : V \subseteq W
      BY <1>2, <2>2, ShortestRun
    <3> QED
      BY <3>1
  <2>4. V0 \in oldest_stored(t, G) /\ Fits(t, pend, deferred \cup V0, add)
    BY <2>3
  <2>5. V0 \subseteq (Rows(t) \cap obj) \ G
    BY <2>4 DEF oldest_stored
  <2> HIDE DEF V0
  <2> QED
    BY <2>1, <2>4, <2>5
<1> HIDE DEF enough
<1> QED
  BY <1>1, <1>2

\* A maintenance pass can always make room: it may evict everything.
LEMMA MaintenanceFits ==
    ASSUME NEW t, WellFormed(t), MaxBytes # 0, NEW stale \in SUBSET BlobIds
    PROVE  enforce_cache_limit(t, {}, stale, {}, 0).ok
<1> DEFINE G == {} \cup stale
           V == (Rows(t) \cap obj) \ G
           enough == {X \in oldest_stored(t, G) : Fits(t, {}, stale \cup X, 0)}
<1>1. V \in oldest_stored(t, G)
  BY DEF oldest_stored
<1>2. (Rows(t) \cap obj) \ ({} \cup (stale \cup V)) = {} /\ {} \ (stale \cup V) = {}
  OBVIOUS
<1>3. MaxBytes \in Nat
  BY CacheConstants
<1>4. Fits(t, {}, stale \cup V, 0)
  <2> HIDE DEF V
  <2> QED
    BY <1>2, <1>3, BytesOfNone DEF Fits, cached_byte_size
<1>5. enough # {}
  BY <1>1, <1>4
<1>6. ~(0 > MaxBytes)
  BY <1>3
<1>7. ~(0 > MaxBytes \/ enough = {})
  BY <1>5, <1>6
<1> QED
  BY <1>7 DEF enforce_cache_limit

\* What room means: the rows that stay, with the new one, are within the limit.
LEMMA FitsMeans ==
    ASSUME NEW t \in Tables, NEW pend \in SUBSET Rows(t), NEW gone, NEW add \in Nat,
           Fits(t, pend, gone, add)
    PROVE  /\ Bytes(t, (Rows(t) \cap obj) \ gone) \in Nat
           /\ Bytes(t, (Rows(t) \cap obj) \ gone) + add <= MaxBytes
<1> DEFINE A == (Rows(t) \cap obj) \ (pend \cup gone)
           B == pend \ gone
           C == (Rows(t) \cap obj) \ gone
<1>1. A \in SUBSET Rows(t) /\ B \in SUBSET Rows(t) /\ A \cup B \in SUBSET Rows(t) /\ C \in SUBSET (A \cup B)
  OBVIOUS
<1>2. Bytes(t, A) + Bytes(t, B) + add <= MaxBytes
  BY DEF Fits, cached_byte_size
<1>3. MaxBytes \in Nat
  BY CacheConstants
<1> HIDE DEF A, B, C
<1>4. Bytes(t, A) \in Nat /\ Bytes(t, B) \in Nat
  BY <1>1, AllPlacesFinite
<1>5. Bytes(t, A \cup B) <= Bytes(t, A) + Bytes(t, B)
  BY <1>1, BytesSum
<1>6. Bytes(t, C) <= Bytes(t, A \cup B) /\ Bytes(t, C) \in Nat /\ Bytes(t, A \cup B) \in Nat
  BY <1>1, BytesMonotone
<1>7. Bytes(t, C) + add <= MaxBytes
  BY <1>2, <1>3, <1>4, <1>5, <1>6
<1> QED
  BY <1>6, <1>7 DEF C

\* A row is added to rows that leave room for it.
LEMMA RoomUsed ==
    ASSUME NEW t \in Tables, NEW u \in Tables, NEW S \in SUBSET Rows(t), NEW b \in Rows(u),
           S \subseteq Rows(u), \A x \in S : u.blob[x] = t.blob[x],
           Bytes(t, S) + BodySize[u.blob[b]] <= MaxBytes
    PROVE  \A T \in SUBSET (S \cup {b}) : Bytes(u, T) <= MaxBytes
<1> SUFFICES ASSUME NEW T \in SUBSET (S \cup {b}) PROVE Bytes(u, T) <= MaxBytes
  OBVIOUS
<1>1. S \in SUBSET Rows(u) /\ {b} \in SUBSET Rows(u) /\ S \cup {b} \in SUBSET Rows(u)
  OBVIOUS
<1>2. Bytes(u, T) <= Bytes(u, S \cup {b}) /\ Bytes(u, T) \in Nat /\ Bytes(u, S \cup {b}) \in Nat
  BY <1>1, BytesMonotone
<1>3. Bytes(u, S \cup {b}) <= Bytes(u, S) + Bytes(u, {b})
  BY <1>1, BytesSum
<1>4. Bytes(u, S) = Bytes(t, S)
  BY BytesAgree
<1>5. Bytes(u, {b}) = BodySize[u.blob[b]]
  BY BytesOfOne
<1>6. Bytes(u, S) \in Nat /\ Bytes(u, {b}) \in Nat /\ MaxBytes \in Nat
  BY <1>1, AllPlacesFinite, CacheConstants
<1> QED
  BY <1>2, <1>3, <1>4, <1>5, <1>6

-----------------------------------------------------------------------------
(* The inductive invariant: CacheInv, AvailableIsServed, and what the open  *)
(* transaction knows.                                                      *)

Inputs == [u : Urls, c : Bodies]
SomeIds == BlobIds \cup {NoBlob}

ReplaceTx ==
    [kind : {"replace"}, ph : {"store", "decide"}, art : Articles, inputs : Seq(Inputs), next : Nat,
     hints : UNION {[1 .. n -> SomeIds] : n \in Nat}, base : Tables, t : Tables, got : Seq(BlobIds),
     newly : SUBSET BlobIds, pend : SUBSET BlobIds, deferred : SUBSET BlobIds, reused : SUBSET BlobIds]

RestoreTx ==
    [kind : {"restore"}, rec : Records, blob : BlobIds, evict : SUBSET BlobIds, newly : SUBSET BlobIds,
     failed : BOOLEAN, base : Tables, t : Tables]

TxTypeOK ==
    /\ tx = Idle \/ tx \in ReplaceTx \/ tx \in RestoreTx
    /\ tx \in ReplaceTx /\ tx.ph = "store" => tx.next \in 1 .. Len(tx.inputs)

\* Whatever record a table state shows as available has its bytes in the set.
AvailableIn(t, bytes) ==
    \A r \in Records : Linked(t, r) /\ t.rec[r].st = "available" => t.rec[r].blob \in bytes

\* An object that is to be cleaned up has no row, committed or not.
NoRowCleaned(t) == Rows(t) \cap (t.clnq \cup tasks) = {}

\* What the open transaction has added to the committed tables.
TxExtends ==
    tx # Idle =>
      /\ tx.base = tab /\ WellFormed(tx.t)
      /\ Rows(tab) \subseteq Rows(tx.t) /\ \A b \in Rows(tab) : tx.t.blob[b] = tab.blob[b]
      /\ tx.t.delq = tab.delq /\ tab.clnq \subseteq tx.t.clnq
      /\ tx.newly \subseteq Rows(tx.t) /\ tx.newly \cap Rows(tab) = {}
      /\ NoRowCleaned(tx.t)

ReplaceInv ==
    tx \in ReplaceTx =>
      /\ AvailableIn(tx.t, (obj \ (tx.t.delq \cup tx.deferred)) \cup hist.reused \cup tx.reused)
      /\ tx.ph = "store" => tx.t.clnq = tab.clnq
      /\ tx.pend \subseteq Rows(tx.t)
      /\ tx.pend = {} => Rows(tx.t) = Rows(tab) /\ tx.deferred = {}
      /\ tx.pend # {} /\ MaxBytes # 0 => Bytes(tx.t, (Rows(tx.t) \cap obj) \ tx.deferred) <= MaxBytes

RestoreInv ==
    tx \in RestoreTx =>
      /\ AvailableIn(tx.t, (obj \ tx.t.delq) \cup hist.reused)
      /\ tx.t.clnq = tab.clnq
      /\ tx.newly = {} => Rows(tx.t) = Rows(tab)
      /\ tx.newly # {} /\ MaxBytes # 0 /\ tx.evict = {} => Bytes(tx.t, Rows(tx.t) \cap obj) <= MaxBytes

HistTypeOK == hist \in [lost : SUBSET BlobIds, reused : SUBSET BlobIds, over : BOOLEAN]

CacheIInv ==
    /\ CacheTypeOK /\ TxTypeOK /\ NoRowCleaned(tab) /\ TxExtends
    /\ AvailableIn(tab, (obj \ tab.delq) \cup hist.reused)
    /\ ReplaceInv /\ RestoreInv
    /\ ObjectsAccounted /\ CapRespected

\* The three shapes of tx exclude each other.
LEMMA TxKinds ==
    /\ tx = Idle => tx \notin ReplaceTx /\ tx \notin RestoreTx /\ tx.kind \notin {"replace", "restore"}
    /\ tx \in ReplaceTx => tx # Idle /\ tx \notin RestoreTx /\ tx.kind = "replace"
    /\ tx \in RestoreTx => tx # Idle /\ tx \notin ReplaceTx /\ tx.kind = "restore"
  BY DEF Idle, ReplaceTx, RestoreTx

\* When no transaction is open there is nothing to know about it.
LEMMA IdleNext ==
    ASSUME tx' = Idle
    PROVE  /\ (TxTypeOK)' /\ (TxExtends)' /\ (ReplaceInv)' /\ (RestoreInv)'
           /\ (ObjectsAccounted)' <=> obj' \subseteq Rows(tab') \cup tab'.clnq \cup tasks' \cup hist'.lost
<1>1. Idle \notin ReplaceTx /\ Idle \notin RestoreTx
  BY DEF Idle, ReplaceTx, RestoreTx
<1> QED
  BY <1>1 DEF TxTypeOK, TxExtends, ReplaceInv, RestoreInv, ObjectsAccounted

\* A step that keeps no more rows and objects than before respects the limit.
LEMMA CapKept ==
    ASSUME WellFormed(tab), CapRespected, ~hist'.over => ~hist.over,
           (Rows(tab') \cap obj') \ tab'.delq \subseteq (Rows(tab) \cap obj) \ tab.delq,
           \A b \in Rows(tab') : b \in Rows(tab) => tab'.blob[b] = tab.blob[b]
    PROVE  (CapRespected)'
<1> SUFFICES ASSUME MaxBytes # 0, ~hist'.over
             PROVE  Bytes(tab', (Rows(tab') \cap obj') \ tab'.delq) <= MaxBytes
  BY DEF CapRespected
<1> DEFINE S == (Rows(tab) \cap obj) \ tab.delq
           T == (Rows(tab') \cap obj') \ tab'.delq
<1>1. tab \in Tables /\ S \in SUBSET Rows(tab) /\ T \in SUBSET S
  BY DEF WellFormed
<1>2. Bytes(tab, S) <= MaxBytes
  BY DEF CapRespected
<1>3. \A b \in T : tab'.blob[b] = tab.blob[b]
  OBVIOUS
<1> HIDE DEF S, T
<1>4. Bytes(tab, T) <= Bytes(tab, S) /\ Bytes(tab, T) \in Nat /\ Bytes(tab, S) \in Nat
  BY <1>1, BytesMonotone
<1>5. Bytes(tab', T) = Bytes(tab, T)
  BY <1>3, BytesAgree
<1>6. Bytes(tab', T) <= MaxBytes
  BY <1>2, <1>4, <1>5, CacheConstants
<1> QED
  BY <1>6 DEF T

\* The same for the bytes that an open transaction counts.
LEMMA FewerBytes ==
    ASSUME NEW t \in Tables, NEW u, NEW S \in SUBSET Rows(t), NEW T \in SUBSET S,
           \A b \in T : u.blob[b] = t.blob[b], Bytes(t, S) <= MaxBytes
    PROVE  Bytes(u, T) <= MaxBytes
<1>1. Bytes(t, T) <= Bytes(t, S) /\ Bytes(t, T) \in Nat /\ Bytes(t, S) \in Nat
  BY BytesMonotone
<1>2. Bytes(u, T) = Bytes(t, T)
  BY BytesAgree
<1> QED
  BY <1>1, <1>2, CacheConstants

LEMMA SameLinked ==
    ASSUME NEW t, NEW u, u.rec = t.rec, u.link \subseteq t.link, NEW r
    PROVE  Linked(u, r) => Linked(t, r)
  BY DEF Linked

\* The bytes of a record that an article shows have a row.
LEMMA LinkedHasRow ==
    ASSUME NEW t, WellFormed(t), NEW r \in Records, Linked(t, r)
    PROVE  t.rec[r] # NoRec /\ t.rec[r].blob \in Rows(t)
<1>1. t.rec[r] # NoRec
  BY DEF Linked, NoRec
<1> QED
  BY <1>1 DEF WellFormed

-----------------------------------------------------------------------------
(* Steps that end or need no transaction. *)

LEMMA InitialCache == CacheInit => CacheIInv
<1> SUFFICES ASSUME CacheInit PROVE CacheIInv
  OBVIOUS
<1>1. /\ tab.blob = [b \in BlobIds |-> "none"] /\ tab.older = {} /\ tab.rec = [r \in Records |-> NoRec]
      /\ tab.link = {} /\ tab.delq = {} /\ tab.clnq = {}
  BY DEF CacheInit
<1>2. NoRec \in [blob : BlobIds \cup {NoBlob}, st : {"none", "available", "missing"}] /\ NoRec.st = "none"
  BY DEF NoRec
<1>3. tab \in Tables
  BY <1>2 DEF CacheInit, Tables
<1>4. Rows(tab) = {}
  BY <1>1 DEF Rows
<1>5. WellFormed(tab)
  BY <1>1, <1>3, <1>4 DEF WellFormed
<1>6. CacheTypeOK
  BY <1>5 DEF CacheTypeOK, CacheInit
<1>7. AvailableIn(tab, (obj \ tab.delq) \cup hist.reused)
  BY <1>1 DEF AvailableIn, Linked
<1>8. tx = Idle /\ TxTypeOK /\ TxExtends /\ ReplaceInv /\ RestoreInv
  BY TxKinds DEF CacheInit, TxTypeOK, TxExtends, ReplaceInv, RestoreInv
<1>9. ObjectsAccounted
  BY DEF CacheInit, ObjectsAccounted
<1>10. CapRespected
  <2>1. (Rows(tab) \cap obj) \ tab.delq = {}
    BY <1>4
  <2> QED
    BY <2>1, BytesOfNone, CacheConstants DEF CapRespected
<1>11. NoRowCleaned(tab)
  BY <1>4 DEF NoRowCleaned
<1> QED
  BY <1>6, <1>7, <1>8, <1>9, <1>10, <1>11 DEF CacheIInv

\* The process dies.
LEMMA CrashKeeps == ASSUME CacheIInv, Crash PROVE (CacheIInv)'
<1>1. /\ tab' = tab /\ obj' = obj /\ tx' = Idle /\ tasks' = {}
      /\ hist \in [lost : SUBSET BlobIds, reused : SUBSET BlobIds, over : BOOLEAN]
      /\ tab.clnq \subseteq BlobIds
  BY DEF Crash, CacheIInv, CacheTypeOK, WellFormed, Tables
<1> DEFINE more == tasks \cup (IF tx = Idle THEN {} ELSE tx.newly \cup (tx.t.clnq \ tab.clnq))
<1>2. more \subseteq BlobIds
  BY DEF CacheIInv, CacheTypeOK, TxTypeOK, ReplaceTx, RestoreTx, Tables
<1>3. hist' = [hist EXCEPT !.lost = @ \cup more]
  BY DEF Crash
<1>4. obj \subseteq Rows(tab) \cup tab.clnq \cup hist.lost \cup more
  BY DEF CacheIInv, ObjectsAccounted
<1> HIDE DEF more
<1>5. /\ hist'.lost = hist.lost \cup more /\ hist'.reused = hist.reused /\ hist'.over = hist.over
      /\ hist' \in [lost : SUBSET BlobIds, reused : SUBSET BlobIds, over : BOOLEAN]
  BY <1>1, <1>2, <1>3
<1>6. (CacheTypeOK)' /\ NoRowCleaned(tab)' /\ AvailableIn(tab, (obj \ tab.delq) \cup hist.reused)'
  BY <1>1, <1>5 DEF CacheIInv, CacheTypeOK, NoRowCleaned
<1>7. (CapRespected)'
  BY <1>1, <1>5 DEF CacheIInv, CapRespected
<1>8. (ObjectsAccounted)'
  BY <1>1, <1>4, <1>5, IdleNext
<1> QED
  BY <1>1, <1>6, <1>7, <1>8, IdleNext DEF CacheIInv

\* rollback and drop.
LEMMA AbandonKeeps == ASSUME CacheIInv, Abandon \/ AbandonRestore(FALSE) PROVE (CacheIInv)'
<1>0. tx # Idle
  BY TxKinds DEF Abandon, AbandonRestore
<1>1. /\ tab' = tab /\ obj' = obj /\ tx' = Idle /\ tasks' = tasks \cup tx.newly
      /\ hist \in [lost : SUBSET BlobIds, reused : SUBSET BlobIds, over : BOOLEAN]
  BY DEF Abandon, AbandonRestore, CacheIInv, CacheTypeOK
<1>2. tx.newly \subseteq BlobIds /\ tx.t.clnq \subseteq BlobIds
  BY <1>0 DEF CacheIInv, TxTypeOK, ReplaceTx, RestoreTx, Tables
<1>3. /\ hist'.reused = hist.reused /\ hist'.over = hist.over
      /\ hist' \in [lost : SUBSET BlobIds, reused : SUBSET BlobIds, over : BOOLEAN]
      /\ hist.lost \cup (tx.t.clnq \ tab.clnq) \subseteq hist'.lost \cup tab.clnq
  <2>1. CASE Abandon
    <3> DEFINE S == tx.t.clnq \ tab.clnq
    <3>1. hist' = [hist EXCEPT !.lost = @ \cup S] /\ S \subseteq BlobIds
      BY <2>1, <1>2 DEF Abandon
    <3> HIDE DEF S
    <3>2. /\ hist'.lost = hist.lost \cup S /\ hist'.reused = hist.reused /\ hist'.over = hist.over
          /\ hist' \in [lost : SUBSET BlobIds, reused : SUBSET BlobIds, over : BOOLEAN]
      BY <3>1, <1>1
    <3> QED
      BY <3>2 DEF S
  <2>2. CASE AbandonRestore(FALSE)
    <3>1. tx \in RestoreTx
      BY <1>0, <2>2, TxKinds DEF CacheIInv, TxTypeOK, AbandonRestore
    <3>2. tx.t.clnq = tab.clnq
      BY <3>1 DEF CacheIInv, RestoreInv
    <3> QED
      BY <2>2, <1>1, <3>2 DEF AbandonRestore
  <2> QED
    BY <2>1, <2>2
<1>4. tx.newly \cap Rows(tab) = {}
  BY <1>0 DEF CacheIInv, TxExtends
<1>5. (CacheTypeOK)' /\ NoRowCleaned(tab)' /\ AvailableIn(tab, (obj \ tab.delq) \cup hist.reused)'
  BY <1>1, <1>2, <1>3, <1>4 DEF CacheIInv, CacheTypeOK, NoRowCleaned
<1>6. (CapRespected)'
  BY <1>1, <1>3 DEF CacheIInv, CapRespected
<1>7. (ObjectsAccounted)'
  BY <1>0, <1>1, <1>3, IdleNext DEF CacheIInv, ObjectsAccounted
<1> QED
  BY <1>1, <1>5, <1>6, <1>7, IdleNext DEF CacheIInv

\* A commit whose answer is lost leaves the tables as they are.
LEMMA UnansweredKeeps ==
    ASSUME CacheIInv, tx # Idle, tab' = tab, obj' = obj, tasks' = tasks, tx' = Idle,
           NEW S \in SUBSET BlobIds, hist' = [hist EXCEPT !.lost = @ \cup S],
           obj \cap (tx.newly \cup tx.t.clnq) \subseteq S \cup tab.clnq
    PROVE  (CacheIInv)'
<1>1. HistTypeOK
  BY DEF CacheIInv, CacheTypeOK, HistTypeOK
<1>2. /\ hist'.lost = hist.lost \cup S /\ hist'.reused = hist.reused /\ hist'.over = hist.over
      /\ (HistTypeOK)'
  BY <1>1 DEF HistTypeOK
<1>3. (CacheTypeOK)' /\ NoRowCleaned(tab)' /\ AvailableIn(tab, (obj \ tab.delq) \cup hist.reused)'
  BY <1>2 DEF CacheIInv, CacheTypeOK, NoRowCleaned, HistTypeOK
<1>4. (CapRespected)'
  BY <1>2 DEF CacheIInv, CapRespected
<1>5. (ObjectsAccounted)'
  BY <1>2, IdleNext DEF CacheIInv, ObjectsAccounted
<1> QED
  BY <1>3, <1>4, <1>5, IdleNext DEF CacheIInv

\* A restore that is dropped loses what it wrote.
LEMMA DroppedRestoreKeeps == ASSUME CacheIInv, AbandonRestore(TRUE) PROVE (CacheIInv)'
<1>1. tx \in RestoreTx /\ tx # Idle
  BY TxKinds DEF CacheIInv, TxTypeOK, AbandonRestore
<1>2. /\ tab' = tab /\ obj' = obj /\ tasks' = tasks /\ tx' = Idle
      /\ hist' = [hist EXCEPT !.lost = @ \cup tx.newly] /\ tx.newly \in SUBSET BlobIds
  BY <1>1 DEF AbandonRestore, RestoreTx
<1>3. obj \cap (tx.newly \cup tx.t.clnq) \subseteq tx.newly \cup tab.clnq
  BY <1>1 DEF CacheIInv, RestoreInv
<1> QED
  BY <1>1, <1>2, <1>3, UnansweredKeeps

LEMMA CommitKeeps == ASSUME CacheIInv, NEW done \in BOOLEAN, Commit(done) PROVE (CacheIInv)'
<1>0. tx \in ReplaceTx /\ tx # Idle
  BY TxKinds DEF CacheIInv, TxTypeOK, Commit
<1>1. CASE ~done
  <2> DEFINE S == (tx.newly \cap obj) \cup (tx.t.clnq \ tab.clnq)
  <2>1. /\ tab' = tab /\ obj' = obj /\ tasks' = tasks /\ tx' = Idle
        /\ hist' = [hist EXCEPT !.lost = @ \cup (tx.newly \cap obj) \cup (tx.t.clnq \ tab.clnq)]
    BY <1>1 DEF Commit
  <2>2. S \in SUBSET BlobIds /\ obj \cap (tx.newly \cup tx.t.clnq) \subseteq S \cup tab.clnq
    BY <1>0 DEF ReplaceTx, Tables
  <2>3. hist.lost \cup (tx.newly \cap obj) \cup (tx.t.clnq \ tab.clnq) = hist.lost \cup S
    OBVIOUS
  <2>4. hist' = [hist EXCEPT !.lost = @ \cup S]
    BY <2>1, <2>3
  <2> HIDE DEF S
  <2> QED
    BY <1>0, <2>1, <2>2, <2>4, UnansweredKeeps
<1>2. CASE done
  <2>1. /\ tab' = [tx.t EXCEPT !.delq = @ \cup tx.deferred] /\ obj' = obj /\ tasks' = tasks /\ tx' = Idle
        /\ hist' = [hist EXCEPT !.reused = @ \cup tx.reused, !.over = @ /\ tx.pend = {}]
    BY <1>2 DEF Commit
  <2>2. tx.deferred \in SUBSET BlobIds /\ tx.reused \in SUBSET BlobIds
    BY <1>0 DEF ReplaceTx
  <2>3. /\ WellFormed(tx.t) /\ Rows(tab) \subseteq Rows(tx.t) /\ tx.t.delq = tab.delq
        /\ tab.clnq \subseteq tx.t.clnq /\ tx.newly \subseteq Rows(tx.t) /\ NoRowCleaned(tx.t)
        /\ \A b \in Rows(tab) : tx.t.blob[b] = tab.blob[b]
    BY <1>0 DEF CacheIInv, TxExtends
  <2>4. /\ WellFormed(tab') /\ Rows(tab') = Rows(tx.t) /\ SameRows(tx.t, tab')
        /\ tab'.link = tx.t.link /\ tab'.delq = tx.t.delq \cup tx.deferred /\ tab'.clnq = tx.t.clnq
    BY <2>1, <2>2, <2>3, QueueEvictions
  <2>5. /\ hist'.lost = hist.lost /\ hist'.reused = hist.reused \cup tx.reused
        /\ hist'.over = (hist.over /\ tx.pend = {}) /\ (HistTypeOK)'
    <3>1. HistTypeOK
      BY DEF CacheIInv, CacheTypeOK, HistTypeOK
    <3> QED
      BY <3>1, <2>1, <2>2 DEF HistTypeOK
  <2>6. (CacheTypeOK)' /\ NoRowCleaned(tab)'
    BY <2>1, <2>3, <2>4, <2>5 DEF CacheIInv, CacheTypeOK, NoRowCleaned, HistTypeOK
  <2>7. AvailableIn(tab, (obj \ tab.delq) \cup hist.reused)'
    <3>1. AvailableIn(tx.t, (obj \ (tx.t.delq \cup tx.deferred)) \cup hist.reused \cup tx.reused)
      BY <1>0 DEF CacheIInv, ReplaceInv
    <3>2. (obj \ (tx.t.delq \cup tx.deferred)) \cup hist.reused \cup tx.reused
             = (obj' \ tab'.delq) \cup hist'.reused
      BY <2>1, <2>4, <2>5
    <3>3. tab'.rec = tx.t.rec
      BY <2>4 DEF SameRows
    <3>4. AvailableIn(tab', (obj' \ tab'.delq) \cup hist'.reused)
      BY <3>1, <3>2, <3>3, <2>4 DEF AvailableIn, Linked
    <3> QED
      BY <3>4 DEF AvailableIn, Linked
  <2>8. (ObjectsAccounted)'
    <3>1. obj \subseteq Rows(tab) \cup tab.clnq \cup tasks \cup hist.lost \cup tx.newly \cup tx.t.clnq
      BY <1>0 DEF CacheIInv, ObjectsAccounted
    <3> QED
      BY <3>1, <2>1, <2>3, <2>4, <2>5, IdleNext
  <2>9. (CapRespected)'
    <3>1. CASE tx.pend = {}
      <4>1. Rows(tx.t) = Rows(tab) /\ tx.deferred = {}
        BY <1>0, <3>1 DEF CacheIInv, ReplaceInv
      <4>2. hist'.over = hist.over
        BY <2>5, <3>1 DEF CacheIInv, CacheTypeOK
      <4> QED
        BY <4>1, <4>2, <2>1, <2>3, <2>4, CapKept DEF CacheIInv, CacheTypeOK, SameRows
    <3>2. CASE tx.pend # {}
      <4> SUFFICES ASSUME MaxBytes # 0
                   PROVE  Bytes(tab', (Rows(tab') \cap obj') \ tab'.delq) <= MaxBytes
        BY DEF CapRespected
      <4> DEFINE S == (Rows(tx.t) \cap obj) \ tx.deferred
                 T == (Rows(tab') \cap obj') \ tab'.delq
      <4>1. Bytes(tx.t, S) <= MaxBytes
        BY <1>0, <3>2 DEF CacheIInv, ReplaceInv
      <4>2. S \in SUBSET Rows(tx.t) /\ T \in SUBSET S /\ tx.t \in Tables
        BY <2>1, <2>3, <2>4 DEF WellFormed
      <4>3. \A b \in T : tab'.blob[b] = tx.t.blob[b]
        BY <2>4 DEF SameRows
      <4> HIDE DEF S, T
      <4>4. Bytes(tab', T) <= MaxBytes
        BY <4>1, <4>2, <4>3, FewerBytes
      <4> QED
        BY <4>4 DEF T
    <3> QED
      BY <3>1, <3>2
  <2> QED
    BY <2>1, <2>6, <2>7, <2>8, <2>9, IdleNext DEF CacheIInv
<1> QED
  BY <1>1, <1>2

LEMMA CommitRestoreKeeps == ASSUME CacheIInv, NEW done \in BOOLEAN, CommitRestore(done) PROVE (CacheIInv)'
<1>0. tx \in RestoreTx /\ tx # Idle
  BY TxKinds DEF CacheIInv, TxTypeOK, CommitRestore
<1>a. AvailableIn(tx.t, (obj \ tx.t.delq) \cup hist.reused) /\ tx.t.clnq = tab.clnq
  BY <1>0 DEF CacheIInv, RestoreInv
<1>1. CASE ~done
  <2>1. /\ tab' = tab /\ obj' = obj /\ tasks' = tasks /\ tx' = Idle
        /\ hist' = [hist EXCEPT !.lost = @ \cup tx.newly] /\ tx.newly \in SUBSET BlobIds
    BY <1>0, <1>1 DEF CommitRestore, RestoreTx
  <2>2. obj \cap (tx.newly \cup tx.t.clnq) \subseteq tx.newly \cup tab.clnq
    BY <1>a
  <2> QED
    BY <1>0, <2>1, <2>2, UnansweredKeeps
<1>2. CASE done
  <2>1. /\ tab' = tx.t /\ obj' = obj /\ tasks' = tasks /\ tx' = Idle
        /\ hist' = [hist EXCEPT !.over = @ \/ tx.evict # {}]
    BY <1>2 DEF CommitRestore
  <2>3. /\ WellFormed(tx.t) /\ Rows(tab) \subseteq Rows(tx.t) /\ tx.t.delq = tab.delq
        /\ tx.newly \subseteq Rows(tx.t) /\ NoRowCleaned(tx.t)
        /\ \A b \in Rows(tab) : tx.t.blob[b] = tab.blob[b]
    BY <1>0 DEF CacheIInv, TxExtends
  <2>5. /\ hist'.lost = hist.lost /\ hist'.reused = hist.reused
        /\ hist'.over = (hist.over \/ tx.evict # {}) /\ (HistTypeOK)'
    <3>1. HistTypeOK
      BY DEF CacheIInv, CacheTypeOK, HistTypeOK
    <3> QED
      BY <3>1, <2>1 DEF HistTypeOK
  <2>6. (CacheTypeOK)' /\ NoRowCleaned(tab)'
    BY <2>1, <2>3, <2>5 DEF CacheIInv, CacheTypeOK, NoRowCleaned, HistTypeOK
  <2>7. AvailableIn(tab, (obj \ tab.delq) \cup hist.reused)'
    BY <1>a, <2>1, <2>5
  <2>8. (ObjectsAccounted)'
    BY <1>0, <1>a, <2>1, <2>3, <2>5, IdleNext DEF CacheIInv, ObjectsAccounted
  <2>9. (CapRespected)'
    <3> SUFFICES ASSUME MaxBytes # 0, ~hist'.over
                 PROVE  Bytes(tab', (Rows(tab') \cap obj') \ tab'.delq) <= MaxBytes
      BY DEF CapRespected
    <3>0. tx.evict = {} /\ ~hist.over
      BY <2>5
    <3>1. CASE tx.newly = {}
      <4>1. Rows(tx.t) = Rows(tab)
        BY <1>0, <3>1 DEF CacheIInv, RestoreInv
      <4>2. (CapRespected)'
        BY <4>1, <3>0, <2>1, <2>3, CapKept DEF CacheIInv, CacheTypeOK
      <4> QED
        BY <4>2 DEF CapRespected
    <3>2. CASE tx.newly # {}
      <4> DEFINE S == Rows(tx.t) \cap obj
                 T == (Rows(tab') \cap obj') \ tab'.delq
      <4>1. Bytes(tx.t, S) <= MaxBytes
        BY <1>0, <3>0, <3>2 DEF CacheIInv, RestoreInv
      <4>2. S \in SUBSET Rows(tx.t) /\ T \in SUBSET S /\ tx.t \in Tables
        BY <2>1, <2>3 DEF WellFormed
      <4>3. \A b \in T : tab'.blob[b] = tx.t.blob[b]
        BY <2>1
      <4> HIDE DEF S, T
      <4>4. Bytes(tab', T) <= MaxBytes
        BY <4>1, <4>2, <4>3, FewerBytes
      <4> QED
        BY <4>4 DEF T
    <3> QED
      BY <3>1, <3>2
  <2> QED
    BY <2>1, <2>6, <2>7, <2>8, <2>9, IdleNext DEF CacheIInv
<1> QED
  BY <1>1, <1>2

\* read_and_touch: only the order of use changes.
LEMMA ReadKeeps == ASSUME CacheIInv, NEW r \in Records, ReadAndTouch(r) PROVE (CacheIInv)'
<1> DEFINE b == tab.rec[r].blob
<1>1. tx = Idle /\ tx' = Idle /\ obj' = obj /\ tasks' = tasks /\ hist' = hist /\ tab' = Touch(tab, b)
  BY DEF ReadAndTouch
<1>2. WellFormed(tab) /\ b \in Rows(tab)
  BY LinkedHasRow DEF ReadAndTouch, CacheIInv, CacheTypeOK
<1> HIDE DEF b
<1>3. /\ WellFormed(tab') /\ Rows(tab') = Rows(tab) /\ tab'.blob = tab.blob /\ tab'.rec = tab.rec
      /\ tab'.link = tab.link /\ tab'.delq = tab.delq /\ tab'.clnq = tab.clnq
  BY <1>1, <1>2, TouchOK
<1>4. (CacheTypeOK)' /\ NoRowCleaned(tab)'
  BY <1>1, <1>3 DEF CacheIInv, CacheTypeOK, NoRowCleaned
<1>5. AvailableIn(tab, (obj \ tab.delq) \cup hist.reused)'
  BY <1>1, <1>3 DEF CacheIInv, AvailableIn, Linked
<1>6. (ObjectsAccounted)'
  BY <1>1, <1>3, IdleNext DEF CacheIInv, ObjectsAccounted
<1>7. (CapRespected)'
  BY <1>1, <1>2, <1>3, CapKept DEF CacheIInv
<1> QED
  BY <1>1, <1>4, <1>5, <1>6, <1>7, IdleNext DEF CacheIInv

LEMMA DrainDeletionsKeeps ==
    ASSUME CacheIInv, NEW gone \in SUBSET BlobIds, DrainDeletions(gone) PROVE (CacheIInv)'
<1>1. /\ tx = Idle /\ tx' = Idle /\ obj' = obj \ gone /\ tasks' = tasks /\ hist' = hist
      /\ gone \subseteq tab.delq
      /\ tab' = tab \/ (gone = tab.delq /\ tab' = [tab EXCEPT !.delq = {}])
  BY DEF DrainDeletions, Drain
<1>2. WellFormed(tab)
  BY DEF CacheIInv, CacheTypeOK
<1>3. /\ WellFormed(tab') /\ Rows(tab') = Rows(tab) /\ SameRows(tab, tab')
      /\ tab'.link = tab.link /\ tab'.clnq = tab.clnq
      /\ tab'.delq = tab.delq \/ (gone = tab.delq /\ tab'.delq = {})
  <2>1. CASE tab' = tab
    BY <2>1, <1>2 DEF SameRows
  <2>2. CASE gone = tab.delq /\ tab' = [tab EXCEPT !.delq = {}]
    BY <2>2, <1>2, NoEvictions
  <2> QED
    BY <2>1, <2>2, <1>1
<1>4. (CacheTypeOK)' /\ NoRowCleaned(tab)'
  BY <1>1, <1>3 DEF CacheIInv, CacheTypeOK, NoRowCleaned
<1>5. AvailableIn(tab, (obj \ tab.delq) \cup hist.reused)'
  <2>1. (obj \ tab.delq) \cup hist.reused \subseteq (obj' \ tab'.delq) \cup hist'.reused
    BY <1>1, <1>3
  <2> QED
    BY <1>3, <2>1 DEF CacheIInv, AvailableIn, Linked, SameRows
<1>6. (ObjectsAccounted)'
  BY <1>1, <1>3, IdleNext DEF CacheIInv, ObjectsAccounted
<1>7. (CapRespected)'
  BY <1>1, <1>2, <1>3, CapKept DEF CacheIInv, SameRows
<1> QED
  BY <1>1, <1>4, <1>5, <1>6, <1>7, IdleNext DEF CacheIInv

LEMMA DrainCleanupsKeeps ==
    ASSUME CacheIInv, NEW gone \in SUBSET BlobIds, DrainCleanups(gone) PROVE (CacheIInv)'
<1>1. /\ tx = Idle /\ tx' = Idle /\ obj' = obj \ gone /\ tasks' = tasks /\ hist' = hist
      /\ gone \subseteq tab.clnq
      /\ tab' = tab \/ (gone = tab.clnq /\ tab' = [tab EXCEPT !.clnq = {}])
  BY DEF DrainCleanups, Drain
<1>2. WellFormed(tab)
  BY DEF CacheIInv, CacheTypeOK
<1>3. /\ WellFormed(tab') /\ Rows(tab') = Rows(tab) /\ SameRows(tab, tab')
      /\ tab'.link = tab.link /\ tab'.delq = tab.delq
      /\ tab'.clnq = tab.clnq \/ (gone = tab.clnq /\ tab'.clnq = {})
  <2>1. CASE tab' = tab
    BY <2>1, <1>2 DEF SameRows
  <2>2. CASE gone = tab.clnq /\ tab' = [tab EXCEPT !.clnq = {}]
    BY <2>2, <1>2, NoCleanups
  <2> QED
    BY <2>1, <2>2, <1>1
<1>4. (CacheTypeOK)' /\ NoRowCleaned(tab)'
  BY <1>1, <1>3 DEF CacheIInv, CacheTypeOK, NoRowCleaned
<1>5. AvailableIn(tab, (obj \ tab.delq) \cup hist.reused)'
  <2>1. gone \cap Rows(tab) = {}
    BY <1>1 DEF CacheIInv, NoRowCleaned
  <2>2. \A q \in Records : Linked(tab, q) => tab.rec[q].blob \notin gone
    BY <1>2, <2>1, LinkedHasRow
  <2>3. AvailableIn(tab, (obj \ tab.delq) \cup hist.reused)
    BY DEF CacheIInv
  <2>4. tab'.rec = tab.rec
    BY <1>3 DEF SameRows
  <2>5. AvailableIn(tab', (obj' \ tab'.delq) \cup hist'.reused)
    BY <1>1, <1>3, <2>2, <2>3, <2>4 DEF AvailableIn, Linked
  <2> QED
    BY <2>5 DEF AvailableIn, Linked
<1>6. (ObjectsAccounted)'
  BY <1>1, <1>3, IdleNext DEF CacheIInv, ObjectsAccounted
<1>7. (CapRespected)'
  BY <1>1, <1>2, <1>3, CapKept DEF CacheIInv, SameRows
<1> QED
  BY <1>1, <1>4, <1>5, <1>6, <1>7, IdleNext DEF CacheIInv

\* maintenance: what an article shows as available is neither evicted nor an
\* orphan, and what stays fits.
\* What maintenance finds at the end of its transaction.
MaintainedFields(end, S) ==
    /\ WellFormed(end.t) /\ end.dead \subseteq Rows(tab) /\ Rows(end.t) = Rows(tab) \ end.dead
    /\ \A b \in Rows(end.t) : end.t.blob[b] = tab.blob[b]
    /\ end.t.link = tab.link /\ end.t.delq = tab.delq \cup S /\ end.t.clnq = tab.clnq
    /\ \A r \in Records : Linked(tab, r) => tab.rec[r].blob \notin end.dead
    /\ \A r \in Records : Linked(end.t, r) /\ end.t.rec[r].st = "available" =>
          /\ Linked(tab, r) /\ tab.rec[r].st = "available"
          /\ end.t.rec[r].blob = tab.rec[r].blob /\ tab.rec[r].blob \notin S
    /\ MaxBytes # 0 => Bytes(tab, (Rows(tab) \cap obj) \ S) <= MaxBytes

LEMMA MaintainedOK ==
    ASSUME CacheIInv, NEW stale \in SUBSET BlobIds, NEW repaired
    PROVE  \E S \in SUBSET BlobIds : MaintainedFields(MaintainedTo(stale, repaired), S)
<1> DEFINE t1 == MarkMissing(tab, stale)
           cap == enforce_cache_limit(t1, {}, stale, {}, 0)
           t3 == MarkMissing(t1, cap.evict)
           S == stale \cup cap.evict
           t2 == [t3 EXCEPT !.delq = @ \cup stale \cup cap.evict]
           end == DeleteOrphans(t2, repaired)
<1>1. end = MaintainedTo(stale, repaired)
  BY DEF MaintainedTo
<1>2. WellFormed(tab)
  BY DEF CacheIInv, CacheTypeOK
<1>3. /\ WellFormed(t1) /\ Rows(t1) = Rows(tab) /\ t1.blob = tab.blob /\ t1.link = tab.link
      /\ t1.delq = tab.delq /\ t1.clnq = tab.clnq
      /\ \A r \in Records : /\ t1.rec[r].blob = tab.rec[r].blob
                            /\ t1.rec[r].st = IF tab.rec[r].blob \in stale /\ tab.rec[r].st = "available"
                                              THEN "missing" ELSE tab.rec[r].st
  BY <1>2, MarkOK
<1> HIDE DEF t1
<1>4. /\ cap.evict \subseteq BlobIds
      /\ MaxBytes # 0 => Fits(t1, {}, stale \cup cap.evict, 0)
  <2>1. /\ cap.evict \subseteq (Rows(t1) \cap obj) \ ({} \cup stale)
        /\ MaxBytes # 0 /\ cap.ok => Fits(t1, {}, stale \cup cap.evict, 0)
    <3>1. LimitFields(t1, {}, stale, {}, 0, cap)
      BY <1>3, LimitOK
    <3> HIDE DEF cap
    <3> QED
      BY <3>1 DEF LimitFields
  <2>2. MaxBytes # 0 => cap.ok
    BY <1>3, MaintenanceFits
  <2> HIDE DEF cap
  <2> QED
    BY <2>1, <2>2 DEF Rows
<1> HIDE DEF cap
<1>5. /\ WellFormed(t3) /\ Rows(t3) = Rows(tab) /\ t3.blob = tab.blob /\ t3.link = tab.link
      /\ t3.delq = tab.delq /\ t3.clnq = tab.clnq
      /\ \A r \in Records : /\ t3.rec[r].blob = tab.rec[r].blob
                            /\ t3.rec[r].st = IF tab.rec[r].blob \in S /\ tab.rec[r].st = "available"
                                              THEN "missing" ELSE tab.rec[r].st
  <2>1. /\ WellFormed(t3) /\ Rows(t3) = Rows(t1) /\ t3.blob = t1.blob /\ t3.link = t1.link
        /\ t3.delq = t1.delq /\ t3.clnq = t1.clnq
        /\ \A r \in Records : /\ t3.rec[r].blob = t1.rec[r].blob
                              /\ t3.rec[r].st = IF t1.rec[r].blob \in cap.evict /\ t1.rec[r].st = "available"
                                                THEN "missing" ELSE t1.rec[r].st
    BY <1>3, <1>4, MarkOK
  <2> HIDE DEF t3
  <2> QED
    BY <2>1, <1>3
<1> HIDE DEF t3
<1>6. /\ WellFormed(t2) /\ Rows(t2) = Rows(tab) /\ t2.blob = tab.blob /\ t2.link = tab.link
      /\ t2.delq = tab.delq \cup S /\ t2.clnq = tab.clnq /\ t2.rec = t3.rec
  <2>1. S \in SUBSET BlobIds /\ t3.delq \cup stale \cup cap.evict = t3.delq \cup S
    BY <1>4
  <2>2. t2 = [t3 EXCEPT !.delq = @ \cup S]
    BY <2>1
  <2> HIDE DEF t2, S
  <2> QED
    BY <1>5, <2>1, <2>2, QueueEvictions DEF SameRows
<1> HIDE DEF t2, S
<1>7. /\ WellFormed(end.t) /\ end.dead \subseteq Rows(tab) /\ Rows(end.t) = Rows(tab) \ end.dead
      /\ \A b \in Rows(end.t) : end.t.blob[b] = tab.blob[b]
      /\ end.t.link = tab.link /\ end.t.delq = tab.delq \cup S /\ end.t.clnq = tab.clnq
      /\ \A r \in Records : end.t.rec[r] \in {t2.rec[r], NoRec} /\ end.t.rec[r].blob \notin end.dead
      /\ \A r \in Records : Linked(t2, r) => t2.rec[r].blob \notin end.dead
  BY <1>6, OrphansOK
<1> HIDE DEF end
<1>8. \A r \in Records : Linked(tab, r) => tab.rec[r].blob \notin end.dead
  <2> TAKE r \in Records
  <2> HAVE Linked(tab, r)
  <2>1. Linked(t2, r) /\ t2.rec[r].blob = tab.rec[r].blob
    BY <1>5, <1>6 DEF Linked
  <2> QED
    BY <2>1, <1>7
<1>9. ASSUME NEW r \in Records, Linked(end.t, r), end.t.rec[r].st = "available"
      PROVE  /\ Linked(tab, r) /\ tab.rec[r].st = "available"
             /\ end.t.rec[r].blob = tab.rec[r].blob /\ tab.rec[r].blob \notin S
  <2>1. end.t.rec[r] = t3.rec[r]
    BY <1>9, <1>6, <1>7 DEF NoRec
  <2>2. /\ end.t.rec[r].blob = tab.rec[r].blob /\ tab.rec[r].st = "available"
        /\ tab.rec[r].blob \notin S
    BY <1>9, <2>1, <1>5
  <2>3. Linked(tab, r)
    BY <1>9, <2>2, <1>7 DEF Linked
  <2> QED
    BY <2>2, <2>3
<1>10. MaxBytes # 0 => Bytes(tab, (Rows(tab) \cap obj) \ S) <= MaxBytes
  <2> SUFFICES ASSUME MaxBytes # 0 PROVE Bytes(tab, (Rows(tab) \cap obj) \ S) <= MaxBytes
    OBVIOUS
  <2> DEFINE R == (Rows(t1) \cap obj) \ S
             T == (Rows(tab) \cap obj) \ S
  <2>1. t1 \in Tables /\ {} \in SUBSET Rows(t1) /\ Fits(t1, {}, S, 0) /\ 0 \in Nat
    BY <1>3, <1>4 DEF WellFormed, S
  <2>2. Bytes(t1, R) \in Nat /\ Bytes(t1, R) + 0 <= MaxBytes
    BY <2>1, FitsMeans
  <2>3. R \in SUBSET Rows(t1) /\ T \in SUBSET R /\ \A b \in T : tab.blob[b] = t1.blob[b]
    BY <1>3
  <2> HIDE DEF R, T
  <2>4. Bytes(t1, R) <= MaxBytes
    BY <2>2
  <2>5. Bytes(tab, T) <= MaxBytes
    BY <2>1, <2>3, <2>4, FewerBytes
  <2> QED
    BY <2>5 DEF T
<1>11. S \in SUBSET BlobIds
  BY <1>4 DEF S
<1>12. MaintainedFields(end, S)
  BY <1>7, <1>8, <1>9, <1>10 DEF MaintainedFields
<1> QED
  BY <1>1, <1>11, <1>12

\* A pass that fails: what it deleted has no relation.
LEMMA MaintainFailsKeeps ==
    ASSUME CacheIInv, NEW stale \in SUBSET BlobIds, NEW repaired, MaintainFails(stale, repaired)
    PROVE  (CacheIInv)'
<1> DEFINE dead == MaintainedTo(stale, repaired).dead
<1>1. PICK S \in SUBSET BlobIds : MaintainedFields(MaintainedTo(stale, repaired), S)
  BY MaintainedOK
<1>2. PICK gone \in SUBSET dead, slow \in SUBSET (dead \cap obj) :
         obj' = obj \ gone /\ hist' = [hist EXCEPT !.reused = @ \cup (slow \ gone)]
  BY DEF MaintainFails
<1>3. dead \subseteq Rows(tab) /\ \A r \in Records : Linked(tab, r) => tab.rec[r].blob \notin dead
  BY <1>1 DEF MaintainedFields
<1>4. tab' = tab /\ tx = Idle /\ tx' = Idle /\ tasks' = tasks
  BY DEF MaintainFails
<1> HIDE DEF dead
<1>5. WellFormed(tab) /\ HistTypeOK /\ slow \subseteq BlobIds
  BY <1>3 DEF CacheIInv, CacheTypeOK, HistTypeOK, Rows
<1>6. /\ hist'.lost = hist.lost /\ hist.reused \subseteq hist'.reused /\ hist'.over = hist.over
      /\ (HistTypeOK)'
  BY <1>2, <1>5 DEF HistTypeOK
<1>7. (CacheTypeOK)' /\ NoRowCleaned(tab)'
  BY <1>2, <1>4, <1>6 DEF CacheIInv, CacheTypeOK, NoRowCleaned, HistTypeOK
<1>8. AvailableIn(tab, (obj \ tab.delq) \cup hist.reused)'
  <2>1. AvailableIn(tab, (obj \ tab.delq) \cup hist.reused)
    BY DEF CacheIInv
  <2>2. AvailableIn(tab, (obj' \ tab.delq) \cup hist'.reused)
    BY <2>1, <1>2, <1>3, <1>6 DEF AvailableIn
  <2> QED
    BY <2>2, <1>4
<1>9. (ObjectsAccounted)'
  BY <1>2, <1>4, <1>6, IdleNext DEF CacheIInv, ObjectsAccounted
<1>10. (CapRespected)'
  BY <1>2, <1>4, <1>5, <1>6, CapKept DEF CacheIInv
<1> QED
  BY <1>4, <1>7, <1>8, <1>9, <1>10, IdleNext DEF CacheIInv

LEMMA MaintainKeeps ==
    ASSUME CacheIInv, NEW stale \in SUBSET BlobIds, NEW repaired, Maintain(stale, repaired)
    PROVE  (CacheIInv)'
<1> DEFINE end == MaintainedTo(stale, repaired)
<1>1. PICK S \in SUBSET BlobIds : MaintainedFields(end, S)
  BY MaintainedOK
<1>2. /\ tx = Idle /\ tx' = Idle /\ tasks' = tasks /\ obj' = obj \ end.dead /\ tab' = end.t
      /\ hist' = [hist EXCEPT !.over = FALSE, !.reused = @ \ end.dead]
  BY DEF Maintain
<1> HIDE DEF end
<1>3. WellFormed(tab) /\ HistTypeOK
  BY DEF CacheIInv, CacheTypeOK, HistTypeOK
<1>4. /\ WellFormed(end.t) /\ end.dead \subseteq Rows(tab) /\ Rows(end.t) = Rows(tab) \ end.dead
      /\ \A b \in Rows(end.t) : end.t.blob[b] = tab.blob[b]
      /\ end.t.link = tab.link /\ end.t.delq = tab.delq \cup S /\ end.t.clnq = tab.clnq
  BY <1>1 DEF MaintainedFields
<1>5. hist'.lost = hist.lost /\ hist'.reused = hist.reused \ end.dead /\ (HistTypeOK)'
  BY <1>2, <1>3 DEF HistTypeOK
<1>6. (CacheTypeOK)' /\ NoRowCleaned(tab)'
  BY <1>2, <1>4, <1>5 DEF CacheIInv, CacheTypeOK, NoRowCleaned, HistTypeOK
<1>7. AvailableIn(tab, (obj \ tab.delq) \cup hist.reused)'
  <2>1. AvailableIn(tab, (obj \ tab.delq) \cup hist.reused)
    BY DEF CacheIInv
  <2>2. ASSUME NEW r \in Records, Linked(end.t, r), end.t.rec[r].st = "available"
        PROVE  end.t.rec[r].blob \in (obj' \ end.t.delq) \cup hist'.reused
    <3>1. /\ Linked(tab, r) /\ tab.rec[r].st = "available"
          /\ end.t.rec[r].blob = tab.rec[r].blob /\ tab.rec[r].blob \notin S
          /\ tab.rec[r].blob \notin end.dead
      BY <1>1, <2>2 DEF MaintainedFields
    <3>2. tab.rec[r].blob \in (obj \ tab.delq) \cup hist.reused
      BY <2>1, <3>1 DEF AvailableIn
    <3> QED
      BY <3>1, <3>2, <1>2, <1>4, <1>5
  <2>3. AvailableIn(end.t, (obj' \ end.t.delq) \cup hist'.reused)
    BY <2>2 DEF AvailableIn
  <2> QED
    BY <2>3, <1>2 DEF AvailableIn, Linked
<1>8. (ObjectsAccounted)'
  BY <1>2, <1>4, <1>5, IdleNext DEF CacheIInv, ObjectsAccounted
<1>9. (CapRespected)'
  <2> SUFFICES ASSUME MaxBytes # 0
               PROVE  Bytes(tab', (Rows(tab') \cap obj') \ tab'.delq) <= MaxBytes
    BY DEF CapRespected
  <2> DEFINE R == (Rows(tab) \cap obj) \ S
             T == (Rows(tab') \cap obj') \ tab'.delq
  <2>1. tab \in Tables /\ R \in SUBSET Rows(tab) /\ Bytes(tab, R) <= MaxBytes
    BY <1>1, <1>3 DEF WellFormed, MaintainedFields
  <2>2. T \in SUBSET R /\ \A b \in T : tab'.blob[b] = tab.blob[b]
    BY <1>2, <1>4
  <2> HIDE DEF R, T
  <2>3. Bytes(tab', T) <= MaxBytes
    BY <2>1, <2>2, FewerBytes
  <2> QED
    BY <2>3 DEF T
<1> QED
  BY <1>2, <1>6, <1>7, <1>8, <1>9, IdleNext DEF CacheIInv

-----------------------------------------------------------------------------
(* Steps beside an open transaction: clean-up after an earlier one, a      *)
(* delete that lands late, relations that another request removes.         *)

\* One of the tables t becomes u: cleanup rows N come, relations may go.
Beside(t, u, N) ==
    /\ WellFormed(u) /\ SameRows(t, u) /\ u.link \subseteq t.link
    /\ u.delq = t.delq /\ u.clnq = t.clnq \cup N

\* Tasks that end do so in a cleanup row, with their object, or among the lost.
TasksEnd(N) ==
    /\ N \subseteq tasks /\ tasks' \subseteq tasks
    /\ obj' \subseteq obj /\ obj \ obj' \subseteq tasks \cup hist.reused
    /\ obj' \cap tasks \subseteq tasks' \cup N \cup hist'.lost
    /\ (HistTypeOK)' /\ hist.lost \subseteq hist'.lost
    /\ hist'.reused = hist.reused /\ hist'.over = hist.over

LEMMA BesideRows ==
    ASSUME NEW t, NEW u, NEW N, Beside(t, u, N)
    PROVE  Rows(u) = Rows(t) /\ u.blob = t.blob /\ u.rec = t.rec
  BY DEF Beside, SameRows, Rows

LEMMA BesideAvailable ==
    ASSUME NEW t, NEW u, NEW N, WellFormed(t), Beside(t, u, N), NoRowCleaned(t), TasksEnd(N),
           NEW S, NEW X, hist.reused \subseteq X, AvailableIn(t, (obj \ S) \cup X)
    PROVE  AvailableIn(u, (obj' \ S) \cup X) /\ NoRowCleaned(u)'
<1>1. Rows(u) = Rows(t) /\ u.blob = t.blob /\ u.rec = t.rec /\ u.link \subseteq t.link /\ u.clnq = t.clnq \cup N
  BY BesideRows DEF Beside
<1>2. (obj \ obj') \cap Rows(t) \subseteq X
  BY DEF TasksEnd, NoRowCleaned
<1>3. ASSUME NEW r \in Records, Linked(u, r), u.rec[r].st = "available"
      PROVE  u.rec[r].blob \in (obj' \ S) \cup X
  <2>1. Linked(t, r) /\ t.rec[r].st = "available"
    BY <1>1, <1>3, SameLinked
  <2>2. t.rec[r].blob \in Rows(t) /\ t.rec[r].blob \in (obj \ S) \cup X
    BY <2>1, LinkedHasRow DEF AvailableIn
  <2> QED
    BY <2>2, <1>1, <1>2
<1>4. AvailableIn(u, (obj' \ S) \cup X)
  BY <1>3 DEF AvailableIn
<1>5. Rows(u) \cap (u.clnq \cup tasks') = {}
  BY <1>1 DEF TasksEnd, NoRowCleaned
<1> QED
  BY <1>4, <1>5 DEF NoRowCleaned

LEMMA BesideTab ==
    ASSUME CacheIInv, NEW N, Beside(tab, tab', N), TasksEnd(N)
    PROVE  /\ (CacheTypeOK)' /\ NoRowCleaned(tab)' /\ (CapRespected)'
           /\ AvailableIn(tab, (obj \ tab.delq) \cup hist.reused)'
<1>1. /\ WellFormed(tab) /\ NoRowCleaned(tab)
      /\ AvailableIn(tab, (obj \ tab.delq) \cup hist.reused)
  BY DEF CacheIInv, CacheTypeOK
<1>2. /\ AvailableIn(tab', (obj' \ tab.delq) \cup hist.reused) /\ NoRowCleaned(tab)'
  BY <1>1, BesideAvailable
<1>3. AvailableIn(tab, (obj \ tab.delq) \cup hist.reused)'
  BY <1>2 DEF Beside, AvailableIn, Linked, TasksEnd
<1>4. Rows(tab') = Rows(tab) /\ tab'.blob = tab.blob /\ tab'.delq = tab.delq
  BY BesideRows DEF Beside
<1>5. (CapRespected)'
  BY <1>1, <1>4, CapKept DEF CacheIInv, TasksEnd
<1>6. (CacheTypeOK)'
  BY DEF CacheIInv, CacheTypeOK, Beside, TasksEnd, HistTypeOK
<1> QED
  BY <1>2, <1>3, <1>5, <1>6

LEMMA BesideIdle ==
    ASSUME CacheIInv, NEW N, Beside(tab, tab', N), TasksEnd(N), tx = Idle, tx' = Idle
    PROVE  (CacheIInv)'
<1>1. Rows(tab') = Rows(tab) /\ tab'.clnq = tab.clnq \cup N
  BY BesideRows DEF Beside
<1>2. (ObjectsAccounted)'
  BY <1>1, IdleNext DEF CacheIInv, ObjectsAccounted, TasksEnd
<1> QED
  BY <1>2, BesideTab, IdleNext DEF CacheIInv

\* What tx keeps when its tables change.
LEMMA TablesOfTx ==
    ASSUME NEW u \in Tables, NEW v \in Tables, tx' = [tx EXCEPT !.t = u, !.base = v]
    PROVE  /\ tx \in ReplaceTx =>
                /\ tx' \in ReplaceTx /\ tx'.t = u /\ tx'.base = v /\ tx'.newly = tx.newly /\ tx'.pend = tx.pend
                /\ tx'.deferred = tx.deferred /\ tx'.reused = tx.reused /\ tx'.ph = tx.ph
                /\ tx'.next = tx.next /\ tx'.inputs = tx.inputs
           /\ tx \in RestoreTx =>
                /\ tx' \in RestoreTx /\ tx'.t = u /\ tx'.base = v /\ tx'.newly = tx.newly /\ tx'.evict = tx.evict
<1>1. CASE tx \in ReplaceTx
  BY <1>1, TxKinds DEF ReplaceTx
<1>2. CASE tx \in RestoreTx
  BY <1>2, TxKinds DEF RestoreTx
<1> QED
  BY <1>1, <1>2

LEMMA BesideOpen ==
    ASSUME CacheIInv, NEW N, Beside(tab, tab', N), TasksEnd(N), tx # Idle,
           NEW u, Beside(tx.t, u, N), tx' = [tx EXCEPT !.t = u, !.base = tab']
    PROVE  (CacheIInv)'
<1>1. u \in Tables /\ tab' \in Tables /\ WellFormed(u)
  BY DEF Beside, WellFormed
<1>2. Rows(tab') = Rows(tab) /\ tab'.blob = tab.blob /\ tab'.delq = tab.delq /\ tab'.clnq = tab.clnq \cup N
  BY BesideRows DEF Beside
<1>3. Rows(u) = Rows(tx.t) /\ u.blob = tx.t.blob /\ u.delq = tx.t.delq /\ u.clnq = tx.t.clnq \cup N
  BY BesideRows DEF Beside
<1>4. /\ WellFormed(tx.t) /\ Rows(tab) \subseteq Rows(tx.t) /\ \A b \in Rows(tab) : tx.t.blob[b] = tab.blob[b]
      /\ tx.t.delq = tab.delq /\ tab.clnq \subseteq tx.t.clnq
      /\ tx.newly \subseteq Rows(tx.t) /\ tx.newly \cap Rows(tab) = {} /\ NoRowCleaned(tx.t)
  BY DEF CacheIInv, TxExtends
<1>5. obj' \subseteq obj
  BY DEF TasksEnd
<1>6. \A S : (Rows(u) \cap obj') \ S \in SUBSET ((Rows(tx.t) \cap obj) \ S)
  BY <1>3, <1>5
<1>7. AvailableIn(tx.t, (obj \ tx.t.delq) \cup hist.reused)
        => AvailableIn(u, (obj' \ tx.t.delq) \cup hist.reused)
  BY <1>4, BesideAvailable
<1>h. hist'.reused = hist.reused
  BY DEF TasksEnd
<1>8. NoRowCleaned(u)'
  <2>1. Rows(u) \cap (u.clnq \cup tasks') = {}
    BY <1>3, <1>4 DEF NoRowCleaned, TasksEnd
  <2> QED
    BY <2>1 DEF NoRowCleaned
<1>9. CASE tx \in ReplaceTx
  <2>1. /\ tx' \in ReplaceTx /\ tx'.t = u /\ tx'.base = tab' /\ tx'.newly = tx.newly /\ tx'.pend = tx.pend
        /\ tx'.deferred = tx.deferred /\ tx'.reused = tx.reused /\ tx'.ph = tx.ph
        /\ tx'.next = tx.next /\ tx'.inputs = tx.inputs
    BY <1>1, <1>9, TablesOfTx
  <2>2. tx' # Idle /\ tx' \notin RestoreTx
    BY <2>1 DEF ReplaceTx, RestoreTx, Idle
  <2>3. (TxTypeOK)'
    BY <1>9, <2>1, <2>2 DEF CacheIInv, TxTypeOK
  <2>4. (TxExtends)'
    BY <1>1, <1>2, <1>3, <1>4, <1>8, <2>1 DEF TxExtends, NoRowCleaned
  <2>5. AvailableIn(u, (obj' \ (u.delq \cup tx.deferred)) \cup hist.reused \cup tx.reused)
    <3> DEFINE S == tx.t.delq \cup tx.deferred
               X == hist.reused \cup tx.reused
    <3>1. AvailableIn(tx.t, (obj \ S) \cup hist.reused \cup tx.reused)
      BY <1>9 DEF CacheIInv, ReplaceInv
    <3>2. /\ (obj \ S) \cup hist.reused \cup tx.reused = (obj \ S) \cup X
          /\ (obj' \ S) \cup hist.reused \cup tx.reused = (obj' \ S) \cup X
          /\ hist.reused \subseteq X
      OBVIOUS
    <3> HIDE DEF S, X
    <3>3. AvailableIn(u, (obj' \ S) \cup X)
      BY <3>1, <3>2, <1>4, BesideAvailable
    <3> QED
      BY <3>2, <3>3, <1>3 DEF S
  <2>6. (ReplaceInv)'
    <3>1. tx.pend # {} /\ MaxBytes # 0 => Bytes(u, (Rows(u) \cap obj') \ tx.deferred) <= MaxBytes
      <4> SUFFICES ASSUME tx.pend # {}, MaxBytes # 0
                   PROVE  Bytes(u, (Rows(u) \cap obj') \ tx.deferred) <= MaxBytes
        OBVIOUS
      <4>1. Bytes(tx.t, (Rows(tx.t) \cap obj) \ tx.deferred) <= MaxBytes
        BY <1>9 DEF CacheIInv, ReplaceInv
      <4>2. tx.t \in Tables /\ (Rows(tx.t) \cap obj) \ tx.deferred \in SUBSET Rows(tx.t)
        BY <1>4 DEF WellFormed
      <4>3. /\ (Rows(u) \cap obj') \ tx.deferred \in SUBSET ((Rows(tx.t) \cap obj) \ tx.deferred)
            /\ u.blob = tx.t.blob
        BY <1>3, <1>6
      <4> QED
        BY <4>1, <4>2, <4>3, FewerBytes
    <3>2. AvailableIn(tx.t, (obj \ (tx.t.delq \cup tx.deferred)) \cup hist.reused \cup tx.reused)'
      BY <1>h, <2>1, <2>5 DEF AvailableIn, Linked
    <3>3. /\ tx.ph = "store" => tx.t.clnq = tab.clnq
          /\ tx.pend \subseteq Rows(tx.t)
          /\ tx.pend = {} => Rows(tx.t) = Rows(tab) /\ tx.deferred = {}
      BY <1>9 DEF CacheIInv, ReplaceInv
    <3> QED
      BY <3>1, <3>2, <3>3, <1>2, <1>3, <2>1 DEF ReplaceInv
  <2>7. (RestoreInv)'
    BY <2>2 DEF RestoreInv
  <2>8. (ObjectsAccounted)'
    <3>1. obj \subseteq Rows(tab) \cup tab.clnq \cup tasks \cup hist.lost \cup tx.newly \cup tx.t.clnq
      BY DEF CacheIInv, ObjectsAccounted
    <3>2. obj' \subseteq Rows(tab') \cup tab'.clnq \cup tasks' \cup hist'.lost \cup tx'.newly \cup tx'.t.clnq
      BY <3>1, <1>2, <1>3, <2>1 DEF TasksEnd
    <3> QED
      BY <3>2, <2>2 DEF ObjectsAccounted
  <2> QED
    BY <2>3, <2>4, <2>6, <2>7, <2>8, BesideTab DEF CacheIInv
<1>10. CASE tx \in RestoreTx
  <2>1. /\ tx' \in RestoreTx /\ tx'.t = u /\ tx'.base = tab' /\ tx'.newly = tx.newly /\ tx'.evict = tx.evict
    BY <1>1, <1>10, TablesOfTx
  <2>2. tx' # Idle /\ tx' \notin ReplaceTx
    BY <2>1 DEF ReplaceTx, RestoreTx, Idle
  <2>3. (TxTypeOK)'
    BY <2>1, <2>2 DEF TxTypeOK
  <2>4. (TxExtends)'
    BY <1>1, <1>2, <1>3, <1>4, <1>8, <2>1 DEF TxExtends, NoRowCleaned
  <2>6. (RestoreInv)'
    <3>0. /\ AvailableIn(tx.t, (obj \ tx.t.delq) \cup hist.reused)
          /\ tx.t.clnq = tab.clnq
          /\ tx.newly = {} => Rows(tx.t) = Rows(tab)
          /\ tx.newly # {} /\ MaxBytes # 0 /\ tx.evict = {} => Bytes(tx.t, Rows(tx.t) \cap obj) <= MaxBytes
      BY <1>10 DEF CacheIInv, RestoreInv
    <3>1. tx.newly # {} /\ MaxBytes # 0 /\ tx.evict = {} => Bytes(u, Rows(u) \cap obj') <= MaxBytes
      <4> SUFFICES ASSUME tx.newly # {}, MaxBytes # 0, tx.evict = {}
                   PROVE  Bytes(u, Rows(u) \cap obj') <= MaxBytes
        OBVIOUS
      <4>2. /\ tx.t \in Tables /\ Rows(tx.t) \cap obj \in SUBSET Rows(tx.t)
            /\ Rows(u) \cap obj' \in SUBSET (Rows(tx.t) \cap obj)
        BY <1>3, <1>4, <1>5 DEF WellFormed
      <4> QED
        BY <3>0, <4>2, <1>3, FewerBytes
    <3>2. AvailableIn(tx.t, (obj \ tx.t.delq) \cup hist.reused)'
      <4>1. AvailableIn(u, (obj' \ u.delq) \cup hist.reused)
        BY <3>0, <1>3, <1>7
      <4> QED
        BY <1>h, <4>1, <2>1 DEF AvailableIn, Linked
    <3> QED
      BY <3>0, <3>1, <3>2, <1>2, <1>3, <2>1 DEF RestoreInv
  <2>7. (ReplaceInv)'
    BY <2>2 DEF ReplaceInv
  <2>8. (ObjectsAccounted)'
    <3>1. obj \subseteq Rows(tab) \cup tab.clnq \cup tasks \cup hist.lost \cup tx.newly \cup tx.t.clnq
      BY DEF CacheIInv, ObjectsAccounted
    <3>2. obj' \subseteq Rows(tab') \cup tab'.clnq \cup tasks' \cup hist'.lost \cup tx'.newly \cup tx'.t.clnq
      BY <3>1, <1>2, <1>3, <2>1 DEF TasksEnd
    <3> QED
      BY <3>2, <2>2 DEF ObjectsAccounted
  <2> QED
    BY <2>3, <2>4, <2>6, <2>7, <2>8, BesideTab DEF CacheIInv
<1> QED
  BY <1>9, <1>10 DEF CacheIInv, TxTypeOK

\* The tables as they are, as a change that changes nothing.
LEMMA TxAsItIs ==
    ASSUME CacheIInv, tx # Idle
    PROVE  tx = [tx EXCEPT !.t = tx.t, !.base = tab]
<1>1. tx.base = tab
  BY DEF CacheIInv, TxExtends
<1>2. CASE tx \in ReplaceTx
  BY <1>1, <1>2 DEF ReplaceTx
<1>3. CASE tx \in RestoreTx
  BY <1>1, <1>3 DEF RestoreTx
<1> QED
  BY <1>2, <1>3 DEF CacheIInv, TxTypeOK

LEMMA QueueOne ==
    ASSUME NEW t, WellFormed(t), NEW b \in BlobIds
    PROVE  Beside(t, [t EXCEPT !.clnq = @ \cup {b}], {b})
<1> DEFINE S == {b}
           u == [t EXCEPT !.clnq = @ \cup S]
<1>1. S \in SUBSET BlobIds
  OBVIOUS
<1> HIDE DEF S
<1>2. u = [t EXCEPT !.clnq = @ \cup S]
  OBVIOUS
<1> HIDE DEF u
<1>3. Beside(t, u, S)
  BY <1>1, <1>2, QueueCleanups DEF Beside
<1> QED
  BY <1>3 DEF S, u

\* The tables stay; tasks end or an object goes.
LEMMA BesideNothing ==
    ASSUME CacheIInv, tab' = tab, tx' = tx, TasksEnd({}) PROVE (CacheIInv)'
<1>1. WellFormed(tab) /\ (tx # Idle => WellFormed(tx.t) /\ tx.base = tab)
  BY DEF CacheIInv, CacheTypeOK, TxExtends
<1>2. Beside(tab, tab', {}) /\ (tx # Idle => Beside(tx.t, tx.t, {}))
  BY <1>1 DEF Beside, SameRows
<1>3. tx # Idle => tx' = [tx EXCEPT !.t = tx.t, !.base = tab']
  BY TxAsItIs
<1> QED
  BY <1>2, <1>3, BesideIdle, BesideOpen

\* A delete that was given up lands.
LEMMA LateDeleteKeeps ==
    ASSUME CacheIInv, NEW b \in BlobIds, LateDelete(b) PROVE (CacheIInv)'
<1>1. HistTypeOK /\ hist' = hist
  BY DEF CacheIInv, CacheTypeOK, HistTypeOK, LateDelete
<1>2. (HistTypeOK)'
  BY <1>1 DEF HistTypeOK
<1>3. tab' = tab /\ tx' = tx /\ TasksEnd({})
  BY <1>1, <1>2 DEF LateDelete, TasksEnd
<1> QED
  BY <1>3, BesideNothing

LEMMA CleanupTaskKeeps ==
    ASSUME CacheIInv, NEW b \in BlobIds, NEW end \in {"deleted", "queued", "forgotten"}, CleanupTask(b, end)
    PROVE  (CacheIInv)'
<1>0. WellFormed(tab) /\ (tx # Idle => WellFormed(tx.t) /\ tx.base = tab)
  BY DEF CacheIInv, CacheTypeOK, TxExtends
<1>a. HistTypeOK
  BY DEF CacheIInv, CacheTypeOK, HistTypeOK
<1>b. hist' = hist => (HistTypeOK)'
  BY <1>a DEF HistTypeOK
<1>1. CASE end # "queued"
  <2>1. tab' = tab /\ tx' = tx /\ tasks' = tasks \ {b} /\ b \in tasks
    BY <1>1 DEF CleanupTask
  <2>2. CASE end = "deleted"
    <3>1. TasksEnd({})
      BY <1>b, <2>1, <2>2 DEF CleanupTask, TasksEnd
    <3> QED
      BY <2>1, <3>1, BesideNothing
  <2>3. CASE end = "forgotten"
    <3>1. obj' = obj /\ hist' = [hist EXCEPT !.lost = @ \cup {b}]
      BY <2>3 DEF CleanupTask
    <3>2. /\ hist'.lost = hist.lost \cup {b} /\ hist'.reused = hist.reused /\ hist'.over = hist.over
          /\ (HistTypeOK)'
      BY <1>a, <3>1 DEF HistTypeOK
    <3>3. TasksEnd({})
      BY <2>1, <3>1, <3>2 DEF TasksEnd
    <3> QED
      BY <2>1, <3>3, BesideNothing
  <2> QED
    BY <1>1, <2>2, <2>3
<1>2. CASE end = "queued"
  <2>1. /\ tab' = [tab EXCEPT !.clnq = @ \cup {b}] /\ hist' = hist /\ TasksEnd({b})
        /\ tx' = IF tx = Idle THEN tx ELSE [tx EXCEPT !.t.clnq = @ \cup {b}, !.base.clnq = @ \cup {b}]
    BY <1>b, <1>2 DEF CleanupTask, TasksEnd
  <2> DEFINE u == [tx.t EXCEPT !.clnq = @ \cup {b}]
  <2>3. Beside(tab, tab', {b})
    BY <1>0, <2>1, QueueOne
  <2>4. CASE tx = Idle
    BY <2>1, <2>3, <2>4, BesideIdle
  <2>5. CASE tx # Idle
    <3>1. Beside(tx.t, u, {b})
      BY <1>0, <2>5, QueueOne
    <3>2. tx' = [tx EXCEPT !.t = u, !.base = tab']
      <4>1. tx.base = tab
        BY <1>0, <2>5
      <4>2. CASE tx \in ReplaceTx
        BY <4>1, <4>2, <2>1, <2>5 DEF ReplaceTx
      <4>3. CASE tx \in RestoreTx
        BY <4>1, <4>3, <2>1, <2>5 DEF RestoreTx
      <4> QED
        BY <4>2, <4>3, <2>5 DEF CacheIInv, TxTypeOK
    <3> HIDE DEF u
    <3> QED
      BY <2>1, <2>3, <2>5, <3>1, <3>2, BesideOpen
  <2> QED
    BY <2>4, <2>5
<1> QED
  BY <1>1, <1>2

LEMMA ClearKeeps ==
    ASSUME CacheIInv, NEW a \in Articles, ClearForArticle(a) PROVE (CacheIInv)'
<1>0. WellFormed(tab) /\ (tx # Idle => WellFormed(tx.t) /\ tx.base = tab)
  BY DEF CacheIInv, CacheTypeOK, TxExtends
<1> DEFINE L == {p \in tab.link : p[1] # a}
           M == {p \in tx.t.link : p[1] # a}
           u == [tx.t EXCEPT !.link = M]
<1>1. /\ tab' = [tab EXCEPT !.link = L] /\ hist' = hist /\ TasksEnd({})
      /\ tx' = IF tx = Idle THEN tx
               ELSE [tx EXCEPT !.t.link = {p \in @ : p[1] # a}, !.base.link = {p \in @ : p[1] # a}]
  <2>1. (HistTypeOK)'
    BY DEF ClearForArticle, CacheIInv, CacheTypeOK, HistTypeOK
  <2> QED
    BY <2>1 DEF ClearForArticle, TasksEnd
<1>2. Beside(tab, tab', {})
  <2>1. L \in SUBSET (Articles \X Records) /\ L \subseteq tab.link /\ \A p \in L : tab.rec[p[2]] # NoRec
    BY <1>0 DEF WellFormed, Tables
  <2> HIDE DEF L
  <2> QED
    BY <1>0, <1>1, <2>1, LinksOK DEF Beside, SameRows
<1>3. CASE tx = Idle
  BY <1>1, <1>2, <1>3, BesideIdle
<1>4. CASE tx # Idle
  <2>1. Beside(tx.t, u, {})
    <3>1. M \in SUBSET (Articles \X Records) /\ M \subseteq tx.t.link /\ \A p \in M : tx.t.rec[p[2]] # NoRec
      BY <1>0, <1>4 DEF WellFormed, Tables
    <3> HIDE DEF M
    <3> QED
      BY <1>0, <1>4, <3>1, LinksOK DEF Beside, SameRows
  <2>2. tx' = [tx EXCEPT !.t = u, !.base = tab']
    <3>1. tx.base = tab
      BY <1>0, <1>4
    <3>2. CASE tx \in ReplaceTx
      BY <3>1, <3>2, <1>1, <1>4 DEF ReplaceTx
    <3>3. CASE tx \in RestoreTx
      BY <3>1, <3>3, <1>1, <1>4 DEF RestoreTx
    <3> QED
      BY <3>2, <3>3, <1>4 DEF CacheIInv, TxTypeOK
  <2> HIDE DEF u
  <2> QED
    BY <1>1, <1>2, <1>4, <2>1, <2>2, BesideOpen
<1> QED
  BY <1>3, <1>4

-----------------------------------------------------------------------------
(* Steps of a batch. *)

\* tx after an input has been stored.
StoredFields(u, r, b, new, evicted) ==
    /\ tx' \in ReplaceTx /\ tx'.base = tx.base
    /\ tx'.t = [u EXCEPT !.link = @ \cup {<<tx.art, r>>}]
    /\ tx'.newly = tx.newly \cup new /\ tx'.pend = tx.pend \cup new
    /\ tx'.reused = tx.reused \cup ({b} \cap tx.deferred)
    /\ tx'.deferred = tx.deferred \cup evicted
    /\ tx'.ph = "store" => tx'.next \in 1 .. Len(tx'.inputs)

LEMMA StoredTx ==
    ASSUME tx \in ReplaceTx, tx.ph = "store", tx.next \in 1 .. Len(tx.inputs),
           NEW u, u \in Tables, NEW r \in Records, NEW b \in BlobIds,
           NEW new \in SUBSET BlobIds, NEW evicted \in SUBSET BlobIds, Stored(u, r, b, new, evicted)
    PROVE  StoredFields(u, r, b, new, evicted)
<1> DEFINE w == [u EXCEPT !.link = @ \cup {<<tx.art, r>>}]
           ph == IF tx.next = Len(tx.inputs) THEN "decide" ELSE "store"
           got == Append(tx.got, b)
           ru == tx.reused \cup ({b} \cap tx.deferred)
<1>0. tx.art \in Articles /\ tx.next \in Nat /\ tx.next + 1 \in Nat
  BY DEF ReplaceTx
<1>1. w \in Tables
  <2> DEFINE L == u.link \cup {<<tx.art, r>>}
  <2>1. L \in SUBSET (Articles \X Records)
    BY <1>0 DEF Tables
  <2>2. w = [u EXCEPT !.link = L]
    OBVIOUS
  <2> HIDE DEF L, w
  <2> QED
    BY <2>1, <2>2 DEF Tables
<1>2. got \in Seq(BlobIds) /\ ph \in {"store", "decide"} /\ ru \in SUBSET BlobIds
  BY DEF ReplaceTx
<1>3. tx' = [tx EXCEPT !.t = w, !.got = got, !.next = tx.next + 1, !.ph = ph, !.newly = tx.newly \cup new,
                       !.pend = tx.pend \cup new, !.reused = ru, !.deferred = tx.deferred \cup evicted]
  BY DEF Stored, ReplaceTx
<1>4. Len(tx.inputs) \in Nat /\ (ph = "store" => tx.next + 1 \in 1 .. Len(tx.inputs))
  BY DEF ReplaceTx
<1> HIDE DEF w, ph, got, ru
<1>5. /\ tx'.base = tx.base /\ tx'.t = w /\ tx'.newly = tx.newly \cup new
      /\ tx'.pend = tx.pend \cup new /\ tx'.reused = ru /\ tx'.deferred = tx.deferred \cup evicted
      /\ tx'.ph = ph /\ tx'.next = tx.next + 1 /\ tx'.inputs = tx.inputs
  <2>1. DOMAIN tx = {"kind", "ph", "art", "inputs", "next", "hints", "base", "t", "got", "newly",
                     "pend", "deferred", "reused"}
    BY DEF ReplaceTx
  <2> QED
    BY <1>3, <2>1
<1>6. tx' \in ReplaceTx
  <2> DEFINE A == tx.newly \cup new
             B == tx.pend \cup new
             D == tx.deferred \cup evicted
             n == tx.next + 1
  <2>1. A \in SUBSET BlobIds /\ B \in SUBSET BlobIds /\ D \in SUBSET BlobIds /\ n \in Nat
    BY <1>0 DEF ReplaceTx
  <2>2. tx' = [tx EXCEPT !.t = w, !.got = got, !.next = n, !.ph = ph, !.newly = A,
                         !.pend = B, !.reused = ru, !.deferred = D]
    BY <1>3
  <2> HIDE DEF A, B, D, n
  <2> QED
    BY <1>1, <1>2, <2>1, <2>2 DEF ReplaceTx
<1> QED
  BY <1>4, <1>5, <1>6 DEF w, ru, StoredFields

\* An input is stored on tables u in which its record r has its bytes b.
BatchStored(u, r, b, new, evicted) ==
    /\ WellFormed(u) /\ u.rec[r] # NoRec /\ b \in Rows(u)
    /\ tab' = tab /\ tasks' = tasks /\ hist' = hist /\ obj' = obj \cup new
    /\ Rows(u) = Rows(tx.t) \cup new /\ new \cap (Rows(tx.t) \cup tx.t.clnq \cup tasks) = {}
    /\ \A x \in Rows(tx.t) : u.blob[x] = tx.t.blob[x]
    /\ u.link = tx.t.link /\ u.delq = tx.t.delq /\ u.clnq = tx.t.clnq
    /\ \A q \in Records : (Linked(u, q) \/ q = r) /\ u.rec[q].st = "available" =>
          u.rec[q].blob \in (obj' \ (tx.t.delq \cup tx.deferred \cup evicted))
                               \cup hist.reused \cup tx.reused \cup ({b} \cap tx.deferred)
    /\ new = {} => evicted = {}
    /\ new # {} /\ MaxBytes # 0 =>
          Bytes(u, (Rows(u) \cap obj') \ (tx.deferred \cup evicted)) <= MaxBytes

LEMMA StoredKeeps ==
    ASSUME CacheIInv, tx \in ReplaceTx, tx.ph = "store",
           NEW u, NEW r \in Records, NEW b, NEW new \in SUBSET BlobIds, NEW evicted \in SUBSET BlobIds,
           Stored(u, r, b, new, evicted), BatchStored(u, r, b, new, evicted)
    PROVE  (CacheIInv)'
<1> DEFINE w == [u EXCEPT !.link = @ \cup {<<tx.art, r>>}]
<1>0. /\ tx # Idle /\ tx.next \in 1 .. Len(tx.inputs) /\ WellFormed(tab) /\ tx.t.clnq = tab.clnq
      /\ tx.pend \subseteq Rows(tx.t) /\ (tx.pend = {} => Rows(tx.t) = Rows(tab) /\ tx.deferred = {})
  BY TxKinds DEF CacheIInv, CacheTypeOK, TxTypeOK, ReplaceInv
<1>1. u \in Tables /\ b \in BlobIds /\ WellFormed(u)
  BY DEF WellFormed, Rows, BatchStored
<1>2. /\ tx' \in ReplaceTx /\ tx'.base = tx.base /\ tx'.t = w
      /\ tx'.newly = tx.newly \cup new /\ tx'.pend = tx.pend \cup new
      /\ tx'.reused = tx.reused \cup ({b} \cap tx.deferred)
      /\ tx'.deferred = tx.deferred \cup evicted
      /\ tx'.ph = "store" => tx'.next \in 1 .. Len(tx'.inputs)
  <2>2. tx.next \in 1 .. Len(tx.inputs) /\ u \in Tables /\ b \in BlobIds
    BY <1>0, <1>1
  <2>3. StoredFields(u, r, b, new, evicted)
    BY <2>2, StoredTx
  <2> QED
    BY <2>3 DEF StoredFields
<1>3. tx' # Idle /\ tx' \notin RestoreTx
  BY <1>2 DEF ReplaceTx, RestoreTx, Idle
<1>4. /\ WellFormed(w) /\ Rows(w) = Rows(u) /\ w.link = u.link \cup {<<tx.art, r>>}
      /\ w.blob = u.blob /\ w.rec = u.rec /\ w.delq = u.delq /\ w.clnq = u.clnq
  <2> DEFINE L == u.link \cup {<<tx.art, r>>}
  <2>1. L \in SUBSET (Articles \X Records) /\ \A p \in L : u.rec[p[2]] # NoRec
    BY <1>1 DEF WellFormed, Tables, ReplaceTx, BatchStored
  <2>2. w = [u EXCEPT !.link = L]
    OBVIOUS
  <2> HIDE DEF L
  <2>3. /\ WellFormed([u EXCEPT !.link = L]) /\ Rows([u EXCEPT !.link = L]) = Rows(u)
        /\ [u EXCEPT !.link = L].link = L /\ [u EXCEPT !.link = L].blob = u.blob
        /\ [u EXCEPT !.link = L].rec = u.rec /\ [u EXCEPT !.link = L].delq = u.delq
        /\ [u EXCEPT !.link = L].clnq = u.clnq
    BY <1>1, <2>1, LinksOK
  <2> HIDE DEF w
  <2> QED
    BY <2>2, <2>3 DEF L
<1> HIDE DEF w
<1> USE DEF BatchStored
<1>5. /\ tx.base = tab /\ Rows(tab) \subseteq Rows(tx.t) /\ \A x \in Rows(tab) : tx.t.blob[x] = tab.blob[x]
      /\ tx.t.delq = tab.delq /\ tx.newly \subseteq Rows(tx.t) /\ tx.newly \cap Rows(tab) = {}
      /\ NoRowCleaned(tx.t)
  BY <1>0 DEF CacheIInv, TxExtends
<1>6. (TxTypeOK)'
  BY <1>2, <1>3 DEF TxTypeOK
<1>7. (TxExtends)'
  <2>1. Rows(w) \cap (w.clnq \cup tasks) = {}
    BY <1>4, <1>5 DEF NoRowCleaned
  <2>2. NoRowCleaned(tx.t)'
    BY <2>1, <1>2 DEF NoRowCleaned
  <2>3. tx'.newly \cap Rows(tab) = {} /\ tx'.newly \subseteq Rows(w)
    BY <1>2, <1>4, <1>5
  <2>4. \A x \in Rows(tab) : w.blob[x] = tab.blob[x]
    BY <1>4, <1>5
  <2> QED
    BY <2>2, <2>3, <2>4, <1>0, <1>2, <1>4, <1>5 DEF TxExtends
<1>8. (ReplaceInv)'
  <2>1. AvailableIn(w, (obj' \ (w.delq \cup tx'.deferred)) \cup hist.reused \cup tx'.reused)
    <3> SUFFICES ASSUME NEW q \in Records, Linked(w, q), w.rec[q].st = "available"
                 PROVE  w.rec[q].blob \in (obj' \ (w.delq \cup tx'.deferred)) \cup hist.reused \cup tx'.reused
      BY DEF AvailableIn
    <3>1. Linked(u, q) \/ q = r
      BY <1>4 DEF Linked
    <3>2. w.rec[q].blob \in (obj' \ (tx.t.delq \cup tx.deferred \cup evicted))
                               \cup hist.reused \cup tx.reused \cup ({b} \cap tx.deferred)
      BY <3>1, <1>4
    <3> QED
      BY <3>2, <1>2, <1>4
  <2>2. AvailableIn(tx.t, (obj \ (tx.t.delq \cup tx.deferred)) \cup hist.reused \cup tx.reused)'
    BY <2>1, <1>2 DEF AvailableIn, Linked
  <2>3. tx'.t.clnq = tab'.clnq
    BY <1>0, <1>2, <1>4
  <2>4. tx'.pend \subseteq Rows(tx'.t)
    BY <1>0, <1>2, <1>4
  <2>5. tx'.pend = {} => Rows(tx'.t) = Rows(tab') /\ tx'.deferred = {}
    BY <1>0, <1>2, <1>4
  <2>6. tx'.pend # {} /\ MaxBytes # 0 => Bytes(w, (Rows(w) \cap obj') \ tx'.deferred) <= MaxBytes
    <3> SUFFICES ASSUME tx'.pend # {}, MaxBytes # 0
                 PROVE  Bytes(w, (Rows(w) \cap obj') \ tx'.deferred) <= MaxBytes
      OBVIOUS
    <3>1. CASE new # {}
      <4> DEFINE X == (Rows(u) \cap obj') \ (tx.deferred \cup evicted)
      <4>1. Bytes(u, X) <= MaxBytes /\ (Rows(w) \cap obj') \ tx'.deferred = X /\ \A x \in X : w.blob[x] = u.blob[x]
        BY <3>1, <1>2, <1>4
      <4> HIDE DEF X
      <4>2. Bytes(w, X) = Bytes(u, X)
        BY <4>1, BytesAgree
      <4> QED
        BY <4>1, <4>2
    <3>2. CASE new = {}
      <4> DEFINE X == (Rows(tx.t) \cap obj) \ tx.deferred
      <4>1. tx.pend # {}
        BY <3>2, <1>2
      <4>2. Bytes(tx.t, X) <= MaxBytes
        BY <4>1 DEF CacheIInv, ReplaceInv
      <4>3. (Rows(w) \cap obj') \ tx'.deferred = X /\ \A x \in X : w.blob[x] = tx.t.blob[x]
        BY <3>2, <1>2, <1>4
      <4> HIDE DEF X
      <4>4. Bytes(w, X) = Bytes(tx.t, X)
        BY <4>3, BytesAgree
      <4> QED
        BY <4>2, <4>3, <4>4
    <3> QED
      BY <3>1, <3>2
  <2> QED
    BY <2>2, <2>3, <2>4, <2>5, <2>6, <1>2 DEF ReplaceInv
<1>9. (RestoreInv)'
  BY <1>3 DEF RestoreInv
<1>10. (ObjectsAccounted)'
  <2>1. obj \subseteq Rows(tab) \cup tab.clnq \cup tasks \cup hist.lost \cup tx.newly \cup tx.t.clnq
    BY <1>0 DEF CacheIInv, ObjectsAccounted
  <2>2. obj' \subseteq Rows(tab') \cup tab'.clnq \cup tasks' \cup hist'.lost \cup tx'.newly \cup tx'.t.clnq
    BY <2>1, <1>2, <1>4
  <2> QED
    BY <2>2, <1>3 DEF ObjectsAccounted
<1>11. (CacheTypeOK)' /\ NoRowCleaned(tab)'
  BY DEF CacheIInv, CacheTypeOK, NoRowCleaned
<1>12. AvailableIn(tab, (obj \ tab.delq) \cup hist.reused)'
  BY DEF CacheIInv, AvailableIn
<1>13. (CapRespected)'
  <2>1. (Rows(tab') \cap obj') \ tab'.delq \subseteq (Rows(tab) \cap obj) \ tab.delq
    BY <1>5
  <2> QED
    BY <2>1, <1>0, CapKept DEF CacheIInv
<1> QED
  BY <1>6, <1>7, <1>8, <1>9, <1>10, <1>11, <1>12, <1>13 DEF CacheIInv

\* The versions of a URL are records.
LEMMA CurrentOK ==
    ASSUME NEW t, NEW x, Current(t, x) # 0
    PROVE  Current(t, x) \in 1 .. MaxVer /\ t.rec[<<x, Current(t, x)>>] # NoRec
<1> DEFINE S == {v \in 1 .. MaxVer : t.rec[<<x, v>>] # NoRec}
<1>1. S # {} /\ Current(t, x) = Max(S)
  BY DEF Current
<1>2. S \in SUBSET Nat /\ MaxVer \in Nat /\ \A v \in S : v <= MaxVer
  BY CacheConstants
<1>3. Max(S) \in S
  <2> HIDE DEF S
  <2> QED
    BY <1>1, <1>2, GreatestOf
<1> QED
  BY <1>1, <1>3

LEMMA InputOK ==
    ASSUME CacheIInv, tx \in ReplaceTx, tx.ph = "store"
    PROVE  Input.u \in Urls /\ Input.c \in Bodies
<1>1. tx.next \in 1 .. Len(tx.inputs) /\ tx.inputs \in Seq(Inputs)
  BY DEF CacheIInv, TxTypeOK, ReplaceTx
<1>2. tx.inputs[tx.next] \in Inputs
  BY <1>1
<1> QED
  BY <1>2 DEF Input, Inputs

\* A blob that is there is taken for a record.
LEMMA ReuseKeeps ==
    ASSUME CacheIInv, tx \in ReplaceTx, tx.ph = "store", NEW r \in Records, NEW b, NEW c,
           Reusable(tx.t, b, c),
           Stored(Touch([tx.t EXCEPT !.rec[r] = [blob |-> b, st |-> "available"]], b), r, b, {}, {}),
           UNCHANGED <<tab, obj, tasks, hist>>
    PROVE  (CacheIInv)'
<1> DEFINE t1 == [tx.t EXCEPT !.rec[r] = [blob |-> b, st |-> "available"]]
           u == Touch(t1, b)
<1>1. b \in Rows(tx.t) /\ b \in obj /\ b \notin tx.t.delq
  BY DEF Reusable
<1>2. WellFormed(tx.t) /\ tx # Idle
  BY TxKinds DEF CacheIInv, TxExtends
<1>3. /\ WellFormed(t1) /\ Rows(t1) = Rows(tx.t) /\ t1.blob = tx.t.blob /\ t1.link = tx.t.link
      /\ t1.delq = tx.t.delq /\ t1.clnq = tx.t.clnq
      /\ t1.rec[r] = [blob |-> b, st |-> "available"] /\ t1.rec[r] # NoRec
      /\ \A q \in Records \ {r} : t1.rec[q] = tx.t.rec[q]
  BY <1>1, <1>2, RecordOK
<1>4. Stored(u, r, b, {}, {})
  OBVIOUS
<1> HIDE DEF t1
<1>5. /\ WellFormed(u) /\ Rows(u) = Rows(t1) /\ u.blob = t1.blob /\ u.rec = t1.rec /\ u.link = t1.link
      /\ u.delq = t1.delq /\ u.clnq = t1.clnq
  BY <1>1, <1>3, TouchOK
<1> HIDE DEF u
<1>6. AvailableIn(tx.t, (obj \ (tx.t.delq \cup tx.deferred)) \cup hist.reused \cup tx.reused)
  BY DEF CacheIInv, ReplaceInv
<1>7. \A q \in Records : (Linked(u, q) \/ q = r) /\ u.rec[q].st = "available" =>
              u.rec[q].blob \in (obj' \ (tx.t.delq \cup tx.deferred \cup {}))
                                   \cup hist.reused \cup tx.reused \cup ({b} \cap tx.deferred)
  <2> SUFFICES ASSUME NEW q \in Records, Linked(u, q) \/ q = r, u.rec[q].st = "available"
               PROVE  u.rec[q].blob \in (obj' \ (tx.t.delq \cup tx.deferred \cup {}))
                                   \cup hist.reused \cup tx.reused \cup ({b} \cap tx.deferred)
    OBVIOUS
  <2>1. CASE q = r
    <3>1. u.rec[q].blob = b
      BY <2>1, <1>3, <1>5
    <3> QED
      BY <3>1, <1>1
  <2>2. CASE q # r
    <3>1. u.rec[q] = tx.t.rec[q] /\ Linked(tx.t, q)
      BY <2>2, <1>3, <1>5 DEF Linked
    <3> QED
      BY <3>1, <1>6 DEF AvailableIn
  <2> QED
    BY <2>1, <2>2
<1>8. BatchStored(u, r, b, {}, {})
  BY <1>1, <1>3, <1>5, <1>7 DEF BatchStored
<1> QED
  BY <1>4, <1>8, StoredKeeps

LEMMA StoreReuseKeeps == ASSUME CacheIInv, StoreReuse PROVE (CacheIInv)'
<1> DEFINE v == Current(tx.t, Input.u)
           r == <<Input.u, v>>
           n == <<Input.u, v + 1>>
<1>0. tx \in ReplaceTx /\ tx.ph = "store"
  BY TxKinds DEF CacheIInv, TxTypeOK, StoreReuse
<1>1. CASE KeepRecord /\ Stored(Touch([tx.t EXCEPT !.rec[r].st = "available"], Hint), r, Hint, {}, {})
  <2>1. /\ v # 0 /\ tx.t.rec[r].blob = Hint /\ Reusable(tx.t, Hint, Input.c)
    BY <1>1 DEF KeepRecord
  <2>2. r \in Records
    BY <2>1, <1>0, CurrentOK, InputOK DEF Records
  <2>3. [tx.t EXCEPT !.rec[r].st = "available"] = [tx.t EXCEPT !.rec[r] = [blob |-> Hint, st |-> "available"]]
    <3>1. tx.t \in Tables
      BY <1>0 DEF ReplaceTx
    <3>2. tx.t.rec[r] \in [blob : BlobIds \cup {NoBlob}, st : {"none", "available", "missing"}]
      BY <3>1, <2>2 DEF Tables
    <3>3. [tx.t.rec[r] EXCEPT !.st = "available"] = [blob |-> Hint, st |-> "available"]
      BY <3>2, <2>1
    <3> HIDE DEF r
    <3> QED
      BY <3>3
  <2> HIDE DEF r
  <2> QED
    BY <1>0, <1>1, <2>1, <2>2, <2>3, ReuseKeeps DEF StoreReuse
<1>2. CASE /\ Reusable(tx.t, Matching, Input.c) /\ n \in Records
           /\ Stored(Touch(NewVersion(tx.t, Matching), Matching), n, Matching, {}, {})
  <2>1. NewVersion(tx.t, Matching) = [tx.t EXCEPT !.rec[n] = [blob |-> Matching, st |-> "available"]]
    BY DEF NewVersion
  <2> HIDE DEF n
  <2> QED
    BY <1>0, <1>2, <2>1, ReuseKeeps DEF StoreReuse
<1> QED
  BY <1>1, <1>2 DEF StoreReuse

\* A new row b for the bytes c, evictions ev marked, record r on it.
Written(t, ev, b, c, r) ==
    [InsertRow(MarkMissing(t, ev), b, c) EXCEPT !.rec[r] = [blob |-> b, st |-> "available"]]

WrittenFields(t, ev, b, c, r, u) ==
    /\ WellFormed(u) /\ Rows(u) = Rows(t) \cup {b} /\ u.blob[b] = c
    /\ \A x \in Rows(t) : u.blob[x] = t.blob[x]
    /\ u.link = t.link /\ u.delq = t.delq /\ u.clnq = t.clnq
    /\ u.rec[r].blob = b /\ u.rec[r] # NoRec
    /\ \A q \in Records : q # r /\ u.rec[q].st = "available" =>
          t.rec[q].st = "available" /\ u.rec[q].blob = t.rec[q].blob /\ t.rec[q].blob \notin ev

LEMMA WrittenOK ==
    ASSUME NEW t, WellFormed(t), NEW ev \in SUBSET BlobIds, NEW b \in BlobIds, b \notin Rows(t),
           NEW c \in Bodies, NEW r \in Records
    PROVE  WrittenFields(t, ev, b, c, r, Written(t, ev, b, c, r))
<1> DEFINE t1 == MarkMissing(t, ev)
           t2 == InsertRow(t1, b, c)
           u == [t2 EXCEPT !.rec[r] = [blob |-> b, st |-> "available"]]
<1>1. /\ WellFormed(t1) /\ Rows(t1) = Rows(t) /\ t1.blob = t.blob /\ t1.link = t.link
      /\ t1.delq = t.delq /\ t1.clnq = t.clnq
      /\ \A q \in Records : /\ t1.rec[q].blob = t.rec[q].blob
                            /\ t1.rec[q].st = IF t.rec[q].blob \in ev /\ t.rec[q].st = "available"
                                              THEN "missing" ELSE t.rec[q].st
  BY MarkOK
<1> HIDE DEF t1
<1>2. /\ WellFormed(t2) /\ Rows(t2) = Rows(t1) \cup {b} /\ t2.blob[b] = c
      /\ \A x \in Rows(t1) : t2.blob[x] = t1.blob[x]
      /\ t2.rec = t1.rec /\ t2.link = t1.link /\ t2.delq = t1.delq /\ t2.clnq = t1.clnq
  BY <1>1, InsertOK
<1> HIDE DEF t2
<1>3. b \in Rows(t2)
  BY <1>2
<1>4. /\ WellFormed(u) /\ Rows(u) = Rows(t2) /\ u.blob = t2.blob /\ u.link = t2.link
      /\ u.delq = t2.delq /\ u.clnq = t2.clnq
      /\ u.rec[r] = [blob |-> b, st |-> "available"] /\ u.rec[r] # NoRec
      /\ \A q \in Records \ {r} : u.rec[q] = t2.rec[q]
  BY <1>2, <1>3, RecordOK
<1>5. u = Written(t, ev, b, c, r)
  BY DEF Written, t1, t2
<1> HIDE DEF u
<1>6. WrittenFields(t, ev, b, c, r, u)
  BY <1>1, <1>2, <1>4 DEF WrittenFields
<1> QED
  BY <1>5, <1>6

LEMMA StoreWriteKeeps == ASSUME CacheIInv, StoreWrite PROVE (CacheIInv)'
<1> DEFINE b == NewBlobId(tx.t)
           protected == {tx.got[i] : i \in 1 .. Len(tx.got)}
           c == Input.c
           cap == enforce_cache_limit(tx.t, tx.pend, tx.deferred, protected, BodySize[c])
           t1 == InsertRow(MarkMissing(tx.t, cap.evict), b, c)
           r == <<Input.u, Current(tx.t, Input.u) + 1>>
           u == Written(tx.t, cap.evict, b, c, r)
<1>0. tx \in ReplaceTx /\ tx.ph = "store" /\ tx # Idle
  BY TxKinds DEF CacheIInv, TxTypeOK, StoreWrite
<1>1. /\ RoomForBlob(tx.t) /\ r \in Records /\ cap.ok
      /\ obj' = obj \cup {b} /\ Stored(NewVersion(t1, b), r, b, {b}, cap.evict)
      /\ tab' = tab /\ tasks' = tasks /\ hist' = hist
  BY DEF StoreWrite
<1>2. c \in Bodies /\ WellFormed(tx.t) /\ tx.t \in Tables /\ BodySize[c] \in Nat
  BY <1>0, InputOK, CacheConstants DEF CacheIInv, TxExtends, WellFormed
<1>3. b \in BlobIds /\ b \notin Rows(tx.t) \cup obj \cup tx.t.clnq \cup tx.t.delq \cup tasks
  BY <1>1, NewBlobOK
<1> HIDE DEF b, c
<1>4. /\ cap.evict \subseteq (Rows(tx.t) \cap obj) \ (protected \cup tx.deferred)
      /\ MaxBytes # 0 => Fits(tx.t, tx.pend, tx.deferred \cup cap.evict, BodySize[c])
  <2>1. /\ cap.evict \subseteq (Rows(tx.t) \cap obj) \ (protected \cup tx.deferred)
        /\ MaxBytes # 0 /\ cap.ok => Fits(tx.t, tx.pend, tx.deferred \cup cap.evict, BodySize[c])
    <3>1. LimitFields(tx.t, tx.pend, tx.deferred, protected, BodySize[c], cap)
      BY <1>2, LimitOK
    <3> HIDE DEF cap, protected
    <3> QED
      BY <3>1 DEF LimitFields
  <2> QED
    BY <1>1, <2>1
<1> DEFINE ev == cap.evict
<1>5. ev \in SUBSET BlobIds
  BY <1>4 DEF Rows
<1>6. NewVersion(t1, b) = u
  <2>1. Current(t1, Input.u) = Current(tx.t, Input.u)
    <3>1. \A v \in 1 .. MaxVer : <<Input.u, v>> \in Records
      BY <1>0, InputOK DEF Records
    <3> DEFINE m == MarkMissing(tx.t, cap.evict)
    <3>2. \A q \in Records : m.rec[q] # NoRec <=> tx.t.rec[q] # NoRec
      BY <1>2, <1>5, MarkOK
    <3>3. t1.rec = m.rec
      <4>1. WellFormed(m) /\ Rows(m) = Rows(tx.t)
        BY <1>2, <1>5, MarkOK
      <4> HIDE DEF m
      <4>2. InsertRow(m, b, c).rec = m.rec
        BY <1>2, <1>3, <4>1, InsertOK
      <4> QED
        BY <4>2 DEF m
    <3> HIDE DEF m, t1
    <3>4. {v \in 1 .. MaxVer : t1.rec[<<Input.u, v>>] # NoRec} = {v \in 1 .. MaxVer : tx.t.rec[<<Input.u, v>>] # NoRec}
      BY <3>1, <3>2, <3>3
    <3> QED
      BY <3>4 DEF Current
  <2> QED
    BY <2>1 DEF NewVersion, Written
<1>7. Stored(u, r, b, {b}, ev)
  BY <1>1, <1>6
<1> HIDE DEF r, cap, ev
<1>8. WrittenFields(tx.t, ev, b, c, r, u)
  BY <1>1, <1>2, <1>3, <1>5, WrittenOK DEF ev
<1> HIDE DEF u, t1
<1>9. AvailableIn(tx.t, (obj \ (tx.t.delq \cup tx.deferred)) \cup hist.reused \cup tx.reused)
  BY <1>0 DEF CacheIInv, ReplaceInv
<1>10. \A q \in Records : (Linked(u, q) \/ q = r) /\ u.rec[q].st = "available" =>
          u.rec[q].blob \in (obj' \ (tx.t.delq \cup tx.deferred \cup ev))
                               \cup hist.reused \cup tx.reused \cup ({b} \cap tx.deferred)
  <2> SUFFICES ASSUME NEW q \in Records, Linked(u, q) \/ q = r, u.rec[q].st = "available"
               PROVE  u.rec[q].blob \in (obj' \ (tx.t.delq \cup tx.deferred \cup ev))
                               \cup hist.reused \cup tx.reused \cup ({b} \cap tx.deferred)
    OBVIOUS
  <2>1. CASE q = r
    <3>1. u.rec[q].blob = b
      BY <2>1, <1>8 DEF WrittenFields
    <3>2. b \notin ev /\ b \notin tx.t.delq
      BY <1>3, <1>4 DEF ev
    <3> QED
      BY <3>1, <3>2, <1>1
  <2>2. CASE q # r
    <3>1. tx.t.rec[q].st = "available" /\ u.rec[q].blob = tx.t.rec[q].blob /\ tx.t.rec[q].blob \notin ev
      BY <2>2, <1>8 DEF WrittenFields
    <3>2. Linked(tx.t, q)
      BY <2>2, <3>1, <1>8 DEF Linked, WrittenFields
    <3>3. tx.t.rec[q].blob \in (obj \ (tx.t.delq \cup tx.deferred)) \cup hist.reused \cup tx.reused
      BY <3>1, <3>2, <1>9 DEF AvailableIn
    <3> QED
      BY <3>1, <3>3, <1>1
  <2> QED
    BY <2>1, <2>2
<1>11. MaxBytes # 0 => Bytes(u, (Rows(u) \cap obj') \ (tx.deferred \cup ev)) <= MaxBytes
  <2> SUFFICES ASSUME MaxBytes # 0
               PROVE  Bytes(u, (Rows(u) \cap obj') \ (tx.deferred \cup ev)) <= MaxBytes
    OBVIOUS
  <2> DEFINE gone == tx.deferred \cup ev
             S == (Rows(tx.t) \cap obj) \ gone
             T == (Rows(u) \cap obj') \ gone
  <2>1. tx.pend \in SUBSET Rows(tx.t)
    BY <1>0 DEF CacheIInv, ReplaceInv
  <2>2. Fits(tx.t, tx.pend, gone, BodySize[c])
    BY <1>4 DEF ev
  <2>3. Bytes(tx.t, S) + BodySize[c] <= MaxBytes
    <3> HIDE DEF gone
    <3> QED
      BY <1>2, <2>1, <2>2, FitsMeans
  <2>4. /\ u \in Tables /\ S \in SUBSET Rows(tx.t) /\ b \in Rows(u) /\ S \subseteq Rows(u)
        /\ \A x \in S : u.blob[x] = tx.t.blob[x] /\ u.blob[b] = c
    BY <1>8 DEF WrittenFields, WellFormed
  <2>5. T \in SUBSET (S \cup {b}) /\ u.blob[b] = c
    BY <1>1, <1>8 DEF WrittenFields
  <2> HIDE DEF S, T
  <2>6. Bytes(u, T) <= MaxBytes
    BY <1>2, <2>3, <2>4, <2>5, RoomUsed
  <2> QED
    BY <2>6 DEF T
<1>12. BatchStored(u, r, b, {b}, ev)
  <2>1. /\ WellFormed(u) /\ u.rec[r] # NoRec /\ b \in Rows(u) /\ Rows(u) = Rows(tx.t) \cup {b}
        /\ {b} \cap (Rows(tx.t) \cup tx.t.clnq \cup tasks) = {}
        /\ \A x \in Rows(tx.t) : u.blob[x] = tx.t.blob[x]
        /\ u.link = tx.t.link /\ u.delq = tx.t.delq /\ u.clnq = tx.t.clnq
    BY <1>3, <1>8 DEF WrittenFields
  <2> QED
    BY <2>1, <1>1, <1>10, <1>11 DEF BatchStored
<1>13. {b} \in SUBSET BlobIds
  BY <1>3
<1> QED
  BY <1>0, <1>1, <1>5, <1>7, <1>12, <1>13, StoredKeeps

LEMMA StoreFailsKeeps ==
    ASSUME CacheIInv, NEW written \in BOOLEAN, StoreFails(written)
    PROVE  (CacheIInv)'
<1> DEFINE b == NewBlobId(tx.t)
           made == tx.newly \cup (IF written THEN {b} ELSE {})
<1>l. PICK left \in SUBSET made, forgotten \in SUBSET made :
         /\ obj' = (obj \ made) \cup left \cup forgotten
         /\ tx' = [tx EXCEPT !.t = [tx.base EXCEPT !.clnq = @ \cup left], !.newly = {}, !.pend = {},
                             !.deferred = {}, !.reused = {}, !.ph = "decide"]
         /\ hist' = [hist EXCEPT !.lost = @ \cup forgotten]
  BY DEF StoreFails
<1> DEFINE w == [tx.base EXCEPT !.clnq = @ \cup left]
<1>0. tx \in ReplaceTx /\ tx.ph = "store" /\ tx # Idle
  BY TxKinds DEF CacheIInv, TxTypeOK, StoreFails
<1>1. /\ RoomForBlob(tx.t) /\ left \subseteq made /\ obj' = (obj \ made) \cup left \cup forgotten
      /\ tab' = tab /\ tasks' = tasks
      /\ tx' = [tx EXCEPT !.t = w, !.newly = {}, !.pend = {}, !.deferred = {}, !.reused = {}, !.ph = "decide"]
  BY <1>l DEF StoreFails
<1>2. b \in BlobIds /\ b \notin Rows(tx.t) \cup obj \cup tx.t.clnq \cup tx.t.delq \cup tasks
  BY <1>1, NewBlobOK
<1>3. /\ tx.base = tab /\ WellFormed(tab) /\ Rows(tab) \subseteq Rows(tx.t) /\ tx.t.clnq = tab.clnq
      /\ tx.newly \subseteq Rows(tx.t) /\ tx.newly \cap Rows(tab) = {} /\ tx.newly \subseteq BlobIds
      /\ NoRowCleaned(tx.t) /\ NoRowCleaned(tab)
  BY <1>0 DEF CacheIInv, CacheTypeOK, TxExtends, ReplaceInv, ReplaceTx
<1>4. made \cap Rows(tab) = {} /\ made \subseteq BlobIds
  BY <1>2, <1>3
<1>h. /\ hist'.lost = hist.lost \cup forgotten /\ hist'.reused = hist.reused /\ hist'.over = hist.over
      /\ (HistTypeOK)'
  <2>1. HistTypeOK /\ forgotten \subseteq BlobIds
    BY <1>4 DEF CacheIInv, CacheTypeOK, HistTypeOK
  <2> QED
    BY <1>l, <2>1 DEF HistTypeOK
<1> HIDE DEF b, made
<1>5. /\ WellFormed(w) /\ Rows(w) = Rows(tab) /\ SameRows(tab, w)
      /\ w.link = tab.link /\ w.clnq = tab.clnq \cup left /\ w.delq = tab.delq
  <2>1. left \in SUBSET BlobIds
    BY <1>4
  <2> QED
    BY <1>3, <2>1, QueueCleanups
<1> HIDE DEF w
<1>6. /\ tx' \in ReplaceTx /\ tx'.t = w /\ tx'.base = tab /\ tx'.newly = {} /\ tx'.pend = {}
      /\ tx'.deferred = {} /\ tx'.reused = {} /\ tx'.ph = "decide"
  <2>1. w \in Tables
    BY <1>5 DEF WellFormed
  <2> QED
    BY <1>0, <1>1, <1>3, <2>1 DEF ReplaceTx
<1>7. tx' # Idle /\ tx' \notin RestoreTx
  BY <1>6 DEF ReplaceTx, RestoreTx, Idle
<1>8. (TxTypeOK)' /\ (RestoreInv)'
  BY <1>6, <1>7 DEF TxTypeOK, RestoreInv
<1>9. (TxExtends)'
  <2>1. Rows(w) \cap (w.clnq \cup tasks) = {}
    BY <1>1, <1>3, <1>4, <1>5 DEF NoRowCleaned
  <2> QED
    BY <2>1, <1>1, <1>3, <1>5, <1>6 DEF TxExtends, NoRowCleaned, SameRows
<1>10. \A q \in Records : Linked(tab, q) /\ tab.rec[q].st = "available" =>
          tab.rec[q].blob \in (obj' \ tab.delq) \cup hist.reused
  <2> SUFFICES ASSUME NEW q \in Records, Linked(tab, q), tab.rec[q].st = "available"
               PROVE  tab.rec[q].blob \in (obj' \ tab.delq) \cup hist.reused
    OBVIOUS
  <2>1. tab.rec[q].blob \in (obj \ tab.delq) \cup hist.reused
    BY DEF CacheIInv, AvailableIn
  <2>2. tab.rec[q].blob \in Rows(tab)
    BY <1>3, LinkedHasRow
  <2> QED
    BY <2>1, <2>2, <1>1, <1>4
<1>11. (ReplaceInv)'
  <2>1. AvailableIn(w, (obj' \ (w.delq \cup {})) \cup hist.reused \cup {})
    BY <1>5, <1>10 DEF AvailableIn, Linked, SameRows
  <2>2. AvailableIn(tx.t, (obj \ (tx.t.delq \cup tx.deferred)) \cup hist.reused \cup tx.reused)'
    BY <1>h, <2>1, <1>1, <1>6 DEF AvailableIn, Linked
  <2> QED
    BY <2>2, <1>1, <1>5, <1>6 DEF ReplaceInv
<1>12. AvailableIn(tab, (obj \ tab.delq) \cup hist.reused)'
  BY <1>h, <1>1, <1>10 DEF AvailableIn
<1>13. (CacheTypeOK)' /\ NoRowCleaned(tab)'
  BY <1>h, <1>1, <1>4 DEF CacheIInv, CacheTypeOK, NoRowCleaned, HistTypeOK
<1>14. (CapRespected)'
  <2>1. (Rows(tab') \cap obj') \ tab'.delq \subseteq (Rows(tab) \cap obj) \ tab.delq
    BY <1>1, <1>4
  <2> QED
    BY <1>h, <2>1, <1>1, <1>3, CapKept DEF CacheIInv
<1>15. (ObjectsAccounted)'
  <2>1. obj \subseteq Rows(tab) \cup tab.clnq \cup tasks \cup hist.lost \cup tx.newly
    BY <1>0, <1>3 DEF CacheIInv, ObjectsAccounted
  <2>2. obj' \subseteq Rows(tab') \cup tab'.clnq \cup tasks' \cup hist'.lost \cup tx'.newly \cup tx'.t.clnq
    BY <1>h, <2>1, <1>1, <1>5, <1>6 DEF made
  <2> QED
    BY <2>2, <1>7 DEF ObjectsAccounted
<1> QED
  BY <1>8, <1>9, <1>11, <1>12, <1>13, <1>14, <1>15 DEF CacheIInv

\* A transaction begins on the committed tables.
LEMMA BeginKeepsTab ==
    ASSUME CacheIInv, tab' = tab, tasks' = tasks, hist' = hist, NEW new \in SUBSET BlobIds,
           obj' = obj \cup new, new \cap Rows(tab) = {}
    PROVE  /\ (CacheTypeOK)' /\ NoRowCleaned(tab)' /\ (CapRespected)'
           /\ AvailableIn(tab, (obj \ tab.delq) \cup hist.reused)'
<1>1. WellFormed(tab)
  BY DEF CacheIInv, CacheTypeOK
<1>2. (CacheTypeOK)' /\ NoRowCleaned(tab)'
  BY DEF CacheIInv, CacheTypeOK, NoRowCleaned
<1>3. AvailableIn(tab, (obj \ tab.delq) \cup hist.reused)'
  BY DEF CacheIInv, AvailableIn
<1>4. (CapRespected)'
  <2>1. (Rows(tab') \cap obj') \ tab'.delq \subseteq (Rows(tab) \cap obj) \ tab.delq
    OBVIOUS
  <2> QED
    BY <1>1, <2>1, CapKept DEF CacheIInv
<1> QED
  BY <1>2, <1>3, <1>4

\* A function on an initial segment is a sequence.
LEMMA Tuples == ASSUME NEW S, NEW n \in Nat, NEW f \in [1 .. n -> S] PROVE f \in Seq(S) /\ Len(f) \in Nat
  OBVIOUS

LEMMA BeginReplaceKeeps ==
    ASSUME CacheIInv, NEW a \in Articles, NEW inputs \in Batches, BeginReplace(a, inputs)
    PROVE  (CacheIInv)'
<1> DEFINE L == {p \in tab.link : p[1] # a}
           w == [tab EXCEPT !.link = L]
           h == prepare_asset_batch(tab, inputs)
           new == [kind |-> "replace", ph |-> "store", art |-> a, inputs |-> inputs, next |-> 1,
                   hints |-> h, base |-> tab, t |-> w,
                   got |-> <<>>, newly |-> {}, pend |-> {}, deferred |-> {}, reused |-> {}]
<1>1. /\ tx = Idle /\ 1 <= Len(inputs) /\ tab' = tab /\ obj' = obj /\ tasks' = tasks /\ hist' = hist
      /\ tx' = new
  BY DEF BeginReplace
<1>2. WellFormed(tab) /\ NoRowCleaned(tab) /\ AvailableIn(tab, (obj \ tab.delq) \cup hist.reused)
  BY DEF CacheIInv, CacheTypeOK
<1>3. inputs \in Seq(Inputs) /\ Len(inputs) \in Nat
  <2>1. PICK n \in 1 .. MaxCount : inputs \in [1 .. n -> [u : Urls, c : Bodies]]
    BY DEF Batches
  <2>2. n \in Nat /\ inputs \in [1 .. n -> Inputs]
    BY <2>1, CacheConstants DEF Inputs
  <2> QED
    BY <2>2, Tuples
<1>4. h \in UNION {[1 .. n -> SomeIds] : n \in Nat}
  <2> DEFINE S(i) == {b \in BlobIds : Reusable(tab, b, inputs[i].c)}
  <2>1. \A i \in 1 .. Len(inputs) : (IF S(i) = {} THEN NoBlob ELSE Min(S(i))) \in SomeIds
    <3> SUFFICES ASSUME NEW i \in 1 .. Len(inputs), S(i) # {} PROVE Min(S(i)) \in BlobIds
      BY DEF SomeIds
    <3>1. S(i) \in SUBSET Nat /\ S(i) \subseteq BlobIds
      BY NamesOK
    <3> HIDE DEF S
    <3> QED
      BY <3>1, MinOf
  <2>2. h = [i \in 1 .. Len(inputs) |-> IF S(i) = {} THEN NoBlob ELSE Min(S(i))]
    BY DEF prepare_asset_batch
  <2> HIDE DEF S
  <2>3. h \in [1 .. Len(inputs) -> SomeIds]
    BY <2>1, <2>2
  <2> HIDE DEF h
  <2> QED
    BY <2>3, <1>3
<1> HIDE DEF h
<1>5. /\ WellFormed(w) /\ Rows(w) = Rows(tab) /\ w.link = L /\ w.blob = tab.blob /\ w.rec = tab.rec
      /\ w.delq = tab.delq /\ w.clnq = tab.clnq
  <2>1. L \in SUBSET (Articles \X Records) /\ \A p \in L : tab.rec[p[2]] # NoRec
    BY <1>2 DEF WellFormed, Tables
  <2> HIDE DEF L
  <2> QED
    BY <1>2, <2>1, LinksOK
<1>6. L \subseteq tab.link
  OBVIOUS
<1> HIDE DEF L, w
<1>7. /\ tx' \in ReplaceTx /\ tx'.t = w /\ tx'.base = tab /\ tx'.newly = {} /\ tx'.pend = {}
      /\ tx'.deferred = {} /\ tx'.reused = {} /\ tx'.next = 1 /\ tx'.inputs = inputs
  <2>1. w \in Tables /\ tab \in Tables
    BY <1>2, <1>5 DEF WellFormed
  <2>2. <<>> \in Seq(BlobIds) /\ 1 \in Nat
    OBVIOUS
  <2>3. new \in ReplaceTx
    BY <1>3, <1>4, <2>1, <2>2 DEF ReplaceTx
  <2> QED
    BY <1>1, <2>3
<1>8. tx' # Idle /\ tx' \notin RestoreTx
  BY <1>7 DEF ReplaceTx, RestoreTx, Idle
<1>9. (TxTypeOK)' /\ (RestoreInv)'
  BY <1>1, <1>3, <1>7, <1>8 DEF TxTypeOK, RestoreInv
<1>10. (TxExtends)'
  BY <1>1, <1>2, <1>5, <1>7 DEF TxExtends, NoRowCleaned
<1>11. (ReplaceInv)'
  <2>1. AvailableIn(w, (obj \ tab.delq) \cup hist.reused)
    BY <1>2, <1>5, <1>6 DEF AvailableIn, Linked
  <2>2. AvailableIn(tx.t, (obj \ (tx.t.delq \cup tx.deferred)) \cup hist.reused \cup tx.reused)'
    BY <2>1, <1>1, <1>5, <1>7 DEF AvailableIn, Linked
  <2> QED
    BY <2>2, <1>1, <1>5, <1>7 DEF ReplaceInv
<1>12. (ObjectsAccounted)'
  <2>1. obj' \subseteq Rows(tab') \cup tab'.clnq \cup tasks' \cup hist'.lost
    BY <1>1 DEF CacheIInv, ObjectsAccounted
  <2> QED
    BY <2>1 DEF ObjectsAccounted
<1>13. /\ (CacheTypeOK)' /\ NoRowCleaned(tab)' /\ (CapRespected)'
       /\ AvailableIn(tab, (obj \ tab.delq) \cup hist.reused)'
  <2> DEFINE none == {}
  <2>1. none \in SUBSET BlobIds /\ obj' = obj \cup none /\ none \cap Rows(tab) = {}
    BY <1>1
  <2> HIDE DEF none
  <2> QED
    BY <1>1, <2>1, BeginKeepsTab
<1> QED
  BY <1>9, <1>10, <1>11, <1>12, <1>13 DEF CacheIInv

\* What a restore has when it begins: tables w with the bytes b under record r.
RestoreBegun(w, b, new, ev) ==
    /\ tx' \in RestoreTx /\ tx'.t = w /\ tx'.base = tab /\ tx'.newly = new /\ tx'.evict = ev
    /\ tab' = tab /\ tasks' = tasks /\ hist' = hist /\ obj' = obj \cup new
    /\ new \cap (Rows(tab) \cup tab.clnq \cup tasks) = {}
    /\ WellFormed(w) /\ Rows(w) = Rows(tab) \cup new /\ \A x \in Rows(tab) : w.blob[x] = tab.blob[x]
    /\ w.link = tab.link /\ w.delq = tab.delq /\ w.clnq = tab.clnq
    /\ AvailableIn(w, (obj' \ tab.delq) \cup hist.reused)
    /\ new # {} /\ MaxBytes # 0 /\ ev = {} => Bytes(w, Rows(w) \cap obj') <= MaxBytes

LEMMA RestoreBegunKeeps ==
    ASSUME CacheIInv, tx = Idle, NEW w, NEW b, NEW new \in SUBSET BlobIds, NEW ev, RestoreBegun(w, b, new, ev)
    PROVE  (CacheIInv)'
<1> USE DEF RestoreBegun
<1>1. tx' # Idle /\ tx' \notin ReplaceTx
  BY DEF ReplaceTx, RestoreTx, Idle
<1>2. (TxTypeOK)' /\ (ReplaceInv)'
  BY <1>1 DEF TxTypeOK, ReplaceInv
<1>3. NoRowCleaned(tab)
  BY DEF CacheIInv
<1>4. (TxExtends)'
  BY <1>3 DEF TxExtends, NoRowCleaned
<1>5. (RestoreInv)'
  <2>1. AvailableIn(tx.t, (obj \ tx.t.delq) \cup hist.reused)'
    BY DEF AvailableIn, Linked
  <2> QED
    BY <2>1 DEF RestoreInv
<1>6. (ObjectsAccounted)'
  <2>1. obj \subseteq Rows(tab) \cup tab.clnq \cup tasks \cup hist.lost
    BY DEF CacheIInv, ObjectsAccounted
  <2>2. obj' \subseteq Rows(tab') \cup tab'.clnq \cup tasks' \cup hist'.lost \cup tx'.newly \cup tx'.t.clnq
    BY <2>1
  <2> QED
    BY <2>2, <1>1 DEF ObjectsAccounted
<1>7. new \cap Rows(tab) = {}
  OBVIOUS
<1>8. /\ (CacheTypeOK)' /\ NoRowCleaned(tab)' /\ (CapRespected)'
      /\ AvailableIn(tab, (obj \ tab.delq) \cup hist.reused)'
  BY <1>7, BeginKeepsTab
<1> QED
  BY <1>2, <1>4, <1>5, <1>6, <1>8 DEF CacheIInv

LEMMA BeginRestoreKeeps ==
    ASSUME CacheIInv, NEW r \in Records, NEW c \in Bodies, NEW ok \in BOOLEAN, BeginRestore(r, c, ok)
    PROVE  (CacheIInv)'
<1> DEFINE S == {x \in BlobIds : Reusable(tab, x, c)}
           b == NewBlobId(tab)
           cap == enforce_cache_limit(tab, {}, {}, {}, BodySize[c])
           t1 == InsertRow(MarkMissing(tab, cap.evict), b, c)
           use == IF S # {} THEN Min(S) ELSE b
           t2 == IF S # {} THEN tab ELSE t1
           t3 == [t2 EXCEPT !.rec[r] = [blob |-> use, st |-> "available"]]
           w == Touch(t3, use)
           ev == IF S # {} THEN {} ELSE cap.evict
           new == IF S # {} THEN {} ELSE {use}
<1>1. /\ tx = Idle /\ Linked(tab, r) /\ (S # {} \/ (RoomForBlob(tab) /\ cap.ok))
      /\ obj' = obj \cup {use} /\ tab' = tab /\ tasks' = tasks /\ hist' = hist
      /\ tx' = [kind |-> "restore", rec |-> r, blob |-> use, evict |-> ev, newly |-> new, failed |-> ~ok,
                base |-> tab, t |-> w]
  BY DEF BeginRestore
<1>2. WellFormed(tab) /\ AvailableIn(tab, (obj \ tab.delq) \cup hist.reused) /\ tab \in Tables
  BY DEF CacheIInv, CacheTypeOK, WellFormed
<1>c. ASSUME w \in Tables, use \in BlobIds, ev \in SUBSET BlobIds, new \in SUBSET BlobIds
      PROVE  tx' \in RestoreTx /\ tx'.t = w /\ tx'.base = tab /\ tx'.newly = new /\ tx'.evict = ev
  <2> HIDE DEF S, b, cap, t1, use, t2, t3, w, ev, new
  <2> QED
    BY <1>1, <1>2, <1>c DEF RestoreTx
<1>3. CASE S # {}
  <2>1. use \in S /\ t2 = tab /\ ev = {} /\ new = {}
    <3>1. S \in SUBSET Nat
      BY NamesOK
    <3> HIDE DEF S
    <3>2. Min(S) \in S
      BY <1>3, <3>1, MinOf
    <3> QED
      BY <1>3, <3>2
  <2>2. use \in Rows(tab) /\ use \in obj /\ use \notin tab.delq /\ use \in BlobIds
    BY <2>1 DEF Reusable
  <2> HIDE DEF S, b, cap, t1, use, t2, ev, new
  <2>3. /\ WellFormed(t3) /\ Rows(t3) = Rows(tab) /\ t3.blob = tab.blob /\ t3.link = tab.link
        /\ t3.delq = tab.delq /\ t3.clnq = tab.clnq
        /\ t3.rec[r] = [blob |-> use, st |-> "available"] /\ t3.rec[r] # NoRec
        /\ \A q \in Records \ {r} : t3.rec[q] = tab.rec[q]
    BY <1>2, <2>1, <2>2, RecordOK
  <2> HIDE DEF t3
  <2>4. /\ WellFormed(w) /\ Rows(w) = Rows(t3) /\ w.blob = t3.blob /\ w.rec = t3.rec /\ w.link = t3.link
        /\ w.delq = t3.delq /\ w.clnq = t3.clnq
    BY <2>2, <2>3, TouchOK
  <2> HIDE DEF w
  <2>5. AvailableIn(w, (obj' \ tab.delq) \cup hist.reused)
    <3> SUFFICES ASSUME NEW q \in Records, Linked(w, q), w.rec[q].st = "available"
                 PROVE  w.rec[q].blob \in (obj' \ tab.delq) \cup hist.reused
      BY DEF AvailableIn
    <3>1. CASE q = r
      <4>1. w.rec[q].blob = use
        BY <3>1, <2>3, <2>4
      <4> QED
        BY <4>1, <2>2, <1>1
    <3>2. CASE q # r
      <4>1. w.rec[q] = tab.rec[q] /\ Linked(tab, q)
        BY <3>2, <2>3, <2>4 DEF Linked
      <4> QED
        BY <4>1, <1>1, <1>2 DEF AvailableIn
    <3> QED
      BY <3>1, <3>2
  <2>6. obj' = obj \cup new /\ Rows(w) = Rows(tab) \cup new /\ new \in SUBSET BlobIds /\ ev \in SUBSET BlobIds
    BY <1>1, <2>1, <2>2, <2>3, <2>4
  <2>7. tx' \in RestoreTx /\ tx'.t = w /\ tx'.base = tab /\ tx'.newly = new /\ tx'.evict = ev
    BY <1>c, <2>2, <2>4, <2>6 DEF WellFormed
  <2>8. RestoreBegun(w, use, new, ev)
    BY <1>1, <2>1, <2>3, <2>4, <2>5, <2>6, <2>7 DEF RestoreBegun
  <2> QED
    BY <1>1, <2>6, <2>8, RestoreBegunKeeps
<1>4. CASE S = {}
  <2>1. use = b /\ t2 = t1 /\ ev = cap.evict /\ new = {b} /\ RoomForBlob(tab) /\ cap.ok
    BY <1>1, <1>4
  <2>2. b \in BlobIds /\ b \notin Rows(tab) \cup obj \cup tab.clnq \cup tab.delq \cup tasks
    BY <2>1, NewBlobOK
  <2>3. LimitFields(tab, {}, {}, {}, BodySize[c], cap)
    BY <1>2, LimitOK
  <2> HIDE DEF S, b, cap, use, t2, ev, new
  <2>4. /\ ev \in SUBSET BlobIds
        /\ MaxBytes # 0 => Fits(tab, {}, {} \cup ev, BodySize[c])
    BY <2>1, <2>3 DEF LimitFields, Rows
  <2>5. t3 = Written(tab, ev, b, c, r)
    BY <2>1 DEF Written
  <2> HIDE DEF t1, t3
  <2>6. WrittenFields(tab, ev, b, c, r, t3)
    BY <1>2, <2>2, <2>4, <2>5, WrittenOK
  <2>7. /\ WellFormed(w) /\ Rows(w) = Rows(t3) /\ w.blob = t3.blob /\ w.rec = t3.rec /\ w.link = t3.link
        /\ w.delq = t3.delq /\ w.clnq = t3.clnq
    <3>1. WellFormed(t3) /\ use \in Rows(t3)
      BY <2>1, <2>6 DEF WrittenFields
    <3> QED
      BY <3>1, TouchOK
  <2> HIDE DEF w
  <2>8. AvailableIn(w, (obj' \ tab.delq) \cup hist.reused)
    <3> SUFFICES ASSUME NEW q \in Records, Linked(w, q), w.rec[q].st = "available"
                 PROVE  w.rec[q].blob \in (obj' \ tab.delq) \cup hist.reused
      BY DEF AvailableIn
    <3>1. CASE q = r
      <4>1. w.rec[q].blob = b
        BY <3>1, <2>6, <2>7 DEF WrittenFields
      <4> QED
        BY <4>1, <2>1, <2>2, <1>1
    <3>2. CASE q # r
      <4>1. tab.rec[q].st = "available" /\ w.rec[q].blob = tab.rec[q].blob
        BY <3>2, <2>6, <2>7 DEF WrittenFields
      <4>2. Linked(tab, q)
        BY <4>1, <2>6, <2>7 DEF WrittenFields, Linked
      <4> QED
        BY <4>1, <4>2, <1>1, <1>2 DEF AvailableIn
    <3> QED
      BY <3>1, <3>2
  <2>9. MaxBytes # 0 /\ ev = {} => Bytes(w, Rows(w) \cap obj') <= MaxBytes
    <3> SUFFICES ASSUME MaxBytes # 0, ev = {} PROVE Bytes(w, Rows(w) \cap obj') <= MaxBytes
      OBVIOUS
    <3> DEFINE gone == {} \cup ev
               R == (Rows(tab) \cap obj) \ gone
               T == Rows(w) \cap obj'
               none == {}
    <3>1. none \in SUBSET Rows(tab) /\ Fits(tab, none, gone, BodySize[c]) /\ BodySize[c] \in Nat
      BY <2>4, CacheConstants
    <3>2. Bytes(tab, R) + BodySize[c] <= MaxBytes
      <4> HIDE DEF gone, none
      <4> QED
        BY <1>2, <3>1, FitsMeans
    <3>3. /\ w \in Tables /\ R \in SUBSET Rows(tab) /\ b \in Rows(w) /\ R \subseteq Rows(w)
          /\ \A x \in R : w.blob[x] = tab.blob[x]
      BY <2>6, <2>7 DEF WrittenFields, WellFormed
    <3>4. T \in SUBSET (R \cup {b}) /\ w.blob[b] = c
      BY <1>1, <2>1, <2>6, <2>7 DEF WrittenFields
    <3> HIDE DEF R, T
    <3>5. Bytes(w, T) <= MaxBytes
      BY <1>2, <3>2, <3>3, <3>4, RoomUsed
    <3> QED
      BY <3>5 DEF T
  <2>10. /\ obj' = obj \cup new /\ Rows(w) = Rows(tab) \cup new /\ new \in SUBSET BlobIds
         /\ new \cap (Rows(tab) \cup tab.clnq \cup tasks) = {}
         /\ \A x \in Rows(tab) : w.blob[x] = tab.blob[x]
         /\ w.link = tab.link /\ w.delq = tab.delq /\ w.clnq = tab.clnq
    BY <1>1, <2>1, <2>2, <2>6, <2>7 DEF WrittenFields
  <2>11. tx' \in RestoreTx /\ tx'.t = w /\ tx'.base = tab /\ tx'.newly = new /\ tx'.evict = ev
    BY <1>c, <2>1, <2>2, <2>4, <2>7, <2>10 DEF WellFormed
  <2>12. RestoreBegun(w, use, new, ev)
    BY <1>1, <2>7, <2>8, <2>9, <2>10, <2>11 DEF RestoreBegun
  <2> QED
    BY <1>1, <2>10, <2>12, RestoreBegunKeeps
<1> QED
  BY <1>3, <1>4

-----------------------------------------------------------------------------
(* The theorem. *)

LEMMA CacheStep == ASSUME CacheIInv, [CacheNext]_cacheVars PROVE (CacheIInv)'
<1>1. CASE UNCHANGED cacheVars
  <2>1. tab' = tab /\ obj' = obj /\ tx' = tx /\ tasks' = tasks /\ hist' = hist
    BY <1>1 DEF cacheVars
  <2> QED
    BY <2>1 DEF CacheIInv, CacheTypeOK, TxTypeOK, NoRowCleaned, TxExtends, AvailableIn, ReplaceInv, RestoreInv,
                ObjectsAccounted, CapRespected
<1>2. CASE \E a \in Articles, inputs \in Batches : BeginReplace(a, inputs)
  BY <1>2, BeginReplaceKeeps
<1>3. CASE StoreReuse
  BY <1>3, StoreReuseKeeps
<1>4. CASE StoreWrite
  BY <1>4, StoreWriteKeeps
<1>5. CASE \E written \in BOOLEAN : StoreFails(written)
  BY <1>5, StoreFailsKeeps
<1>6. CASE \E done \in BOOLEAN : Commit(done)
  BY <1>6, CommitKeeps
<1>7. CASE Abandon
  BY <1>7, AbandonKeeps
<1>8. CASE \E b \in BlobIds, end \in {"deleted", "queued", "forgotten"} : CleanupTask(b, end)
  BY <1>8, CleanupTaskKeeps
<1>9. CASE \E r \in Records, c \in Bodies, ok \in BOOLEAN : BeginRestore(r, c, ok)
  BY <1>9, BeginRestoreKeeps
<1>10. CASE \E done \in BOOLEAN : CommitRestore(done)
  BY <1>10, CommitRestoreKeeps
<1>11. CASE \E dropped \in BOOLEAN : AbandonRestore(dropped)
  <2>1. AbandonRestore(TRUE) \/ AbandonRestore(FALSE)
    BY <1>11
  <2> QED
    BY <2>1, AbandonKeeps, DroppedRestoreKeeps
<1>12. CASE \E r \in Records : ReadAndTouch(r)
  BY <1>12, ReadKeeps
<1>13. CASE \E a \in Articles : ClearForArticle(a)
  BY <1>13, ClearKeeps
<1>14. CASE \E stale \in SUBSET BlobIds, repaired \in SUBSET {r \in Records : tab.rec[r] # NoRec} :
               Maintain(stale, repaired) \/ MaintainFails(stale, repaired)
  BY <1>14, MaintainKeeps, MaintainFailsKeeps
<1>15. CASE \E S \in SUBSET BlobIds : DrainDeletions(S)
  BY <1>15, DrainDeletionsKeeps
<1>16. CASE \E S \in SUBSET BlobIds : DrainCleanups(S)
  BY <1>16, DrainCleanupsKeeps
<1>17. CASE Crash
  BY <1>17, CrashKeeps
<1>18. CASE \E b \in BlobIds : LateDelete(b)
  BY <1>18, LateDeleteKeeps
<1> QED
  BY <1>1, <1>2, <1>3, <1>4, <1>5, <1>6, <1>7, <1>8, <1>9, <1>10, <1>11, <1>12, <1>13, <1>14, <1>15,
     <1>16, <1>17, <1>18 DEF CacheNext

LEMMA CacheInvariant == CacheSpec => []CacheIInv
<1>1. CacheInit => CacheIInv
  BY InitialCache
<1>2. CacheIInv /\ [CacheNext]_cacheVars => (CacheIInv)'
  BY CacheStep
<1> QED
  BY <1>1, <1>2, PTL DEF CacheSpec

(* No record that an article shows as available is without its bytes, in   *)
(* any interleaving of batches, restores, maintenance, drains, failed      *)
(* puts, lost answers and crashes, for any images, sizes and limits; but   *)
(* for blobs that a batch reused after it had decided to evict them, and   *)
(* blobs that were reused while a deletion of them was still to land.      *)
THEOREM AvailableImagesAreServed == CacheSpec => []AvailableIsServed
<1>1. CacheIInv => AvailableIsServed
  BY DEF CacheIInv, AvailableIn, AvailableIsServed, Served
<1> QED
  BY <1>1, CacheInvariant, PTL

(* The tables keep their shape, every object has a row, a cleanup row or   *)
(* somebody who will delete it unless one of the listed accidents lost it, *)
(* and the bytes of committed rows stay within the limit.                  *)
THEOREM CacheStaysInBounds == CacheSpec => []CacheInv
<1>1. CacheIInv => CacheInv
  BY DEF CacheIInv, CacheInv
<1> QED
  BY <1>1, CacheInvariant, PTL

-----------------------------------------------------------------------------
(* The feed cache. *)

\* The updates of a build record.
LEMMA BuildUpdates ==
    ASSUME NEW p \in BuildRecord, NEW n \in Nat, NEW flag \in BOOLEAN
    PROVE  /\ [p EXCEPT !.pc = "wait"] \in BuildRecord
           /\ [p EXCEPT !.pc = "list", !.rev = n] \in BuildRecord
           /\ [p EXCEPT !.pc = "render", !.seen = n] \in BuildRecord
           /\ [p EXCEPT !.pc = "publish", !.left = n, !.outdated = FALSE] \in BuildRecord
           /\ [p EXCEPT !.left = n] \in BuildRecord
           /\ [p EXCEPT !.outdated = flag] \in BuildRecord
  BY DEF BuildRecord

\* The update of a builder that gets the lease.
LEMMA AcquireUpdate ==
    ASSUME NEW p \in BuildRecord, NEW token \in Tokens
    PROVE  [p EXCEPT !.pc = "find", !.token = token] \in BuildRecord
  BY DEF BuildRecord

\* What a builder or a request is left with when its build ends.
LEMMA EndedTypes ==
    ASSUME FeedTypeOK, NEW b \in Builders
    PROVE  /\ NoBuild \in BuildRecord
           /\ EndedPass(b) \in BuildRecord
           /\ [EndedPass(b) EXCEPT !.pc = "enqueue"] \in BuildRecord
<1>1. NoBuild \in BuildRecord
  BY DEF NoBuild, BuildRecord
<1>2. build[b] \in BuildRecord
  BY DEF FeedTypeOK
<1>3. EndedPass(b) \in BuildRecord
  BY <1>1, <1>2 DEF EndedPass, BuildRecord
<1> QED
  BY <1>1, <1>3 DEF BuildRecord

\* The rebuild job after an enqueue or the end of a worker's pass.
LEMMA JobTypes ==
    ASSUME FeedTypeOK, NEW w, NEW status \in {"none", "queued"}
    PROVE  /\ JobBecomes(w, status) \in JobRecord
           /\ EnqueuedRebuild \in JobRecord
<1>1. rebuild \in JobRecord
  BY DEF FeedTypeOK
<1> QED
  BY <1>1 DEF JobBecomes, EnqueuedRebuild, JobRecord

\* Every step keeps the types.
LEMMA TypeStep ==
    ASSUME FeedTypeOK, [FeedNext]_feedVars
    PROVE  FeedTypeOK'
<1> USE DEF Builders, NoRow, NoLease, LeaseLive, Building, FeedTypeOK, CacheRow, LeaseRow
<1>1. ASSUME SyncCommits
     PROVE  FeedTypeOK'
  <2>1. EnqueuedRebuild \in JobRecord
    BY JobTypes
  <2> QED
    BY <1>1, <2>1 DEF SyncCommits, Change
<1>2. ASSUME EditSource
     PROVE  FeedTypeOK'
  BY <1>2 DEF EditSource, Change
<1>3. ASSUME DeleteSource
     PROVE  FeedTypeOK'
  BY <1>3 DEF DeleteSource, JobRecord
<1>4. ASSUME NEW token \in Tokens, Release(token)
     PROVE  FeedTypeOK'
  BY <1>4 DEF Release
<1>5. ASSUME NEW token \in Tokens, ReleaseLost(token)
     PROVE  FeedTypeOK'
  BY <1>5 DEF ReleaseLost
<1>6. ASSUME NEW status \in AfterError, RecoverRebuild(status)
     PROVE  FeedTypeOK'
  BY <1>6 DEF RecoverRebuild, JobRecord, AfterError
<1>7. ASSUME NEW status \in AfterError, JobLeaseLost(status)
     PROVE  FeedTypeOK'
  BY <1>7 DEF JobLeaseLost, JobRecord, AfterError
<1>8. ASSUME Tick
     PROVE  FeedTypeOK'
  <2>1. \A n \in Nat : Elapse(n) \in Nat
    BY DEF Elapse
  <2>2. \A b \in Builders : build[b].left \in Nat
    BY DEF BuildRecord
  <2>3. \A b \in Builders : [build[b] EXCEPT !.left = Elapse(build[b].left)] \in BuildRecord
    <3> SUFFICES ASSUME NEW b \in Builders
                 PROVE  [build[b] EXCEPT !.left = Elapse(build[b].left)] \in BuildRecord
      OBVIOUS
    <3>1. build[b] \in BuildRecord /\ Elapse(build[b].left) \in Nat /\ TRUE \in BOOLEAN
      BY <2>1, <2>2
    <3> QED
      BY <3>1, BuildUpdates
  <2>4. build' \in [Builders -> BuildRecord]
    BY <1>8, <2>3 DEF Tick
  <2>5. cache' \in CacheRow /\ lease' \in LeaseRow
    BY <1>8, <2>1 DEF Tick
  <2> QED
    BY <1>8, <2>4, <2>5 DEF Tick
<1>9. ASSUME NEW w \in Workers, ClaimRebuild(w)
     PROVE  FeedTypeOK'
  BY <1>9 DEF ClaimRebuild, BuildRecord, NoBuild, JobRecord
<1>10. ASSUME NEW r \in Requests, ServeFresh(r)
     PROVE  FeedTypeOK'
  BY <1>10 DEF ServeFresh, BuildRecord, NoBuild, JobRecord
<1>11. ASSUME NEW r \in Requests, RequestRebuild(r)
     PROVE  FeedTypeOK'
  BY <1>11 DEF RequestRebuild, BuildRecord, NoBuild, JobRecord
<1>12. ASSUME NEW r \in Requests, EnqueueRebuild(r)
     PROVE  FeedTypeOK'
  <2>1. EndedPass(r) \in BuildRecord /\ NoBuild \in BuildRecord
    BY EndedTypes
  <2>2. EnqueuedRebuild \in JobRecord
    BY JobTypes
  <2>3. build[r].stale \in Nat
    BY DEF BuildRecord
  <2> QED
    BY <1>12, <2>1, <2>2, <2>3 DEF EnqueueRebuild, AnswersStale
<1>13. ASSUME NEW r \in Requests, GiveUpWaiting(r)
     PROVE  FeedTypeOK'
  BY <1>13 DEF GiveUpWaiting, BuildRecord, NoBuild, JobRecord, AnswersStale
<1>14. ASSUME NEW r \in Requests, RequestDropped(r)
     PROVE  FeedTypeOK'
  BY <1>14 DEF RequestDropped, BuildRecord, NoBuild, JobRecord
<1>15. ASSUME NEW r \in Requests, EnqueueFails(r)
     PROVE  FeedTypeOK'
  BY <1>15 DEF EnqueueFails, BuildRecord, NoBuild, JobRecord, AnswersStale
<1>16. ASSUME NEW b \in Builders, NEW token \in Tokens, Acquire(b, token)
     PROVE  FeedTypeOK'
  <2>1. [build[b] EXCEPT !.pc = "find", !.token = token] \in BuildRecord
    BY AcquireUpdate
  <2>2. [token |-> token, left |-> BuildLeaseFor] \in LeaseRow
    BY BuildLeaseForAssumption
  <2> QED
    BY <1>16, <2>1, <2>2 DEF Acquire
<1>17. ASSUME NEW b \in Builders, AlreadyActive(b)
     PROVE  FeedTypeOK'
  <2>1. [build[b] EXCEPT !.pc = "wait"] \in BuildRecord /\ NoBuild \in BuildRecord
    BY BuildUpdates, EndedTypes
  <2>2. JobBecomes(b, "queued") \in JobRecord
    BY JobTypes
  <2> QED
    BY <1>17, <2>1, <2>2 DEF AlreadyActive
<1>18. ASSUME NEW b \in Builders, FindSource(b)
     PROVE  FeedTypeOK'
  <2>1. [build[b] EXCEPT !.pc = "list", !.rev = source.rev] \in BuildRecord
    BY BuildUpdates
  <2> QED
    BY <1>18, <2>1 DEF FindSource
<1>19. ASSUME NEW b \in Builders, ListArticles(b)
     PROVE  FeedTypeOK'
  <2>1. [build[b] EXCEPT !.pc = "render", !.seen = source.rev] \in BuildRecord
    BY BuildUpdates
  <2> QED
    BY <1>19, <2>1 DEF ListArticles
<1>20. ASSUME NEW b \in Builders, Render(b)
     PROVE  FeedTypeOK'
  <2>1. [build[b] EXCEPT !.pc = "publish", !.left = CacheTtl, !.outdated = FALSE]
            \in BuildRecord
    BY BuildUpdates, CacheTtlAssumption
  <2> QED
    BY <1>20, <2>1 DEF Render
<1>21. ASSUME NEW b \in Builders, NEW older \in SUBSET Candidates(b), Publish(b, older)
     PROVE  FeedTypeOK'
  <2>1. EndedPass(b) \in BuildRecord
    BY EndedTypes
  <2>2. JobBecomes(b, "none") \in JobRecord
    BY JobTypes
  <2>3. \A c \in Builders : [build[c] EXCEPT !.outdated = @ \/ c \in older] \in BuildRecord
    BY DEF BuildRecord
  <2>4. build' \in [Builders -> BuildRecord]
    BY <1>21, <2>1, <2>3 DEF Publish
  <2>5. cache' \in CacheRow
    BY <1>21 DEF Publish, BuildRecord
  <2>6. NoLease \in LeaseRow
    OBVIOUS
  <2> QED
    BY <1>21, <2>2, <2>4, <2>5, <2>6 DEF Publish, EndBuild
<1>22. ASSUME NEW b \in Builders, Discard(b)
     PROVE  FeedTypeOK'
  <2>1. EndedPass(b) \in BuildRecord
    BY EndedTypes
  <2>2. JobBecomes(b, "none") \in JobRecord
    BY JobTypes
  <2> QED
    BY <1>22, <2>1, <2>2 DEF Discard, EndBuild
<1>23. ASSUME NEW b \in Builders, SourceNotFound(b)
     PROVE  FeedTypeOK'
  <2>1. /\ EndedPass(b) \in BuildRecord
        /\ NoBuild \in BuildRecord
        /\ [EndedPass(b) EXCEPT !.pc = "enqueue"] \in BuildRecord
    BY EndedTypes
  <2>2. "none" \in {"none", "queued"}
    BY DEF AfterError
  <2>3. JobBecomes(b, "none") \in JobRecord
    BY <2>2, JobTypes
  <2>4. build[b].token \in Tokens \cup {NoToken}
    BY DEF BuildRecord
  <2> QED
    BY <1>23, <2>1, <2>3, <2>4 DEF SourceNotFound, FailBuild
<1>24. ASSUME NEW b \in Builders, NEW status \in AfterError, PublishFails(b, status)
     PROVE  FeedTypeOK'
  <2>1. /\ EndedPass(b) \in BuildRecord
        /\ NoBuild \in BuildRecord
        /\ [EndedPass(b) EXCEPT !.pc = "enqueue"] \in BuildRecord
    BY EndedTypes
  <2>2. status \in {"none", "queued"}
    BY DEF AfterError
  <2>3. JobBecomes(b, status) \in JobRecord
    BY <2>2, JobTypes
  <2>4. build[b].token \in Tokens \cup {NoToken}
    BY DEF BuildRecord
  <2> QED
    BY <1>24, <2>1, <2>3, <2>4 DEF PublishFails, FailBuild
<1>25. ASSUME NEW b \in Builders, HeartbeatBuild(b)
     PROVE  FeedTypeOK'
  BY <1>25, BuildLeaseForAssumption DEF HeartbeatBuild
<1>26. ASSUME NEW b \in Builders, NEW status \in AfterError, BuildError(b, status)
     PROVE  FeedTypeOK'
  <2>1. /\ EndedPass(b) \in BuildRecord
        /\ NoBuild \in BuildRecord
        /\ [EndedPass(b) EXCEPT !.pc = "enqueue"] \in BuildRecord
    BY EndedTypes
  <2>2. status \in {"none", "queued"}
    BY DEF AfterError
  <2>3. JobBecomes(b, status) \in JobRecord
    BY <2>2, JobTypes
  <2>4. build[b].token \in Tokens \cup {NoToken}
    BY DEF BuildRecord
  <2> QED
    BY <1>26, <2>1, <2>3, <2>4 DEF BuildError, FailBuild
<1>27. ASSUME NEW b \in Builders, BuilderDies(b)
     PROVE  FeedTypeOK'
  BY <1>27 DEF BuilderDies, BuildRecord, NoBuild, JobRecord
<1>28. CASE UNCHANGED feedVars
  BY <1>28 DEF feedVars
<1> HIDE DEF Builders, NoRow, NoLease, LeaseLive, Building, FeedTypeOK, CacheRow, LeaseRow
<1> QED
  BY <1>1, <1>2, <1>3, <1>4, <1>5, <1>6, <1>7, <1>8, <1>9, <1>10, <1>11, <1>12, <1>13, <1>14, <1>15, <1>16, <1>17, <1>18, <1>19, <1>20, <1>21, <1>22, <1>23, <1>24, <1>25, <1>26, <1>27, <1>28
     DEF FeedNext, WorkerStep, RequestStep, BuildStep, Fault, Recover, Lost, Builders

\* A record that carries no candidate and no lease, and of the expired cache at most
\* what builder b already had.
Emptied(b, p) ==
    /\ p \in BuildRecord
    /\ p.pc \in {"idle", "wait", "enqueue"}
    /\ p.token = NoToken /\ p.rev = 0 /\ p.seen = 0 /\ p.outdated = FALSE
    /\ p.hasStale => build[b].hasStale /\ p.stale = build[b].stale

\* A build that ends leaves such a record.
LEMMA EndedEmptied ==
    ASSUME FeedTypeOK, NEW b \in Builders
    PROVE  /\ Emptied(b, NoBuild)
           /\ Emptied(b, EndedPass(b))
           /\ Emptied(b, [EndedPass(b) EXCEPT !.pc = "enqueue"])
<1>1. build[b] \in BuildRecord
  BY DEF FeedTypeOK
<1>2. /\ NoBuild \in BuildRecord
      /\ EndedPass(b) \in BuildRecord
      /\ [EndedPass(b) EXCEPT !.pc = "enqueue"] \in BuildRecord
  BY EndedTypes
<1>3. Emptied(b, NoBuild)
  BY <1>2 DEF Emptied, NoBuild
<1>4. Emptied(b, EndedPass(b))
  <2>1. CASE b \in Workers
    BY <2>1, <1>3 DEF EndedPass
  <2>2. CASE b \notin Workers
    BY <2>2, <1>1, <1>2 DEF Emptied, EndedPass, BuildRecord
  <2> QED
    BY <2>1, <2>2
<1>5. Emptied(b, [EndedPass(b) EXCEPT !.pc = "enqueue"])
  BY <1>2, <1>4 DEF Emptied, BuildRecord
<1> QED
  BY <1>3, <1>4, <1>5

\* An error leaves such a record.
LEMMA FailEmptied ==
    ASSUME FeedTypeOK, NEW b \in Builders, NEW status, FailBuild(b, status)
    PROVE  \E p \in BuildRecord : Emptied(b, p) /\ build' = [build EXCEPT ![b] = p]
<1>1. CASE b \in Workers
  BY <1>1, EndedEmptied DEF FailBuild, Emptied
<1>2. CASE b \notin Workers
  BY <1>2, EndedEmptied DEF FailBuild, Emptied
<1> QED
  BY <1>1, <1>2

\* So does a request that is done with the queue.
LEMMA EnqueueEmptied ==
    ASSUME FeedTypeOK, NEW r \in Requests, EnqueueRebuild(r)
    PROVE  \E p \in BuildRecord :
               /\ Emptied(r, p)
               /\ build' = [build EXCEPT ![r] = p]
               /\ p = NoBuild \/ UNCHANGED served
<1>0. r \in Builders
  BY DEF Builders
<1>1. CASE rebuild.status = "none"
  BY <1>0, <1>1, EndedEmptied DEF EnqueueRebuild, AnswersStale, Emptied
<1>2. CASE rebuild.status # "none"
  BY <1>0, <1>2, EndedEmptied DEF EnqueueRebuild, Emptied
<1> QED
  BY <1>1, <1>2

\* Every step keeps the candidates behind the source and the cache true to its label.
LEMMA ContentStep ==
    ASSUME FeedTypeOK, CacheNamesContent, CandidateBounds, [FeedNext]_feedVars
    PROVE  (CacheNamesContent /\ CandidateBounds)'
<1> USE DEF Builders, NoRow, NoLease, LeaseLive, Building, NoBuild, FeedTypeOK, CacheRow, LeaseRow, BuildRecord, CacheNamesContent, CandidateBounds
<1>1. ASSUME SyncCommits
     PROVE  (CacheNamesContent /\ CandidateBounds)'
  BY <1>1 DEF SyncCommits, Change, EnqueuedRebuild
<1>2. ASSUME EditSource
     PROVE  (CacheNamesContent /\ CandidateBounds)'
  BY <1>2 DEF EditSource, Change
<1>3. ASSUME DeleteSource
     PROVE  (CacheNamesContent /\ CandidateBounds)'
  BY <1>3 DEF DeleteSource
<1>4. ASSUME NEW token \in Tokens, Release(token)
     PROVE  (CacheNamesContent /\ CandidateBounds)'
  BY <1>4 DEF Release
<1>5. ASSUME NEW token \in Tokens, ReleaseLost(token)
     PROVE  (CacheNamesContent /\ CandidateBounds)'
  BY <1>5 DEF ReleaseLost
<1>6. ASSUME NEW status \in AfterError, RecoverRebuild(status)
     PROVE  (CacheNamesContent /\ CandidateBounds)'
  BY <1>6 DEF RecoverRebuild, AfterError
<1>7. ASSUME NEW status \in AfterError, JobLeaseLost(status)
     PROVE  (CacheNamesContent /\ CandidateBounds)'
  BY <1>7 DEF JobLeaseLost, AfterError
<1>8. ASSUME Tick
     PROVE  (CacheNamesContent /\ CandidateBounds)'
  BY <1>8 DEF Tick, Elapse, HeartbeatDue
<1>9. ASSUME NEW w \in Workers, ClaimRebuild(w)
     PROVE  (CacheNamesContent /\ CandidateBounds)'
  BY <1>9 DEF ClaimRebuild
<1>10. ASSUME NEW r \in Requests, ServeFresh(r)
     PROVE  (CacheNamesContent /\ CandidateBounds)'
  BY <1>10 DEF ServeFresh, Fresh
<1>11. ASSUME NEW r \in Requests, RequestRebuild(r)
     PROVE  (CacheNamesContent /\ CandidateBounds)'
  BY <1>11 DEF RequestRebuild
<1>12. ASSUME NEW r \in Requests, EnqueueRebuild(r)
     PROVE  (CacheNamesContent /\ CandidateBounds)'
  <2>1. PICK p \in BuildRecord :
            /\ Emptied(r, p)
            /\ build' = [build EXCEPT ![r] = p]
            /\ p = NoBuild \/ UNCHANGED served
    BY <1>12, EnqueueEmptied
  <2>2. UNCHANGED <<source, cache, lease>>
    BY <1>12 DEF EnqueueRebuild
  <2> QED
    BY <2>1, <2>2 DEF Emptied
<1>13. ASSUME NEW r \in Requests, GiveUpWaiting(r)
     PROVE  (CacheNamesContent /\ CandidateBounds)'
  BY <1>13 DEF GiveUpWaiting, AnswersStale
<1>14. ASSUME NEW r \in Requests, RequestDropped(r)
     PROVE  (CacheNamesContent /\ CandidateBounds)'
  BY <1>14 DEF RequestDropped
<1>15. ASSUME NEW r \in Requests, EnqueueFails(r)
     PROVE  (CacheNamesContent /\ CandidateBounds)'
  BY <1>15 DEF EnqueueFails, AnswersStale
<1>16. ASSUME NEW b \in Builders, NEW token \in Tokens, Acquire(b, token)
     PROVE  (CacheNamesContent /\ CandidateBounds)'
  BY <1>16 DEF Acquire, TokensInUse
<1>17. ASSUME NEW b \in Builders, AlreadyActive(b)
     PROVE  (CacheNamesContent /\ CandidateBounds)'
  BY <1>17 DEF AlreadyActive, JobBecomes
<1>18. ASSUME NEW b \in Builders, FindSource(b)
     PROVE  (CacheNamesContent /\ CandidateBounds)'
  BY <1>18 DEF FindSource
<1>19. ASSUME NEW b \in Builders, ListArticles(b)
     PROVE  (CacheNamesContent /\ CandidateBounds)'
  BY <1>19 DEF ListArticles
<1>20. ASSUME NEW b \in Builders, Render(b)
     PROVE  (CacheNamesContent /\ CandidateBounds)'
  BY <1>20 DEF Render
<1>21. ASSUME NEW b \in Builders, NEW older \in SUBSET Candidates(b), Publish(b, older)
     PROVE  (CacheNamesContent /\ CandidateBounds)'
  BY <1>21 DEF Publish, CanPublish, EndBuild, EndedPass, Candidates, JobBecomes, JobFence
<1>22. ASSUME NEW b \in Builders, Discard(b)
     PROVE  (CacheNamesContent /\ CandidateBounds)'
  BY <1>22 DEF Discard, CanPublish, EndBuild, EndedPass, JobBecomes, JobFence
<1>23. ASSUME NEW b \in Builders, SourceNotFound(b)
     PROVE  (CacheNamesContent /\ CandidateBounds)'
  <2>1. FailBuild(b, "none")
    BY <1>23 DEF SourceNotFound
  <2>2. PICK p \in BuildRecord : Emptied(b, p) /\ build' = [build EXCEPT ![b] = p]
    BY <2>1, FailEmptied
  <2>3. UNCHANGED <<source, cache, lease, served>>
    BY <2>1 DEF FailBuild
  <2> QED
    BY <2>2, <2>3 DEF Emptied
<1>24. ASSUME NEW b \in Builders, NEW status \in AfterError, PublishFails(b, status)
     PROVE  (CacheNamesContent /\ CandidateBounds)'
  <2>1. FailBuild(b, status)
    BY <1>24 DEF PublishFails
  <2>2. PICK p \in BuildRecord : Emptied(b, p) /\ build' = [build EXCEPT ![b] = p]
    BY <2>1, FailEmptied
  <2>3. UNCHANGED <<source, cache, lease, served>>
    BY <2>1 DEF FailBuild
  <2> QED
    BY <2>2, <2>3 DEF Emptied
<1>25. ASSUME NEW b \in Builders, HeartbeatBuild(b)
     PROVE  (CacheNamesContent /\ CandidateBounds)'
  BY <1>25 DEF HeartbeatBuild
<1>26. ASSUME NEW b \in Builders, NEW status \in AfterError, BuildError(b, status)
     PROVE  (CacheNamesContent /\ CandidateBounds)'
  <2>1. FailBuild(b, status)
    BY <1>26 DEF BuildError
  <2>2. PICK p \in BuildRecord : Emptied(b, p) /\ build' = [build EXCEPT ![b] = p]
    BY <2>1, FailEmptied
  <2>3. UNCHANGED <<source, cache, lease, served>>
    BY <2>1 DEF FailBuild
  <2> QED
    BY <2>2, <2>3 DEF Emptied
<1>27. ASSUME NEW b \in Builders, BuilderDies(b)
     PROVE  (CacheNamesContent /\ CandidateBounds)'
  BY <1>27 DEF BuilderDies
<1>28. CASE UNCHANGED feedVars
  BY <1>28 DEF feedVars
<1> HIDE DEF Builders, NoRow, NoLease, LeaseLive, Building, NoBuild, FeedTypeOK, CacheRow, LeaseRow, BuildRecord, CacheNamesContent, CandidateBounds
<1> QED
  BY <1>1, <1>2, <1>3, <1>4, <1>5, <1>6, <1>7, <1>8, <1>9, <1>10, <1>11, <1>12, <1>13, <1>14, <1>15, <1>16, <1>17, <1>18, <1>19, <1>20, <1>21, <1>22, <1>23, <1>24, <1>25, <1>26, <1>27, <1>28
     DEF FeedNext, WorkerStep, RequestStep, BuildStep, Fault, Recover, Lost, Builders

\* Every step keeps the build lease a fence.
LEMMA FenceStep ==
    ASSUME FeedTypeOK, LeaseFences, [FeedNext]_feedVars
    PROVE  LeaseFences'
<1> USE DEF Builders, NoRow, NoLease, LeaseLive, Building, NoBuild, FeedTypeOK, CacheRow, LeaseRow, BuildRecord, LeaseFences
<1>1. ASSUME SyncCommits
     PROVE  LeaseFences'
  BY <1>1 DEF SyncCommits, Change, EnqueuedRebuild
<1>2. ASSUME EditSource
     PROVE  LeaseFences'
  BY <1>2 DEF EditSource, Change
<1>3. ASSUME DeleteSource
     PROVE  LeaseFences'
  BY <1>3 DEF DeleteSource
<1>4. ASSUME NEW token \in Tokens, Release(token)
     PROVE  LeaseFences'
  BY <1>4 DEF Release
<1>5. ASSUME NEW token \in Tokens, ReleaseLost(token)
     PROVE  LeaseFences'
  BY <1>5 DEF ReleaseLost
<1>6. ASSUME NEW status \in AfterError, RecoverRebuild(status)
     PROVE  LeaseFences'
  BY <1>6 DEF RecoverRebuild, AfterError
<1>7. ASSUME NEW status \in AfterError, JobLeaseLost(status)
     PROVE  LeaseFences'
  BY <1>7 DEF JobLeaseLost, AfterError
<1>8. ASSUME Tick
     PROVE  LeaseFences'
  BY <1>8 DEF Tick, Elapse, HeartbeatDue
<1>9. ASSUME NEW w \in Workers, ClaimRebuild(w)
     PROVE  LeaseFences'
  BY <1>9 DEF ClaimRebuild
<1>10. ASSUME NEW r \in Requests, ServeFresh(r)
     PROVE  LeaseFences'
  BY <1>10 DEF ServeFresh, Fresh
<1>11. ASSUME NEW r \in Requests, RequestRebuild(r)
     PROVE  LeaseFences'
  BY <1>11 DEF RequestRebuild
<1>12. ASSUME NEW r \in Requests, EnqueueRebuild(r)
     PROVE  LeaseFences'
  <2>1. PICK p \in BuildRecord :
            /\ Emptied(r, p)
            /\ build' = [build EXCEPT ![r] = p]
            /\ p = NoBuild \/ UNCHANGED served
    BY <1>12, EnqueueEmptied
  <2>2. UNCHANGED <<source, cache, lease>>
    BY <1>12 DEF EnqueueRebuild
  <2> QED
    BY <2>1, <2>2 DEF Emptied
<1>13. ASSUME NEW r \in Requests, GiveUpWaiting(r)
     PROVE  LeaseFences'
  BY <1>13 DEF GiveUpWaiting, AnswersStale
<1>14. ASSUME NEW r \in Requests, RequestDropped(r)
     PROVE  LeaseFences'
  BY <1>14 DEF RequestDropped
<1>15. ASSUME NEW r \in Requests, EnqueueFails(r)
     PROVE  LeaseFences'
  BY <1>15 DEF EnqueueFails, AnswersStale
<1>16. ASSUME NEW b \in Builders, NEW token \in Tokens, Acquire(b, token)
     PROVE  LeaseFences'
  <2>1. /\ lease' = [token |-> token, left |-> BuildLeaseFor]
        /\ build' = [build EXCEPT ![b] = [build[b] EXCEPT !.pc = "find", !.token = token]]
        /\ build[b].outdated = FALSE
    BY <1>16 DEF Acquire
  <2>2. \A c \in Builders : build[c].token # token
    BY <1>16 DEF Acquire, TokensInUse
  <2>3. token # NoToken
    BY TokensAssumption
  <2> QED
    BY <2>1, <2>2, <2>3
<1>17. ASSUME NEW b \in Builders, AlreadyActive(b)
     PROVE  LeaseFences'
  BY <1>17 DEF AlreadyActive, JobBecomes
<1>18. ASSUME NEW b \in Builders, FindSource(b)
     PROVE  LeaseFences'
  BY <1>18 DEF FindSource
<1>19. ASSUME NEW b \in Builders, ListArticles(b)
     PROVE  LeaseFences'
  BY <1>19 DEF ListArticles
<1>20. ASSUME NEW b \in Builders, Render(b)
     PROVE  LeaseFences'
  BY <1>20 DEF Render
<1>21. ASSUME NEW b \in Builders, NEW older \in SUBSET Candidates(b), Publish(b, older)
     PROVE  LeaseFences'
  BY <1>21 DEF Publish, CanPublish, EndBuild, EndedPass, Candidates, JobBecomes, JobFence
<1>22. ASSUME NEW b \in Builders, Discard(b)
     PROVE  LeaseFences'
  BY <1>22 DEF Discard, CanPublish, EndBuild, EndedPass, JobBecomes, JobFence
<1>23. ASSUME NEW b \in Builders, SourceNotFound(b)
     PROVE  LeaseFences'
  <2>1. FailBuild(b, "none")
    BY <1>23 DEF SourceNotFound
  <2>2. PICK p \in BuildRecord : Emptied(b, p) /\ build' = [build EXCEPT ![b] = p]
    BY <2>1, FailEmptied
  <2>3. UNCHANGED <<source, cache, lease, served>>
    BY <2>1 DEF FailBuild
  <2> QED
    BY <2>2, <2>3 DEF Emptied
<1>24. ASSUME NEW b \in Builders, NEW status \in AfterError, PublishFails(b, status)
     PROVE  LeaseFences'
  <2>1. FailBuild(b, status)
    BY <1>24 DEF PublishFails
  <2>2. PICK p \in BuildRecord : Emptied(b, p) /\ build' = [build EXCEPT ![b] = p]
    BY <2>1, FailEmptied
  <2>3. UNCHANGED <<source, cache, lease, served>>
    BY <2>1 DEF FailBuild
  <2> QED
    BY <2>2, <2>3 DEF Emptied
<1>25. ASSUME NEW b \in Builders, HeartbeatBuild(b)
     PROVE  LeaseFences'
  BY <1>25 DEF HeartbeatBuild
<1>26. ASSUME NEW b \in Builders, NEW status \in AfterError, BuildError(b, status)
     PROVE  LeaseFences'
  <2>1. FailBuild(b, status)
    BY <1>26 DEF BuildError
  <2>2. PICK p \in BuildRecord : Emptied(b, p) /\ build' = [build EXCEPT ![b] = p]
    BY <2>1, FailEmptied
  <2>3. UNCHANGED <<source, cache, lease, served>>
    BY <2>1 DEF FailBuild
  <2> QED
    BY <2>2, <2>3 DEF Emptied
<1>27. ASSUME NEW b \in Builders, BuilderDies(b)
     PROVE  LeaseFences'
  BY <1>27 DEF BuilderDies
<1>28. CASE UNCHANGED feedVars
  BY <1>28 DEF feedVars
<1> HIDE DEF Builders, NoRow, NoLease, LeaseLive, Building, NoBuild, FeedTypeOK, CacheRow, LeaseRow, BuildRecord, LeaseFences
<1> QED
  BY <1>1, <1>2, <1>3, <1>4, <1>5, <1>6, <1>7, <1>8, <1>9, <1>10, <1>11, <1>12, <1>13, <1>14, <1>15, <1>16, <1>17, <1>18, <1>19, <1>20, <1>21, <1>22, <1>23, <1>24, <1>25, <1>26, <1>27, <1>28
     DEF FeedNext, WorkerStep, RequestStep, BuildStep, Fault, Recover, Lost, Builders

\* Every step keeps what readers hold behind the cache.
LEMMA ServedStep ==
    ASSUME FeedTypeOK, CacheNamesContent, CandidateBounds, ServedBounds, [FeedNext]_feedVars
    PROVE  ServedBounds'
<1> USE DEF Builders, NoRow, NoLease, LeaseLive, Building, NoBuild, FeedTypeOK, CacheRow, LeaseRow, BuildRecord, CacheNamesContent, ServedBounds
<1>1. ASSUME SyncCommits
     PROVE  ServedBounds'
  BY <1>1 DEF SyncCommits, Change, EnqueuedRebuild
<1>2. ASSUME EditSource
     PROVE  ServedBounds'
  BY <1>2 DEF EditSource, Change
<1>3. ASSUME DeleteSource
     PROVE  ServedBounds'
  BY <1>3 DEF DeleteSource
<1>4. ASSUME NEW token \in Tokens, Release(token)
     PROVE  ServedBounds'
  BY <1>4 DEF Release
<1>5. ASSUME NEW token \in Tokens, ReleaseLost(token)
     PROVE  ServedBounds'
  BY <1>5 DEF ReleaseLost
<1>6. ASSUME NEW status \in AfterError, RecoverRebuild(status)
     PROVE  ServedBounds'
  BY <1>6 DEF RecoverRebuild, AfterError
<1>7. ASSUME NEW status \in AfterError, JobLeaseLost(status)
     PROVE  ServedBounds'
  BY <1>7 DEF JobLeaseLost, AfterError
<1>8. ASSUME Tick
     PROVE  ServedBounds'
  BY <1>8 DEF Tick, Elapse, HeartbeatDue
<1>9. ASSUME NEW w \in Workers, ClaimRebuild(w)
     PROVE  ServedBounds'
  BY <1>9 DEF ClaimRebuild
<1>10. ASSUME NEW r \in Requests, ServeFresh(r)
     PROVE  ServedBounds'
  BY <1>10 DEF ServeFresh, Fresh
<1>11. ASSUME NEW r \in Requests, RequestRebuild(r)
     PROVE  ServedBounds'
  BY <1>11 DEF RequestRebuild
<1>12. ASSUME NEW r \in Requests, EnqueueRebuild(r)
     PROVE  ServedBounds'
  <2>1. CASE rebuild.status = "none"
    BY <1>12, <2>1 DEF EnqueueRebuild, AnswersStale
  <2>2. CASE rebuild.status # "none"
    <3>1. UNCHANGED <<source, cache, served>> /\ build' = [build EXCEPT ![r] = EndedPass(r)]
      BY <1>12, <2>2 DEF EnqueueRebuild
    <3>2. Emptied(r, EndedPass(r))
      BY EndedEmptied
    <3> QED
      BY <3>1, <3>2 DEF Emptied
  <2> QED
    BY <2>1, <2>2
<1>13. ASSUME NEW r \in Requests, GiveUpWaiting(r)
     PROVE  ServedBounds'
  BY <1>13 DEF GiveUpWaiting, AnswersStale
<1>14. ASSUME NEW r \in Requests, RequestDropped(r)
     PROVE  ServedBounds'
  BY <1>14 DEF RequestDropped
<1>15. ASSUME NEW r \in Requests, EnqueueFails(r)
     PROVE  ServedBounds'
  BY <1>15 DEF EnqueueFails, AnswersStale
<1>16. ASSUME NEW b \in Builders, NEW token \in Tokens, Acquire(b, token)
     PROVE  ServedBounds'
  BY <1>16 DEF Acquire, TokensInUse
<1>17. ASSUME NEW b \in Builders, AlreadyActive(b)
     PROVE  ServedBounds'
  BY <1>17 DEF AlreadyActive, JobBecomes
<1>18. ASSUME NEW b \in Builders, FindSource(b)
     PROVE  ServedBounds'
  BY <1>18 DEF FindSource
<1>19. ASSUME NEW b \in Builders, ListArticles(b)
     PROVE  ServedBounds'
  BY <1>19 DEF ListArticles
<1>20. ASSUME NEW b \in Builders, Render(b)
     PROVE  ServedBounds'
  BY <1>20 DEF Render
<1>21. ASSUME NEW b \in Builders, NEW older \in SUBSET Candidates(b), Publish(b, older)
     PROVE  ServedBounds'
  BY <1>21 DEF Publish, CanPublish, EndBuild, EndedPass, Candidates, JobBecomes, JobFence
<1>22. ASSUME NEW b \in Builders, Discard(b)
     PROVE  ServedBounds'
  BY <1>22 DEF Discard, CanPublish, EndBuild, EndedPass, JobBecomes, JobFence
<1>23. ASSUME NEW b \in Builders, SourceNotFound(b)
     PROVE  ServedBounds'
  <2>1. FailBuild(b, "none")
    BY <1>23 DEF SourceNotFound
  <2>2. PICK p \in BuildRecord : Emptied(b, p) /\ build' = [build EXCEPT ![b] = p]
    BY <2>1, FailEmptied
  <2>3. UNCHANGED <<source, cache, lease, served>>
    BY <2>1 DEF FailBuild
  <2> QED
    BY <2>2, <2>3 DEF Emptied
<1>24. ASSUME NEW b \in Builders, NEW status \in AfterError, PublishFails(b, status)
     PROVE  ServedBounds'
  <2>1. FailBuild(b, status)
    BY <1>24 DEF PublishFails
  <2>2. PICK p \in BuildRecord : Emptied(b, p) /\ build' = [build EXCEPT ![b] = p]
    BY <2>1, FailEmptied
  <2>3. UNCHANGED <<source, cache, lease, served>>
    BY <2>1 DEF FailBuild
  <2> QED
    BY <2>2, <2>3 DEF Emptied
<1>25. ASSUME NEW b \in Builders, HeartbeatBuild(b)
     PROVE  ServedBounds'
  BY <1>25 DEF HeartbeatBuild
<1>26. ASSUME NEW b \in Builders, NEW status \in AfterError, BuildError(b, status)
     PROVE  ServedBounds'
  <2>1. FailBuild(b, status)
    BY <1>26 DEF BuildError
  <2>2. PICK p \in BuildRecord : Emptied(b, p) /\ build' = [build EXCEPT ![b] = p]
    BY <2>1, FailEmptied
  <2>3. UNCHANGED <<source, cache, lease, served>>
    BY <2>1 DEF FailBuild
  <2> QED
    BY <2>2, <2>3 DEF Emptied
<1>27. ASSUME NEW b \in Builders, BuilderDies(b)
     PROVE  ServedBounds'
  BY <1>27 DEF BuilderDies
<1>28. CASE UNCHANGED feedVars
  BY <1>28 DEF feedVars
<1> HIDE DEF Builders, NoRow, NoLease, LeaseLive, Building, NoBuild, FeedTypeOK, CacheRow, LeaseRow, BuildRecord, CacheNamesContent, ServedBounds
<1> QED
  BY <1>1, <1>2, <1>3, <1>4, <1>5, <1>6, <1>7, <1>8, <1>9, <1>10, <1>11, <1>12, <1>13, <1>14, <1>15, <1>16, <1>17, <1>18, <1>19, <1>20, <1>21, <1>22, <1>23, <1>24, <1>25, <1>26, <1>27, <1>28
     DEF FeedNext, WorkerStep, RequestStep, BuildStep, Fault, Recover, Lost, Builders

\* No step replaces the cached revision by an earlier one: only the publication, the
\* deletion of the source and the clock write the cache row.
LEMMA FeedCacheStep ==
    ASSUME FeedTypeOK, CacheNamesContent, [FeedNext]_feedVars
    PROVE  cache.present /\ cache'.present => cache.rev <= cache'.rev
<1>1. \/ UNCHANGED cache
      \/ DeleteSource
      \/ Tick
      \/ \E b \in Builders : \E older \in SUBSET Candidates(b) : Publish(b, older)
  BY DEF FeedNext, WorkerStep, RequestStep, BuildStep, Fault, Recover, Lost, Builders, feedVars,
         SyncCommits, EditSource, Change, ClaimRebuild, Acquire, AlreadyActive, FindSource,
         ListArticles, Render, Discard, EndBuild, SourceNotFound, PublishFails, FailBuild,
         BuildError, BuilderDies, RequestDropped, HeartbeatBuild, Release, ReleaseLost,
         RecoverRebuild, JobLeaseLost,
         ServeFresh, RequestRebuild, EnqueueRebuild, EnqueueFails, GiveUpWaiting
<1>2. CASE UNCHANGED cache
  BY <1>2 DEF FeedTypeOK, CacheRow
<1>3. CASE DeleteSource
  BY <1>3 DEF DeleteSource, NoRow
<1>4. CASE Tick
  BY <1>4 DEF Tick, FeedTypeOK, CacheRow
<1>5. ASSUME NEW b \in Builders, NEW older \in SUBSET Candidates(b), Publish(b, older)
      PROVE  cache.present /\ cache'.present => cache.rev <= cache'.rev
  <2>1. cache'.rev = source.rev
    BY <1>5 DEF Publish
  <2> QED
    BY <2>1 DEF CacheNamesContent
<1> QED
  BY <1>1, <1>2, <1>3, <1>4, <1>5

\* No step answers a reader with an earlier revision than before: only four steps
\* answer one.
LEMMA ServedGrows ==
    ASSUME FeedTypeOK, ServedBounds, [FeedNext]_feedVars
    PROVE  \A r \in Requests : served[r] <= served'[r]
<1>1. \/ UNCHANGED served
      \/ \E r \in Requests :
             ServeFresh(r) \/ EnqueueRebuild(r) \/ EnqueueFails(r) \/ GiveUpWaiting(r)
  BY DEF FeedNext, WorkerStep, RequestStep, BuildStep, Fault, Recover, Lost, Builders, feedVars,
         SyncCommits, EditSource, Change, ClaimRebuild, Acquire, AlreadyActive, FindSource,
         ListArticles, Render, Discard, EndBuild, SourceNotFound, PublishFails, FailBuild,
         BuildError, BuilderDies, RequestDropped, HeartbeatBuild, Release, ReleaseLost,
         RecoverRebuild, JobLeaseLost,
         DeleteSource, Tick, Publish, RequestRebuild
<1>2. CASE UNCHANGED served
  BY <1>2 DEF FeedTypeOK
<1>3. ASSUME NEW q \in Requests, ServeFresh(q)
      PROVE  \A r \in Requests : served[r] <= served'[r]
  BY <1>3 DEF ServeFresh, Fresh, FeedTypeOK, CacheRow, ServedBounds
<1>4. ASSUME NEW q \in Requests, AnswersStale(q)
      PROVE  \A r \in Requests : served[r] <= served'[r]
  BY <1>4 DEF AnswersStale, FeedTypeOK, BuildRecord, ServedBounds, Builders
<1>5. ASSUME NEW q \in Requests, EnqueueRebuild(q) \/ EnqueueFails(q) \/ GiveUpWaiting(q)
      PROVE  \A r \in Requests : served[r] <= served'[r]
  <2>1. AnswersStale(q) \/ UNCHANGED served
    BY <1>5 DEF EnqueueRebuild, EnqueueFails, GiveUpWaiting
  <2> QED
    BY <1>2, <1>4, <2>1
<1> QED
  BY <1>1, <1>2, <1>3, <1>5

\* The initial state satisfies the inductive invariant.
LEMMA FeedInitInv == FeedInit => FeedInv
<1> SUFFICES ASSUME FeedInit PROVE FeedInv
  OBVIOUS
<1>1. NoBuild \in BuildRecord /\ NoRow \in CacheRow /\ NoLease \in LeaseRow
  BY DEF NoBuild, BuildRecord, NoRow, CacheRow, NoLease, LeaseRow
<1>2. FeedTypeOK
  BY <1>1 DEF FeedInit, FeedTypeOK, JobRecord
<1>3. CacheNamesContent /\ CandidateBounds /\ LeaseFences /\ ServedBounds
  BY DEF FeedInit, NoRow, NoBuild, NoLease, CacheNamesContent, CandidateBounds, LeaseFences,
         LeaseLive, ServedBounds, Builders
<1> QED
  BY <1>2, <1>3 DEF FeedInv

\* The inductive invariant holds in every state (rebuild_with_lease, the lease
\* statements, publish_if_current and get_feed together).
THEOREM FeedInvariant == FeedSpec => []FeedInv
<1>1. ASSUME FeedInv, [FeedNext]_feedVars PROVE FeedInv'
  <2>1. FeedTypeOK /\ CacheNamesContent /\ CandidateBounds /\ LeaseFences /\ ServedBounds
    BY <1>1 DEF FeedInv
  <2>2. FeedTypeOK'
    BY <1>1, <2>1, TypeStep
  <2>3. (CacheNamesContent /\ CandidateBounds)'
    BY <1>1, <2>1, ContentStep
  <2>4. LeaseFences'
    BY <1>1, <2>1, FenceStep
  <2>5. ServedBounds'
    BY <1>1, <2>1, ServedStep
  <2> QED
    BY <2>2, <2>3, <2>4, <2>5 DEF FeedInv
<1> QED
  BY <1>1, FeedInitInv, PTL DEF FeedSpec

\* A cached feed shows the articles of exactly the revision it is labelled with,
\* although source and articles are read by separate statements.
THEOREM ContentNamed == FeedSpec => []CacheNamesContent
<1>1. FeedInv => CacheNamesContent
  BY DEF FeedInv
<1> QED
  BY <1>1, FeedInvariant, PTL

\* The holder of a live build lease never loses the cache to a later rendering:
\* ExistingCacheNewer is not reached.
THEOREM HolderRendersLast == FeedSpec => []HolderNotOutdated
<1>1. ASSUME FeedInv PROVE HolderNotOutdated
  <2> SUFFICES ASSUME NEW b \in Builders, CanPublish(b), build[b].rev = source.rev
               PROVE  Replaceable(b)
    BY DEF HolderNotOutdated
  <2>1. ~build[b].outdated
    BY <1>1 DEF FeedInv, LeaseFences, CanPublish
  <2>2. cache.present => cache.rev <= build[b].rev
    BY <1>1 DEF FeedInv, CacheNamesContent
  <2>3. cache.rev \in Nat /\ build[b].rev \in Nat
    BY <1>1 DEF FeedInv, FeedTypeOK, CacheRow, BuildRecord
  <2> QED
    BY <2>1, <2>2, <2>3 DEF Replaceable
<1> QED
  BY <1>1, FeedInvariant, PTL

\* No publication replaces the cached feed by that of an earlier revision.
THEOREM CacheNeverGoesBack == FeedSpec => CacheForward
<1>1. ASSUME FeedInv, [FeedNext]_feedVars
      PROVE  [cache.present /\ cache'.present => cache.rev <= cache'.rev]_feedVars
  BY <1>1, FeedCacheStep DEF FeedInv
<1> QED
  BY <1>1, FeedInvariant, PTL DEF FeedSpec, CacheForward

\* No reader is answered with an earlier revision than before, be it from the cache,
\* after a wait or with the expired bytes it read first.
THEOREM ReadersNeverGoBack == FeedSpec => ServedForward
<1>1. ASSUME FeedInv, [FeedNext]_feedVars
      PROVE  [\A r \in Requests : served[r] <= served'[r]]_feedVars
  BY <1>1, ServedGrows DEF FeedInv
<1> QED
  BY <1>1, FeedInvariant, PTL DEF FeedSpec, ServedForward
=============================================================================
