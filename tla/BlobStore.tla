------------------------------ MODULE BlobStore ------------------------------
(***************************************************************************)
(* One key of the blob store behind the image cache: the OpenDAL adapters  *)
(* (persistence/repositories/opendal_blob_store.rs) and the PostgreSQL one *)
(* (asset_repository.rs).                                                  *)
(*                                                                         *)
(* A blob is a body and a metadata sidecar, written and deleted by separate*)
(* backend calls: every call is a step here and may fail, fail after it    *)
(* took effect or, on a remote store, take effect after its caller has     *)
(* given up and another call is at work.  Writers are kept apart by        *)
(* if_not_exists ("object"), a lock file ("fs"), PostgreSQL advisory locks *)
(* ("webdav", "ftp") or the caller's transaction ("pg").                   *)
(***************************************************************************)
EXTENDS Naturals, FiniteSets

CONSTANTS
    Clients,    \* tasks that call the store
    Contents,   \* blobs: bytes with their media type and checksum
    Size,       \* Size[v]: bytes of a blob
    MaxLate     \* bound: different requests that are given up and still under way

ASSUME StoreConstants == MaxLate \in Nat /\ Size \in [Contents -> Nat \ {0}]

Kinds == {"fs", "object", "webdav", "ftp", "pg"}
None == "none"
Part == "part"   \* a proper prefix of every body
Bad == "bad"     \* a read that finds a checksum of other bytes, or fails
Free == "free"
ASSUME StoreNames == Free \notin Clients /\ Contents \cap {None, Part, Bad} = {}

VARIABLES
    kind,    \* the configured backend
    body,    \* the body object
    meta,    \* the sidecar; for pg the row without its data
    lock,    \* holder of the key's lock
    late,    \* writes and deletes that were given up and may still land
    cl,      \* cl[c]: where client c is in its call
    stray,   \* history: one of them has landed without a condition and changed
             \* the key, since the key was last clean
    acked,   \* history: the content of a put that returned Ok
    phase    \* history: "clean" (never written, or deleted for good), "live",
             \* "going" (a delete began and has not left the key clean)

vars == <<kind, body, meta, lock, late, cl, stray, acked, phase>>
store == <<body, meta, late>>
Remote == kind \in {"object", "webdav", "ftp"}

Quiet == [pc |-> "idle", op |-> None, want |-> None, m |-> None, ret |-> None, ctx |-> None]
Locked == kind \in {"fs", "webdav", "ftp"}
Conditional == kind \in {"fs", "object"}

\* read: the sidecar and a body of its size and checksum.  A body of another
\* size is no blob, one of the same size with another checksum an error.
Decode(m, b) ==
    IF m = None \/ b \in {None, Part} THEN None
    ELSE IF Size[b] # Size[m] THEN None ELSE IF m = b THEN b ELSE Bad
Readable == IF Decode(meta, body) \in Contents THEN body ELSE None

-----------------------------------------------------------------------------
(* Steps of a call. *)

Goto(c, pc) == cl' = [cl EXCEPT ![c].pc = pc]
ReadFor(c, ret) == cl' = [cl EXCEPT ![c].pc = "rmeta", ![c].ret = ret]
MetaFor(c, ctx) == cl' = [cl EXCEPT ![c].pc = "meta", ![c].ctx = ctx]

\* The call returns; its lock goes with it, whatever the result.
Finish(c, res) ==
    /\ cl' = [cl EXCEPT ![c] = Quiet]
    /\ lock' = IF lock = c THEN Free ELSE lock
    /\ acked' = IF res = "ok" /\ cl[c].op = "put" /\ phase # "going" THEN cl[c].want ELSE acked
    /\ LET clean == cl[c].op = "delete" /\ cl[c].ret = "alone" /\ res = "ok"
       IN /\ phase' = IF clean THEN "clean" ELSE phase
          /\ stray' = (stray /\ ~clean)
    /\ UNCHANGED kind

Stay == UNCHANGED <<kind, lock, stray, acked, phase>>

\* What a write or delete of the backend can do to its caller.
Outcomes ==
    {"ok", "fail"} \cup (IF Remote THEN {"applied"} ELSE {})

\* Effect of a write of v to an object with value x; the answer.
Exists(x) == Conditional /\ x # None
Write(x, v, o) == IF o \in {"ok", "applied"} /\ ~Exists(x) THEN v ELSE x
Answer(x, o) == IF o = "ok" THEN (IF Exists(x) THEN "exists" ELSE "ok") ELSE "err"

\* The request that a step sends; a delete writes nothing.
Request(x) ==
    [fld |-> IF x.pc \in {"body", "lwrite", "fwrite", "dbody", "fdelete"} THEN "body" ELSE "meta",
     v |-> IF x.pc \in {"dbody", "dmeta", "fdelete"} THEN None ELSE x.want]
Sends == {"body", "meta", "lwrite", "fdelete", "fwmeta", "fwrite", "dbody", "dmeta"}

\* run_backend_operation gives up after its timeout: the request may land later.
\* The caller has an error and, but on an object store, lets its lock go.
GiveUp(c) ==
    /\ cl[c].pc \in Sends
    /\ Remote /\ Cardinality(late) < MaxLate
    /\ late' = late \cup {Request(cl[c])}
    /\ CASE cl[c].pc = "body" -> Goto(c, "recon") /\ Stay
         [] cl[c].pc = "meta" -> Goto(c, "metafailed") /\ Stay
         [] OTHER -> Finish(c, "err")
    /\ UNCHANGED <<body, meta>>

\* What a landing request can make of its object: if_not_exists still holds, a late
\* upload by FTP may break off.
Landed(x, w) ==
    IF w.v = None THEN {None}
    ELSE {Write(x, w.v, "ok")} \cup (IF kind = "ftp" /\ w.fld = "body" THEN {Part} ELSE {})

\* A late request lands; there may be another one like it.
Land(w) ==
    /\ w \in late
    /\ late' \in {late, late \ {w}}
    /\ body' \in (IF w.fld = "body" THEN Landed(body, w) ELSE {body})
    /\ meta' \in (IF w.fld = "meta" THEN Landed(meta, w) ELSE {meta})
    /\ stray' = (stray \/ ((w.v = None \/ ~Conditional) /\ <<body', meta'>> # <<body, meta>>))
    /\ UNCHANGED <<kind, lock, cl, acked, phase>>

-----------------------------------------------------------------------------
(* Entry points. *)

\* A call begins; a delete that it overlaps no longer knows what it leaves.
Begin(c, r) ==
    cl' = [d \in Clients |-> IF d = c THEN r
              ELSE IF cl[d].op = "delete" THEN [cl[d] EXCEPT !.ret = None] ELSE cl[d]]

put(c, v) ==
    /\ kind # "pg" /\ cl[c].pc = "idle"
    /\ Begin(c, [Quiet EXCEPT !.op = "put", !.want = v, !.ret = "first",
                 !.pc = IF Locked THEN "lock" ELSE "rmeta"])
    /\ phase' = IF phase = "clean" THEN "live" ELSE phase
    /\ UNCHANGED <<kind, lock, stray, acked, store>>

\* The key is going: what was acknowledged no longer has to be there.  The lock
\* file of fs is not taken.
delete(c) ==
    /\ kind # "pg" /\ cl[c].pc = "idle"
    /\ Begin(c, [Quiet EXCEPT !.op = "delete",
                 !.ret = IF late = {} /\ \A d \in Clients : cl[d].pc = "idle" THEN "alone" ELSE None,
                 !.pc = IF kind \in {"webdav", "ftp"} THEN "lock" ELSE "dbody"])
    /\ acked' = None /\ phase' = "going"
    /\ UNCHANGED <<kind, lock, stray, store>>

\* acquire_write_lock and acquire_remote_lock; the latter gives up in time.
AcquireLock(c) ==
    /\ cl[c].pc = "lock"
    /\ UNCHANGED store
    /\ \/ /\ lock = Free
          /\ lock' = c
          /\ Goto(c, IF cl[c].op = "delete" THEN "dbody" ELSE IF kind = "ftp" THEN "fmeta" ELSE "rmeta")
          /\ UNCHANGED <<kind, stray, acked, phase>>
       \/ kind # "fs" /\ Finish(c, "err")

\* put_in_transaction: the row is inserted, found equal or completed.
PutPg(c, v) ==
    /\ kind = "pg"
    /\ meta' = IF meta = None THEN v ELSE meta
    /\ body' = IF meta \in {None, v} THEN v ELSE body
    /\ acked' = IF meta \in {None, v} THEN v ELSE acked
    /\ phase' = "live"
    /\ UNCHANGED <<kind, lock, late, stray, cl>>

\* delete_in_transaction: the row stays for a repair, its data goes.
DeletePg ==
    /\ kind = "pg" /\ meta # None
    /\ body' = None /\ acked' = None /\ phase' = "clean"
    /\ UNCHANGED <<kind, meta, lock, late, stray, cl>>

-----------------------------------------------------------------------------
(* read, as the writers use it: two backend calls. *)

ReadMeta(c) ==
    /\ cl[c].pc = "rmeta"
    /\ cl' = [cl EXCEPT ![c].m = meta, ![c].pc = "rbody"]
    /\ Stay /\ UNCHANGED store

ReturnedTrusting(c, r) ==
    CASE r = None /\ cl[c].ret = "first" ->
            Goto(c, IF kind = "webdav" THEN "lmeta" ELSE "body") /\ Stay
      [] r = None /\ cl[c].ret = "recon1" -> MetaFor(c, "recon") /\ Stay
      [] r # Bad /\ cl[c].ret \in {"metaexists", "exists"} -> Finish(c, "ok")
      [] OTHER -> Finish(c, IF r = cl[c].want THEN "ok" ELSE "err")

\* Where the result r takes the writer.
Returned(c, r) ==
    CASE r = cl[c].want ->
            IF cl[c].ret = "metaexists" /\ cl[c].ctx = "recon"
            THEN ReadFor(c, "recon2") /\ Stay ELSE Finish(c, "ok")
      [] r # cl[c].want /\ cl[c].ret = "metaexists" -> Goto(c, "metafailed") /\ Stay
      [] r = None /\ cl[c].ret = "first" ->
            Goto(c, IF kind = "webdav" THEN "lmeta" ELSE "body") /\ Stay
      [] r = None /\ cl[c].ret = "exists" -> Goto(c, "recover") /\ Stay
      [] r = None /\ cl[c].ret = "recon1" -> MetaFor(c, "recon") /\ Stay
      [] OTHER -> Finish(c, "err")

ReadBody(c, fails) ==
    /\ cl[c].pc = "rbody"
    /\ Returned(c, IF fails THEN Bad ELSE Decode(cl[c].m, body))
    /\ UNCHANGED store

-----------------------------------------------------------------------------
(* put_with_conditional_write: fs and object stores. *)

\* The body: written, there already, or nobody knows.
WriteBody(c, o) ==
    /\ cl[c].pc = "body" /\ Conditional
    /\ body' = Write(body, cl[c].want, o)
    /\ CASE Answer(body, o) = "ok" -> MetaFor(c, "main")
         [] Answer(body, o) = "exists" -> ReadFor(c, "exists")
         [] OTHER -> Goto(c, "recon")
    /\ Stay /\ UNCHANGED <<meta, late>>

\* write_metadata: a sidecar that exists is read back with the body.
WriteMeta(c, o) ==
    /\ cl[c].pc = "meta"
    /\ meta' = Write(meta, cl[c].want, o)
    /\ IF Answer(meta, o) = "ok" /\ cl[c].ctx # "recon" THEN Finish(c, "ok")
       ELSE /\ CASE Answer(meta, o) = "ok" -> ReadFor(c, "recon2")
                 [] Answer(meta, o) = "exists" -> ReadFor(c, "metaexists")
                 [] OTHER -> Goto(c, "metafailed")
            /\ Stay
    /\ UNCHANGED <<body, late>>

\* A failed sidecar: lock holders remove what they wrote, others reconcile.
MetaFailed(c) ==
    /\ cl[c].pc = "metafailed"
    /\ UNCHANGED store
    /\ IF cl[c].ctx = "bodyonly" \/ (cl[c].ctx = "recon" /\ kind = "object") THEN Finish(c, "err")
       ELSE Goto(c, IF kind = "object" THEN "recon" ELSE "dbody") /\ Stay

\* recover_body_only_partial_write: an existing body without a sidecar.
recover_body_only_partial_write(c, fails) ==
    /\ cl[c].pc = "recover"
    /\ UNCHANGED <<meta, late>>
    /\ IF fails /\ kind = "object" THEN Goto(c, "recon") /\ Stay /\ UNCHANGED body
       ELSE IF fails \/ body = None THEN Finish(c, "err") /\ UNCHANGED body
       ELSE IF body # cl[c].want
            THEN Finish(c, "err") /\ body' \in (IF kind = "fs" THEN {None, body} ELSE {body})
       ELSE MetaFor(c, "recover") /\ Stay /\ UNCHANGED body

\* reconcile_external_write: is the body there, and is the blob readable?
reconcile_external_write(c, fails) ==
    /\ cl[c].pc = "recon"
    /\ IF fails \/ body = None THEN Finish(c, "err") ELSE ReadFor(c, "recon1") /\ Stay
    /\ UNCHANGED store

-----------------------------------------------------------------------------
(* put_under_lock_inner: WebDAV, nothing readable was found. *)

LockedMeta(c) ==
    /\ cl[c].pc = "lmeta"
    /\ IF meta \in {None, cl[c].want}
       THEN cl' = [cl EXCEPT ![c].m = meta, ![c].pc = IF meta = None THEN "lbody" ELSE "lwrite"] /\ Stay
       ELSE Finish(c, "err")
    /\ UNCHANGED store

LockedBody(c) ==
    /\ cl[c].pc = "lbody"
    /\ IF body = None THEN Goto(c, "lwrite") /\ Stay
       ELSE IF body = cl[c].want THEN MetaFor(c, "bodyonly") /\ Stay
       ELSE Finish(c, "err")
    /\ UNCHANGED store

LockedWrite(c, o) ==
    /\ cl[c].pc = "lwrite"
    /\ body' = Write(body, cl[c].want, o)
    /\ IF o # "ok" THEN Finish(c, "err")
       ELSE IF cl[c].m = None THEN MetaFor(c, "main") /\ Stay
       ELSE Finish(c, "ok")
    /\ UNCHANGED <<meta, late>>

\* A read of a lock holder fails, or the caller of any operation goes away: it ends
\* there, and its lock goes with its connection.
Dropped(c) ==
    /\ cl[c].pc # "idle"
    /\ Finish(c, "err")
    /\ UNCHANGED store

-----------------------------------------------------------------------------
(* put_ftp_under_lock_inner: the sidecar first, an interrupted body is rewritten. *)

FtpMeta(c) ==
    /\ cl[c].pc = "fmeta"
    /\ IF meta \in {None, cl[c].want}
       THEN cl' = [cl EXCEPT ![c].m = meta, ![c].pc = "fbody"] /\ Stay
       ELSE Finish(c, "err")
    /\ UNCHANGED store

\* body == blob.bytes() returns, after it completed the sidecar.
FtpBody(c) ==
    /\ cl[c].pc = "fbody"
    /\ IF body = None THEN Goto(c, IF cl[c].m = None THEN "fwmeta" ELSE "fwrite") /\ Stay
       ELSE IF body = cl[c].want
            THEN IF cl[c].m = None THEN MetaFor(c, "bodyonly") /\ Stay ELSE Finish(c, "ok")
       ELSE IF body = Part /\ cl[c].m # None THEN Goto(c, "fdelete") /\ Stay
       ELSE Finish(c, "err")
    /\ UNCHANGED store

FtpDelete(c, o) ==
    /\ cl[c].pc = "fdelete"
    /\ body' = IF o = "fail" THEN body ELSE None
    /\ IF o = "ok" THEN Goto(c, "fwrite") /\ Stay ELSE Finish(c, "err")
    /\ UNCHANGED <<meta, late>>

FtpWriteMeta(c, o) ==
    /\ cl[c].pc = "fwmeta"
    /\ meta' = Write(meta, cl[c].want, o)
    /\ IF o = "ok" THEN Goto(c, "fwrite") /\ Stay ELSE Finish(c, "err")
    /\ UNCHANGED <<body, late>>

\* An upload that breaks off leaves a prefix.
FtpWrite(c, o) ==
    /\ cl[c].pc = "fwrite"
    /\ body' = IF o = "fail" THEN Part ELSE cl[c].want
    /\ Finish(c, IF o = "ok" THEN "ok" ELSE "err")
    /\ UNCHANGED <<meta, late>>

-----------------------------------------------------------------------------
(* delete_locked_objects: body, then sidecar; as the operation or as a clean-up. *)

DeleteBody(c, o) ==
    /\ cl[c].pc = "dbody"
    /\ body' = IF o = "fail" THEN body ELSE None
    /\ IF o = "ok" THEN Goto(c, "dmeta") /\ Stay ELSE Finish(c, "err")
    /\ UNCHANGED <<meta, late>>

DeleteMetaUnchecked(c, o) ==
    /\ cl[c].pc = "dmeta"
    /\ meta' = IF o = "fail" THEN meta ELSE None
    /\ Finish(c, IF cl[c].op = "delete" THEN "ok" ELSE "err")
    /\ UNCHANGED <<body, late>>

DeleteMeta(c, o) ==
    /\ cl[c].pc = "dmeta"
    /\ meta' = IF o = "fail" THEN meta ELSE None
    /\ Finish(c, IF o = "ok" /\ cl[c].op = "delete" THEN "ok" ELSE "err")
    /\ UNCHANGED <<body, late>>

-----------------------------------------------------------------------------
Init ==
    /\ kind \in Kinds
    /\ body = None /\ meta = None /\ lock = Free /\ late = {}
    /\ cl = [c \in Clients |-> Quiet]
    /\ stray = FALSE /\ acked = None /\ phase = "clean"

Step(c) ==
    \/ \E v \in Contents : put(c, v)
    \/ delete(c)
    \/ AcquireLock(c)
    \/ \E v \in Contents : PutPg(c, v)
    \/ ReadMeta(c)
    \/ \E fails \in BOOLEAN : ReadBody(c, fails)
    \/ \E o \in Outcomes : WriteBody(c, o)
    \/ \E o \in Outcomes : WriteMeta(c, o)
    \/ GiveUp(c)
    \/ MetaFailed(c)
    \/ \E fails \in BOOLEAN : recover_body_only_partial_write(c, fails)
    \/ \E fails \in BOOLEAN : reconcile_external_write(c, fails)
    \/ LockedMeta(c)
    \/ LockedBody(c)
    \/ \E o \in Outcomes : LockedWrite(c, o)
    \/ Dropped(c)
    \/ FtpMeta(c)
    \/ FtpBody(c)
    \/ \E o \in Outcomes : FtpDelete(c, o)
    \/ \E o \in Outcomes : FtpWriteMeta(c, o)
    \/ \E o \in Outcomes : FtpWrite(c, o)
    \/ \E o \in Outcomes : DeleteBody(c, o)
    \/ \E o \in Outcomes : DeleteMeta(c, o)

Next ==
    \/ \E c \in Clients : Step(c)
    \/ DeletePg
    \/ \E w \in late : Land(w)

Spec == Init /\ [][Next]_vars

-----------------------------------------------------------------------------
(* Properties. *)

\* The steps of the backends, besides those of a delete.
StepsOf ==
    [fs     |-> {"lock", "rmeta", "rbody", "body", "meta", "metafailed", "recover", "recon"},
     object |-> {"rmeta", "rbody", "body", "meta", "metafailed", "recover", "recon"},
     webdav |-> {"lock", "rmeta", "rbody", "lmeta", "lbody", "lwrite", "meta", "metafailed"},
     ftp    |-> {"lock", "fmeta", "fbody", "fdelete", "fwmeta", "fwrite", "meta", "metafailed"},
     pg     |-> {}]

\* What a sidecar is written for.
ContextsOf ==
    [fs |-> {"main", "recover", "recon"}, object |-> {"main", "recover", "recon"},
     webdav |-> {"main", "bodyonly"}, ftp |-> {"bodyonly"}, pg |-> {}]

Reads == {"first", "exists", "metaexists", "recon1", "recon2"}

ClientRecord ==
    [pc : {"idle", "lock", "rmeta", "rbody", "body", "meta", "metafailed", "recover", "recon",
           "lmeta", "lbody", "lwrite", "fmeta", "fbody", "fdelete", "fwmeta", "fwrite",
           "dbody", "dmeta"},
     op : {None, "put", "delete"}, want : Contents \cup {None}, m : Contents \cup {None},
     ret : Reads \cup {"alone", None}, ctx : {"main", "recover", "recon", "bodyonly", None}]

\* A call is at a step of its operation and backend.
CallTyped(x) ==
    /\ x.op = None <=> x.pc = "idle"
    /\ x.op = "put" => /\ x.want \in Contents /\ x.ret \in Reads
                       /\ x.pc = "lock" => x.ret = "first"
                       /\ \/ x.pc \in StepsOf[kind]
                          \/ x.pc \in {"dbody", "dmeta"} /\ kind \in {"fs", "webdav"}
    /\ x.op = "delete" => /\ x.pc \in {"lock", "dbody", "dmeta"} /\ kind # "pg"
                          /\ x.pc = "lock" => kind \in {"webdav", "ftp"}
    /\ x.pc \in {"rmeta", "rbody"} /\ kind = "webdav" => x.ret = "first"
    /\ \/ x.pc \in {"meta", "metafailed"}
       \/ x.pc \in {"rmeta", "rbody"} /\ x.ret = "metaexists"
       => x.ctx \in ContextsOf[kind]

\* The objects hold contents, and the calls are what they can be.
TypeOK ==
    /\ kind \in Kinds
    /\ body \in Contents \cup {None, Part} /\ meta \in Contents \cup {None}
    /\ acked \in Contents \cup {None} /\ phase \in {"clean", "live", "going"}
    /\ lock \in Clients \cup {Free}
    /\ late \subseteq [fld : {"body", "meta"}, v : Contents \cup {None}] /\ stray \in BOOLEAN
    /\ cl \in [Clients -> ClientRecord]
    /\ \A c \in Clients : CallTyped(cl[c])

\* The lock of a key belongs to the one call that is past it, and no error path
\* keeps it (put_under_lock, delete_objects_and_commit); deletes of fs take none.
LockExact ==
    /\ lock # Free => Locked /\ cl[lock].pc \notin {"idle", "lock"}
    /\ Locked => \A c \in Clients :
          cl[c].pc \notin {"idle", "lock"} => lock = c \/ (kind = "fs" /\ cl[c].op = "delete")
    /\ kind = "fs" /\ lock # Free => cl[lock].op = "put"

\* Only remote stores have requests that come late, and an object store late deletes
\* only after a delete: what else comes late there is conditional.
StrayExact ==
    /\ ~Remote => late = {} /\ ~stray
    /\ kind = "object" /\ phase # "going" => ~stray /\ \A w \in late : w.v # None

\* Nothing is at work on a clean key, no delete on a live one, and a delete that
\* will leave the key clean is alone with it.
PhaseExact ==
    /\ phase = "clean" => late = {} /\ ~stray /\ \A c \in Clients : cl[c].pc = "idle"
    /\ acked # None => phase = "live"
    /\ \A c \in Clients : cl[c].op = "delete" =>
          /\ phase = "going"
          /\ cl[c].ret = "alone" =>
                /\ late = {} /\ \A d \in Clients \ {c} : cl[d].pc = "idle"
                /\ cl[c].pc = "dmeta" => body = None

\* What a writer has seen is still so.  It is alone with the objects while it
\* holds a lock that deletes take too, or while no delete has come; on an object
\* store, where nobody is, what exists stays.  A request that lands late ends it.
Alone == kind \in {"webdav", "ftp"} \/ phase # "going"
StillSo(x) ==
    /\ x.pc = "rbody" => x.m = meta \/ (kind = "object" /\ x.m = None)
    /\ x.pc = "meta" /\ x.ctx # "recon" => body = x.want
    /\ x.pc \in {"fbody", "lwrite"} => x.m = meta /\ meta \in {None, x.want}
    /\ x.pc = "lbody" => meta = None /\ x.m = None
    /\ x.pc \in {"fdelete", "fwrite"} => meta = x.want
    /\ x.pc = "fwmeta" => meta = None /\ body = None

\* A lock holder that found no readable blob works on a key without one.
FoundNone(x) ==
    /\ Locked /\ x.op = "put"
    /\ x.pc \notin {"lock", "fmeta", "fbody"}
    /\ ~(x.pc \in {"rmeta", "rbody"} /\ x.ret = "first")

ViewExact ==
    Alone /\ ~stray => \A c \in Clients : StillSo(cl[c]) /\ (FoundNone(cl[c]) => acked = None)

\* A put that answered Ok can be read, through every failed, delayed or
\* conflicting put of others, until somebody deletes the key.  On WebDAV and FTP this
\* ends when a request that its caller had given up lands and changes the key.
OkIsReadable ==
    acked # None => Readable = acked \/ (stray /\ kind \in {"webdav", "ftp"})

\* Where writes are unconditional (put_under_lock_inner, put_ftp_under_lock_inner)
\* body and sidecar are never of two different blobs, so that stat, which compares
\* sizes only, is right.  Conditional writers do not have this:
\* reconcile_external_write publishes a sidecar without comparing the bytes of the
\* body it found.  Nor has a key that a given up request has changed.
PairAgrees ==
    kind \in {"webdav", "ftp"} /\ ~stray => body \in {None, Part} \/ meta \in {None, body}

\* A delete that answered Ok, with no writer at work and no given up request under
\* way, has left nothing behind, not even after deletes that failed half-way or
\* requests that landed late; that is why it may be retried.
DeletedIsGone == phase = "clean" => body = None /\ (meta = None \/ kind = "pg")

\* What a key is in between any two calls to the backend, whatever failed: no
\* error path keeps a lock, body and sidecar agree, a deletion is complete, and
\* what a writer has seen and relies on is still so.
BlobInv ==
    /\ TypeOK /\ LockExact /\ StrayExact /\ PhaseExact
    /\ ViewExact /\ PairAgrees /\ DeletedIsGone
=============================================================================
