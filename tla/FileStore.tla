----------------------------- MODULE FileStore -----------------------------
(***************************************************************************)
(* The file-backed repository (qid-storage/src/file/mod.rs, token.rs): an  *)
(* in-memory Store behind a read/write lock, persisted as one JSON file    *)
(* through a temporary file, fsync and rename under save_lock.             *)
(*                                                                         *)
(* A critical section of the store lock without an await is one action.    *)
(* Only the transactions (mutate_push_value and its like) hold the store   *)
(* lock across awaits, and storeLock names the one that does.  A request   *)
(* is one call of a repository operation; it runs once.  The store holds   *)
(* one token family (its current refresh hash and revoked flag) and one    *)
(* record per Writer and per transaction.                                  *)
(***************************************************************************)
EXTENDS Naturals, FiniteSets

CONSTANTS
    Writers,      \* calls of map_write-style operations, one record each
    Revokers,     \* the Writers whose write is revoke_token_family
    Creators,     \* calls of create_token_family for the one family id
    Rotators,     \* calls of update_token_family_refresh_hash
    Txns,         \* detached tasks that persist or roll back under both locks
    Opener,       \* new_with_flush_mode's own save after a rekey
    Flusher,      \* the background flush task of Interval mode
    Stoppers,     \* qidd's flush on graceful shutdown: {} or a singleton
    Cancellable,  \* requests whose future the HTTP server may drop
    NoOne, NoHash, NoTmp,
    Mode,         \* FileFlushMode
    LegacyFile,   \* the file on disk was written with legacy record keys
    MaxFaults,    \* bound: failed file operations
    MaxCrashes    \* bound: process crashes

Requests == Writers \cup Creators \cup Rotators \cup Txns
Procs == Requests \cup {Opener, Flusher} \cup Stoppers
Hashes == Creators \cup Rotators \cup {NoHash}

ASSUME ModeAssumption == Mode \in {"immediate", "interval"}
ASSUME BoundAssumption ==
    MaxFaults \in Nat /\ MaxCrashes \in Nat /\ LegacyFile \in BOOLEAN
ASSUME KindAssumption ==
    /\ Revokers \subseteq Writers
    /\ Cancellable \subseteq Requests \ Txns
    /\ Writers \cap Creators = {} /\ Writers \cap Rotators = {}
    /\ Creators \cap Rotators = {}
    /\ Txns \cap (Writers \cup Creators \cup Rotators) = {}
    /\ Opener \notin Requests \cup Stoppers \cup {Flusher}
    /\ Flusher \notin Requests \cup Stoppers
    /\ Stoppers \cap Requests = {}
    /\ \A s1, s2 \in Stoppers : s1 = s2
    /\ NoOne \notin Procs
    /\ NoHash \notin Creators \cup Rotators

Store == [hash: Hashes, revoked: BOOLEAN, recs: SUBSET (Writers \cup Txns),
          legacy: BOOLEAN]

ASSUME NoTmpAssumption == NoTmp \notin Store

VARIABLES
    mem,       \* the Store in memory
    disk,      \* the store file
    tmp,       \* the temporary file, or NoTmp
    saveLock,  \* holder of save_lock
    storeLock, \* transaction that holds the store's write lock across awaits
    dirty,     \* the dirty flag of Interval mode
    up,        \* the process: down, opening, up, stopping, stopped
    pc,        \* where each call is
    snap,      \* the content a flush serialized
    expect,    \* the refresh hash a rotation presented
    prev,      \* the hash a rotation restores on failure
    reply,     \* what the caller was told
    orphans,   \* blocking file operations that outlived a cancelled call
    faults,    \* failed file operations left (bound)
    crashes    \* crashes left (bound)

vars == <<mem, disk, tmp, saveLock, storeLock, dirty, up, pc, snap, expect,
          prev, reply, orphans, faults, crashes>>

EmptyStore ==
    [hash |-> NoHash, revoked |-> FALSE, recs |-> {}, legacy |-> FALSE]

Steps == {"idle", "own", "save", "snap", "write", "rename", "saved",
          "failed", "mark", "redirty", "done"}
Replies == {"none", "ok", "error", "conflict", "duplicate", "cancelled", "lost"}

OrphanOps == [op: {"write"}, content: Store] \cup [op: {"rename"}]

TypeOK ==
    /\ mem \in Store
    /\ disk \in Store
    /\ tmp \in Store \cup {NoTmp}
    /\ saveLock \in Procs \cup {NoOne}
    /\ storeLock \in Txns \cup {NoOne}
    /\ dirty \in BOOLEAN
    /\ up \in {"down", "opening", "up", "stopping", "stopped"}
    /\ pc \in [Procs -> Steps]
    /\ snap \in [Procs -> Store]
    /\ expect \in [Procs -> Hashes]
    /\ prev \in [Procs -> Hashes]
    /\ reply \in [Procs -> Replies]
    /\ orphans \subseteq OrphanOps
    /\ faults \in 0..MaxFaults
    /\ crashes \in 0..MaxCrashes

Init ==
    /\ mem = EmptyStore
    /\ disk = [EmptyStore EXCEPT !.legacy = LegacyFile]
    /\ tmp = NoTmp
    /\ saveLock = NoOne
    /\ storeLock = NoOne
    /\ dirty = FALSE
    /\ up = "down"
    /\ pc = [p \in Procs |-> "idle"]
    /\ snap = [p \in Procs |-> EmptyStore]
    /\ expect = [p \in Procs |-> NoHash]
    /\ prev = [p \in Procs |-> NoHash]
    /\ reply = [p \in Procs |-> "none"]
    /\ orphans = {}
    /\ faults = MaxFaults
    /\ crashes = MaxCrashes

-----------------------------------------------------------------------------
(* Opening the store *)

\* new_with_flush_mode: load the file, rekey legacy records, and save them
\* when a key changed.  Only one process owns the flock, so one memory exists.
Open ==
    /\ up = "down"
    /\ mem' = [disk EXCEPT !.legacy = FALSE]
    /\ IF disk.legacy /\ Mode = "immediate"
         THEN /\ up' = "opening"
              /\ pc' = [pc EXCEPT ![Opener] = "save"]
         ELSE /\ up' = "up"
              /\ UNCHANGED pc
    /\ dirty' = (disk.legacy /\ Mode = "interval")
    /\ UNCHANGED <<disk, tmp, saveLock, snap, expect, prev, reply, orphans,
                   faults, crashes, storeLock>>

-----------------------------------------------------------------------------
(* Repository operations *)

\* Mutant: the record is stored under the family's hash, not its own key.
AppliedWrongKey(store, w) ==
    [store EXCEPT !.recs = @ \cup {store.hash},
                  !.revoked = @ \/ (w \in Revokers /\ store.hash # NoHash)]

\* A write of the caller's own record; a revocation changes the family if it
\* is there.
Applied(store, w) ==
    [store EXCEPT !.recs = @ \cup {w},
                  !.revoked = @ \/ (w \in Revokers /\ store.hash # NoHash)]

\* Where a call goes once it has changed the store: save() flushes at once in
\* Immediate mode and only marks the store dirty in Interval mode.
AfterMutation(next) == IF Mode = "immediate" THEN next ELSE "mark"

\* map_write (and the writers that spell it out): mutate under the store
\* lock, release it, save().  revoke_token_family is such a write.
MapWrite(w) ==
    /\ up = "up"
    /\ w \in Writers /\ pc[w] = "idle"
    /\ storeLock = NoOne
    /\ mem' = Applied(mem, w)
    /\ pc' = [pc EXCEPT ![w] = AfterMutation("save")]
    /\ UNCHANGED <<disk, tmp, saveLock, dirty, up, snap, expect, prev, reply,
                   orphans, faults, crashes, storeLock>>

\* A client can only present a refresh token some call has returned to it.
Issued == {h \in Creators \cup Rotators : reply[h] = "ok"}

\* create_token_family and update_token_family_refresh_hash own save_lock
\* before they look at the store (Immediate mode only).
OwnSaveLock(r) ==
    /\ up = "up"
    /\ Mode = "immediate"
    /\ r \in Creators \cup Rotators /\ pc[r] = "idle"
    /\ r \in Rotators => Issued # {}
    /\ saveLock = NoOne
    /\ saveLock' = r
    /\ pc' = [pc EXCEPT ![r] = "own"]
    /\ UNCHANGED <<mem, disk, tmp, dirty, up, snap, expect, prev, reply,
                   orphans, faults, crashes, storeLock>>

\* The point from which a family operation may take the store lock.
ReadyForStore(r) ==
    \/ Mode = "immediate" /\ pc[r] = "own"
    \/ Mode = "interval" /\ pc[r] = "idle" /\ up = "up" /\ storeLock = NoOne

Released(r) == IF saveLock = r THEN NoOne ELSE saveLock

\* An early return: the guards are dropped and the caller gets the error.
Refuse(r, why) ==
    /\ pc' = [pc EXCEPT ![r] = "done"]
    /\ reply' = [reply EXCEPT ![r] = why]
    /\ saveLock' = Released(r)
    /\ UNCHANGED mem

CreateFamily(c) ==
    /\ c \in Creators /\ ReadyForStore(c)
    /\ IF mem.hash # NoHash
         THEN Refuse(c, "duplicate")
         ELSE /\ mem' = [mem EXCEPT !.hash = c]
              /\ pc' = [pc EXCEPT ![c] = AfterMutation("snap")]
              /\ UNCHANGED <<reply, saveLock>>
    /\ UNCHANGED <<disk, tmp, dirty, up, snap, expect, prev, orphans, faults,
                   crashes, storeLock>>

\* Mutant: the presented hash is not compared.
ValidRotationAnyHash(store, h) == ~store.revoked

\* validate_token_family_rotation: not revoked, and the presented hash is
\* still current.  The new hash is the rotator's own, fresh, jti.
ValidRotation(store, h) == ~store.revoked /\ store.hash = h

\* The hash stands for both rotated fields (hash and deadline).
Rotate(r) ==
    /\ r \in Rotators /\ ReadyForStore(r)
    /\ \E h \in Issued :
         /\ expect' = [expect EXCEPT ![r] = h]
         /\ IF ~ValidRotation(mem, h)
              THEN /\ Refuse(r, "conflict")
                   /\ UNCHANGED prev
              ELSE /\ prev' = [prev EXCEPT ![r] = mem.hash]
                   /\ mem' = [mem EXCEPT !.hash = r]
                   /\ pc' = [pc EXCEPT ![r] = AfterMutation("snap")]
                   /\ UNCHANGED <<reply, saveLock>>
    /\ UNCHANGED <<disk, tmp, dirty, up, snap, orphans, faults, crashes,
                   storeLock>>

\* save() in Interval mode.
MarkDirty(r) ==
    /\ pc[r] = "mark"
    /\ dirty' = TRUE
    /\ pc' = [pc EXCEPT ![r] = "done"]
    /\ reply' = [reply EXCEPT ![r] = "ok"]
    /\ UNCHANGED <<mem, disk, tmp, saveLock, up, snap, expect, prev, orphans,
                   faults, crashes, storeLock>>

-----------------------------------------------------------------------------
(* flush_store: one flush at a time, by the holder of save_lock *)

\* Mutant: flush_store does not wait for save_lock.
AcquireSaveLockBusy(p) ==
    /\ pc[p] = "save"
    /\ saveLock' = p
    /\ pc' = [pc EXCEPT ![p] = "snap"]
    /\ UNCHANGED <<mem, disk, tmp, dirty, up, snap, expect, prev, reply,
                   orphans, faults, crashes, storeLock>>

AcquireSaveLock(p) ==
    /\ pc[p] = "save"
    /\ saveLock = NoOne
    /\ saveLock' = p
    /\ pc' = [pc EXCEPT ![p] = "snap"]
    /\ UNCHANGED <<mem, disk, tmp, dirty, up, snap, expect, prev, reply,
                   orphans, faults, crashes, storeLock>>

Snapshot(p) ==
    /\ pc[p] = "snap"
    /\ snap' = [snap EXCEPT ![p] = mem]
    /\ pc' = [pc EXCEPT ![p] = "write"]
    /\ UNCHANGED <<mem, disk, tmp, saveLock, dirty, up, expect, prev, reply,
                   orphans, faults, crashes, storeLock>>

\* Write and fsync the temporary file; on an error it may or may not be left.
WriteTmp(p) ==
    /\ pc[p] = "write"
    /\ \/ /\ tmp' = snap[p]
          /\ pc' = [pc EXCEPT ![p] = "rename"]
          /\ UNCHANGED faults
       \/ /\ faults > 0
          /\ faults' = faults - 1
          /\ tmp' \in {snap[p], NoTmp}
          /\ pc' = [pc EXCEPT ![p] = "failed"]
    /\ UNCHANGED <<mem, disk, saveLock, dirty, up, snap, expect, prev, reply,
                   orphans, crashes, storeLock>>

\* Replace the store file; the directory fsync that follows is best effort.
RenameTmp(p) ==
    /\ pc[p] = "rename"
    /\ \/ /\ tmp # NoTmp
          /\ disk' = tmp
          /\ tmp' = NoTmp
          /\ pc' = [pc EXCEPT ![p] = "saved"]
          /\ UNCHANGED faults
       \/ /\ tmp = NoTmp \/ faults > 0
          /\ faults' = IF tmp = NoTmp THEN faults ELSE faults - 1
          /\ pc' = [pc EXCEPT ![p] = "failed"]
          /\ UNCHANGED <<disk, tmp>>
    /\ UNCHANGED <<mem, saveLock, dirty, up, snap, expect, prev, reply,
                   orphans, crashes, storeLock>>

\* A repository call returns Ok and drops save_lock.
SaveOk(r) ==
    /\ r \in Requests \ Txns /\ pc[r] = "saved"
    /\ saveLock' = Released(r)
    /\ pc' = [pc EXCEPT ![r] = "done"]
    /\ reply' = [reply EXCEPT ![r] = "ok"]
    /\ UNCHANGED <<mem, disk, tmp, dirty, up, snap, expect, prev, orphans,
                   faults, crashes, storeLock>>

\* Mutants of the rollback: none at all, or the family as it was captured.
SaveErrorKeeps(r) ==
    /\ r \in Requests \ Txns /\ pc[r] = "failed"
    /\ saveLock' = Released(r)
    /\ pc' = [pc EXCEPT ![r] = "done"]
    /\ reply' = [reply EXCEPT ![r] = "error"]
    /\ UNCHANGED <<mem, disk, tmp, dirty, up, snap, expect, prev, orphans,
                   faults, crashes, storeLock>>

SaveErrorRestoresFamily(r) ==
    /\ r \in Requests \ Txns /\ pc[r] = "failed"
    /\ mem' = IF r \in Rotators
                THEN [mem EXCEPT !.hash = prev[r], !.revoked = FALSE] ELSE mem
    /\ saveLock' = Released(r)
    /\ pc' = [pc EXCEPT ![r] = "done"]
    /\ reply' = [reply EXCEPT ![r] = "error"]
    /\ UNCHANGED <<disk, tmp, dirty, up, snap, expect, prev, orphans, faults,
                   crashes, storeLock>>

\* A repository call returns the save error.  Only a rotation undoes its
\* mutation, still owning save_lock, and only the fields it wrote.
SaveError(r) ==
    /\ r \in Requests \ Txns /\ pc[r] = "failed"
    /\ mem' = IF r \in Rotators THEN [mem EXCEPT !.hash = prev[r]] ELSE mem
    /\ saveLock' = Released(r)
    /\ pc' = [pc EXCEPT ![r] = "done"]
    /\ reply' = [reply EXCEPT ![r] = "error"]
    /\ UNCHANGED <<disk, tmp, dirty, up, snap, expect, prev, orphans, faults,
                   crashes, storeLock>>

\* The rekeying save of new_with_flush_mode: on an error the open fails.
OpenerReturns ==
    /\ pc[Opener] \in {"saved", "failed"}
    /\ up' = IF pc[Opener] = "saved" THEN "up" ELSE "down"
    /\ saveLock' = NoOne
    /\ pc' = [pc EXCEPT ![Opener] = "idle"]
    /\ UNCHANGED <<mem, disk, tmp, dirty, snap, expect, prev, reply, orphans,
                   faults, crashes, storeLock>>

-----------------------------------------------------------------------------
(* Transactions: mutate_push_value, mutate_oidc_continuation, commit_hr_inner *)
(* and the CIAM challenge operations run as detached tasks and persist at    *)
(* once in both modes.                                                       *)

\* The task owns save_lock before it takes the store lock.
TxnOwnSaveLock(t) ==
    /\ up = "up"
    /\ t \in Txns /\ pc[t] = "idle"
    /\ saveLock = NoOne
    /\ saveLock' = t
    /\ pc' = [pc EXCEPT ![t] = "own"]
    /\ UNCHANGED <<mem, disk, tmp, dirty, up, snap, expect, prev, reply,
                   orphans, faults, crashes, storeLock>>

\* It takes the store lock, changes the store and serializes it.
TxnMutate(t) ==
    /\ t \in Txns /\ pc[t] = "own"
    /\ storeLock = NoOne
    /\ storeLock' = t
    /\ mem' = [mem EXCEPT !.recs = @ \cup {t}]
    /\ snap' = [snap EXCEPT ![t] = mem']
    /\ pc' = [pc EXCEPT ![t] = "write"]
    /\ UNCHANGED <<disk, tmp, saveLock, dirty, up, expect, prev, reply,
                   orphans, faults, crashes>>

\* The closure refuses, or changes nothing: both locks are dropped at once.
TxnRefused(t) ==
    /\ t \in Txns /\ pc[t] = "own"
    /\ storeLock = NoOne
    /\ Refuse(t, "conflict")
    /\ UNCHANGED <<disk, tmp, dirty, up, snap, expect, prev, orphans, faults,
                   crashes, storeLock>>

\* After the write it undoes its own change on an error, then drops both locks.
TxnReturns(t) ==
    /\ t \in Txns /\ pc[t] \in {"saved", "failed"}
    /\ mem' = IF pc[t] = "failed" THEN [mem EXCEPT !.recs = @ \ {t}] ELSE mem
    /\ storeLock' = NoOne
    /\ saveLock' = Released(t)
    /\ pc' = [pc EXCEPT ![t] = "done"]
    /\ reply' = [reply EXCEPT ![t] = IF pc[t] = "saved" THEN "ok" ELSE "error"]
    /\ UNCHANGED <<disk, tmp, dirty, up, snap, expect, prev, orphans, faults,
                   crashes>>

-----------------------------------------------------------------------------
(* flush(): the background task and the shutdown flush *)

\* Graceful shutdown has drained the HTTP server before it flushes, which with
\* TLS it stops waiting for after 30 s (not modelled).
BeginShutdown(s) ==
    /\ s \in Stoppers
    /\ up = "up"
    /\ \A r \in Requests : pc[r] \in {"idle", "done"}
    /\ up' = "stopping"
    /\ UNCHANGED <<mem, disk, tmp, saveLock, dirty, pc, snap, expect, prev,
                   reply, orphans, faults, crashes, storeLock>>

\* tokio::fs runs each operation on a blocking thread that outlives the
\* dropped future: the operation under way may still happen.
PendingOp(p) ==
    IF pc[p] = "write" THEN {[op |-> "write", content |-> snap[p]]}
    ELSE IF pc[p] = "rename" THEN {[op |-> "rename"]}
    ELSE {}

\* qidd exits: the runtime drops the background task wherever it is.
StopProcess(s, answer) ==
    /\ up' = "stopped"
    /\ reply' = [reply EXCEPT ![s] = answer]
    /\ pc' = [pc EXCEPT ![s] = "done", ![Flusher] = "idle"]
    /\ orphans' \in {orphans, orphans \cup PendingOp(Flusher)}
    /\ saveLock' = NoOne

\* dirty.swap(false) found the store dirty.
SwapDirty(f) ==
    /\ pc[f] = "idle" /\ dirty
    /\ \/ f = Flusher /\ Mode = "interval" /\ up \in {"up", "stopping"}
       \/ f \in Stoppers /\ up = "stopping"
    /\ dirty' = FALSE
    /\ pc' = [pc EXCEPT ![f] = "save"]
    /\ UNCHANGED <<mem, disk, tmp, saveLock, up, snap, expect, prev, reply,
                   orphans, faults, crashes, storeLock>>

\* dirty.swap(false) found the store clean: the shutdown flush returns Ok.
\* (The background task goes back to sleep, which changes nothing.)
ShutdownClean(s) ==
    /\ s \in Stoppers /\ up = "stopping"
    /\ pc[s] = "idle" /\ ~dirty
    /\ StopProcess(s, "ok")
    /\ UNCHANGED <<mem, disk, tmp, dirty, snap, expect, prev, faults, crashes,
                   storeLock>>

\* Mutant: the flag is cleared after the flush instead of before it.
FlushOkClears(f) ==
    /\ f \in {Flusher} \cup Stoppers /\ pc[f] = "saved"
    /\ dirty' = FALSE
    /\ IF f = Flusher
         THEN /\ saveLock' = Released(f)
              /\ pc' = [pc EXCEPT ![f] = "idle"]
              /\ UNCHANGED <<up, reply, orphans>>
         ELSE StopProcess(f, "ok")
    /\ UNCHANGED <<mem, disk, tmp, snap, expect, prev, faults, crashes, storeLock>>

\* flush_store returned Ok to flush().
FlushOk(f) ==
    /\ f \in {Flusher} \cup Stoppers /\ pc[f] = "saved"
    /\ IF f = Flusher
         THEN /\ saveLock' = Released(f)
              /\ pc' = [pc EXCEPT ![f] = "idle"]
              /\ UNCHANGED <<up, reply, orphans>>
         ELSE StopProcess(f, "ok")
    /\ UNCHANGED <<mem, disk, tmp, dirty, snap, expect, prev, faults, crashes,
                   storeLock>>

\* flush_store returned an error: its guard on save_lock is gone before
\* flush() restores dirty.
FlushError(f) ==
    /\ f \in {Flusher} \cup Stoppers /\ pc[f] = "failed"
    /\ saveLock' = Released(f)
    /\ pc' = [pc EXCEPT ![f] = "redirty"]
    /\ UNCHANGED <<mem, disk, tmp, dirty, up, snap, expect, prev, reply,
                   orphans, faults, crashes, storeLock>>

\* Mutant: a failed flush does not set the flag again.
RedirtyForgets(f) ==
    /\ pc[f] = "redirty"
    /\ IF f = Flusher
         THEN /\ pc' = [pc EXCEPT ![f] = "idle"]
              /\ UNCHANGED <<up, reply, saveLock, orphans>>
         ELSE StopProcess(f, "error")
    /\ UNCHANGED <<mem, disk, tmp, dirty, snap, expect, prev, faults, crashes,
                   storeLock>>

\* dirty.fetch_or(true), then the background task sleeps and qidd exits.
Redirty(f) ==
    /\ pc[f] = "redirty"
    /\ dirty' = TRUE
    /\ IF f = Flusher
         THEN /\ pc' = [pc EXCEPT ![f] = "idle"]
              /\ UNCHANGED <<up, reply, saveLock, orphans>>
         ELSE StopProcess(f, "error")
    /\ UNCHANGED <<mem, disk, tmp, snap, expect, prev, faults, crashes, storeLock>>

-----------------------------------------------------------------------------
(* Cancellation and crashes *)

\* Mutant: the dropped future does not release save_lock.
CancelLeaksLock(r) ==
    /\ r \in Cancellable
    /\ pc[r] \in {"own", "save", "snap", "write", "rename", "saved", "failed"}
    /\ orphans' \in {orphans, orphans \cup PendingOp(r)}
    /\ pc' = [pc EXCEPT ![r] = "done"]
    /\ reply' = [reply EXCEPT ![r] = "cancelled"]
    /\ UNCHANGED <<mem, disk, tmp, saveLock, dirty, up, snap, expect, prev,
                   faults, crashes, storeLock>>

\* The HTTP server drops the handler's future: guards go, memory stays.
Cancel(r) ==
    /\ r \in Cancellable
    /\ pc[r] \in {"own", "save", "snap", "write", "rename", "saved", "failed"}
    /\ orphans' \in {orphans, orphans \cup PendingOp(r)}
    /\ saveLock' = Released(r)
    /\ pc' = [pc EXCEPT ![r] = "done"]
    /\ reply' = [reply EXCEPT ![r] = "cancelled"]
    /\ UNCHANGED <<mem, disk, tmp, dirty, up, snap, expect, prev, faults,
                   crashes, storeLock>>

OrphanCompletes ==
    /\ \E o \in orphans :
         /\ orphans' = orphans \ {o}
         /\ \/ o.op = "write" /\ tmp' = o.content /\ UNCHANGED disk
            \/ o.op = "rename" /\ tmp # NoTmp /\ disk' = tmp /\ tmp' = NoTmp
            \/ o.op = "rename" /\ tmp = NoTmp /\ UNCHANGED <<disk, tmp>>
    /\ UNCHANGED <<mem, saveLock, dirty, up, pc, snap, expect, prev, reply,
                   faults, crashes, storeLock>>

\* The process dies; the files stay; every call under way gets no answer.
Crash ==
    /\ crashes > 0
    /\ up \in {"opening", "up", "stopping"}
    /\ crashes' = crashes - 1
    /\ up' = "down"
    /\ saveLock' = NoOne
    /\ storeLock' = NoOne
    /\ dirty' = FALSE
    /\ orphans' = {}
    /\ pc' = [p \in Procs |->
                IF p \notin Requests \/ pc[p] = "idle" THEN "idle" ELSE "done"]
    /\ reply' = [p \in Procs |->
                   IF p \in Requests /\ pc[p] \notin {"idle", "done"}
                     THEN "lost" ELSE reply[p]]
    /\ UNCHANGED <<mem, disk, tmp, snap, expect, prev, faults>>

-----------------------------------------------------------------------------
\* One step of the flush that process p is running.
FlushStep(p) ==
    AcquireSaveLock(p) \/ Snapshot(p) \/ WriteTmp(p) \/ RenameTmp(p)

\* One step of request r other than its arrival.
RequestStep(r) ==
    \/ CreateFamily(r) \/ Rotate(r) \/ MarkDirty(r)
    \/ FlushStep(r) \/ SaveOk(r) \/ SaveError(r)
    \/ TxnMutate(r) \/ TxnRefused(r) \/ TxnReturns(r)

\* One step of flush() run by the background task or by shutdown.
FlushTaskStep(f) ==
    \/ SwapDirty(f) \/ ShutdownClean(f)
    \/ FlushStep(f) \/ FlushOk(f) \/ FlushError(f) \/ Redirty(f)

Next ==
    \/ Open
    \/ FlushStep(Opener)
    \/ OpenerReturns
    \/ \E r \in Requests :
         \/ MapWrite(r) \/ OwnSaveLock(r) \/ TxnOwnSaveLock(r)
         \/ RequestStep(r)
         \/ Cancel(r)
    \/ \E s \in Stoppers : BeginShutdown(s)
    \/ \E f \in {Flusher} \cup Stoppers : FlushTaskStep(f)
    \/ OrphanCompletes
    \/ Crash

\* The runtime polls every ready task: an accepted call, the background task
\* and the opening process always get to run.  Arrivals, cancellations,
\* crashes and orphaned file operations carry no promise.
Fairness ==
    /\ WF_vars(Open)
    /\ WF_vars(FlushStep(Opener) \/ OpenerReturns)
    /\ \A r \in Requests : WF_vars(pc[r] # "idle" /\ RequestStep(r))
    /\ \A f \in {Flusher} \cup Stoppers : WF_vars(FlushTaskStep(f))

Spec == Init /\ [][Next]_vars

FairSpec == Spec /\ Fairness

-----------------------------------------------------------------------------
(* Properties *)

\* file/mod.rs save() and docs/configuration.md:272: what a caller was told
\* Ok about is in the store file, and stays there through every later flush,
\* failed rotation or transaction, crash and reopen.  It covers every write
\* of Immediate mode and the transactions of both modes.
AckedWritesDurable ==
    \A w \in Txns \cup (IF Mode = "immediate" THEN Writers ELSE {}) :
        reply[w] = "ok" => w \in disk.recs

\* update_token_family_refresh_hash, file/token.rs:83, and the transactions:
\* a call that got the save error after a rollback leaves no trace, neither in
\* the file (no other save snapshotted the tentative change) nor in memory.
FailedChangeLeavesNoTrace ==
    /\ Mode = "immediate" =>
         \A r \in Rotators : reply[r] = "error" =>
            disk.hash # r /\ (up = "up" => mem.hash # r)
    /\ \A t \in Txns : reply[t] = "error" =>
            t \notin disk.recs /\ (up = "up" => t \notin mem.recs)

\* validate_token_family_rotation: of all rotations that present the same
\* refresh hash at most one is ever accepted, rollbacks and restarts included.
RotationAcceptedOnce ==
    \A r, s \in Rotators :
        reply[r] = "ok" /\ reply[s] = "ok" /\ expect[r] = expect[s] => r = s

\* Revocation is monotonic (file/token.rs:133): neither a rotation's rollback
\* nor any flush clears it, in the file or in the memory of one process.
RevocationPermanent ==
    [][/\ disk.revoked => disk'.revoked
       /\ up = "up" /\ up' = "up" /\ mem.revoked => mem'.revoked]_vars

\* Interval mode, flush(): while the process lives, a file that lags behind
\* memory is covered by the dirty flag, by a call about to set it, or by a
\* flush that will write the current memory or set the flag again.
LagIsCovered ==
    Mode = "interval" /\ up \in {"up", "stopping"} /\ disk # mem =>
        \/ dirty
        \/ \E r \in Requests : pc[r] = "mark"
        \/ \E f \in {Flusher} \cup Stoppers :
              \/ pc[f] \in {"save", "snap", "failed", "redirty"}
              \/ pc[f] \in {"write", "rename"} /\ snap[f] = mem
        \/ \E t \in Txns : storeLock = t

\* Interval mode: every acknowledged write reaches the file, unless a crash
\* took it from memory or the process was shut down.
AckedWritesReachDisk ==
    \A w \in Writers :
        (reply[w] = "ok" /\ w \in mem.recs)
          ~> (w \in disk.recs \/ w \notin mem.recs \/ up = "stopped")

\* No call waits for save_lock for ever: every accepted call ends, whatever
\* was cancelled or failed while it waited.
EveryCallEnds ==
    \A r \in Requests : (pc[r] # "idle") ~> (pc[r] = "done")

\* docs/configuration.md:273: "qidd also flushes during graceful shutdown":
\* a shutdown that reports success leaves a file that holds the memory.
CleanShutdownPersists ==
    \A s \in Stoppers : reply[s] = "ok" => disk = mem
=============================================================================
