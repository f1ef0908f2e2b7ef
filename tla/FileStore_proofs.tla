-------------------------- MODULE FileStore_proofs --------------------------
(***************************************************************************)
(* Proofs about FileStore for every set of calls, every bound on faults    *)
(* and crashes and both flush modes.                                       *)
(***************************************************************************)
EXTENDS FileStore, TLAPS

\* Applied keeps the shape of the store.
LEMMA AppliedType ==
    ASSUME NEW s \in Store, NEW w \in Writers
    PROVE  Applied(s, w) \in Store
  BY DEF Applied, Store

\* Giving save_lock back, as the guard's drop does, keeps the types.
LEMMA ReleasedType ==
    ASSUME TypeOK, NEW p
    PROVE  Released(p) \in Procs \cup {NoOne}
  BY DEF TypeOK, Released

\* A stopping process keeps the type invariant.
LEMMA StopType ==
    ASSUME TypeOK, NEW s \in Stoppers, NEW a \in Replies, StopProcess(s, a)
    PROVE  /\ up' = "stopped"
           /\ reply' \in [Procs -> Replies]
           /\ pc' \in [Procs -> Steps]
           /\ orphans' \subseteq OrphanOps
           /\ saveLock' \in Procs \cup {NoOne}
  <1>1. PendingOp(Flusher) \subseteq OrphanOps
    BY DEF TypeOK, PendingOp, OrphanOps, Procs
  <1> QED
    BY <1>1 DEF StopProcess, TypeOK, Procs, Steps

\* The state before the store is opened is well typed.
LEMMA InitType == Init => TypeOK
  <1> SUFFICES ASSUME Init PROVE TypeOK
    OBVIOUS
  <1>1. EmptyStore \in Store
    BY DEF EmptyStore, Store, Hashes
  <1>2. disk \in Store
    BY <1>1, BoundAssumption DEF Init, EmptyStore, Store
  <1> QED
    <2>1. faults \in 0..MaxFaults /\ crashes \in 0..MaxCrashes
      BY BoundAssumption DEF Init
    <2>2. /\ pc \in [Procs -> Steps] /\ reply \in [Procs -> Replies]
          /\ snap \in [Procs -> Store]
      BY <1>1 DEF Init, Steps, Replies
    <2>3. expect \in [Procs -> Hashes] /\ prev \in [Procs -> Hashes]
      BY DEF Init, Hashes
    <2> QED BY <1>1, <1>2, <2>1, <2>2, <2>3 DEF Init, TypeOK

\* The steps of flush_store_locked (snapshot, write, rename) keep the types.
LEMMA FlushStepType ==
    ASSUME TypeOK, NEW p \in Procs, FlushStep(p)
    PROVE  TypeOK'
  <1>1. CASE AcquireSaveLock(p)
    BY <1>1 DEF TypeOK, AcquireSaveLock, Steps
  <1>2. CASE Snapshot(p)
    BY <1>2 DEF TypeOK, Snapshot, Steps
  <1>3. CASE WriteTmp(p)
    BY <1>3, BoundAssumption DEF TypeOK, WriteTmp, Steps
  <1>4. CASE RenameTmp(p)
    BY <1>4, BoundAssumption DEF TypeOK, RenameTmp, Steps
  <1> QED
    BY <1>1, <1>2, <1>3, <1>4 DEF FlushStep

\* The steps of a request (create, rotate, revoke, push) keep the types.
LEMMA RequestStepType ==
    ASSUME TypeOK, NEW r \in Requests, RequestStep(r)
    PROVE  TypeOK'
  <1>0. r \in Procs /\ Released(r) \in Procs \cup {NoOne}
    BY ReleasedType DEF Procs
  <1>1. CASE CreateFamily(r)
    <2>1. CASE mem.hash # NoHash
      BY <1>0, <1>1, <2>1 DEF TypeOK, CreateFamily, Refuse, Steps, Replies
    <2>2. CASE mem.hash = NoHash
      <3>1. mem' \in Store
        BY <1>1, <2>2 DEF TypeOK, CreateFamily, Store, Hashes
      <3> QED
        BY <1>0, <1>1, <2>2, <3>1 DEF TypeOK, CreateFamily, AfterMutation, Steps
    <2> QED BY <2>1, <2>2
  <1>2. CASE Rotate(r)
    <2>1. PICK h \in Issued :
             /\ expect' = [expect EXCEPT ![r] = h]
             /\ IF ~ValidRotation(mem, h)
                  THEN /\ Refuse(r, "conflict")
                       /\ UNCHANGED prev
                  ELSE /\ prev' = [prev EXCEPT ![r] = mem.hash]
                       /\ mem' = [mem EXCEPT !.hash = r]
                       /\ pc' = [pc EXCEPT ![r] = AfterMutation("snap")]
                       /\ UNCHANGED <<reply, saveLock>>
      BY <1>2 DEF Rotate
    <2>2. expect' \in [Procs -> Hashes]
      BY <1>0, <2>1 DEF TypeOK, Issued, Hashes
    <2>3. CASE ~ValidRotation(mem, h)
      BY <1>0, <1>2, <2>1, <2>2, <2>3 DEF TypeOK, Rotate, Refuse, Steps, Replies
    <2>4. CASE ValidRotation(mem, h)
      <3>1. mem' \in Store
        BY <1>2, <2>1, <2>4 DEF TypeOK, Rotate, Store, Hashes
      <3>2. prev' \in [Procs -> Hashes]
        BY <1>0, <2>1, <2>4 DEF TypeOK, Store
      <3> QED
        BY <1>0, <1>2, <2>1, <2>2, <2>4, <3>1, <3>2
        DEF TypeOK, Rotate, AfterMutation, Steps
    <2> QED BY <2>3, <2>4
  <1>3. CASE MarkDirty(r)
    BY <1>0, <1>3 DEF TypeOK, MarkDirty, Steps, Replies
  <1>4. CASE FlushStep(r)
    BY <1>0, <1>4, FlushStepType
  <1>5. CASE SaveOk(r)
    BY <1>0, <1>5 DEF TypeOK, SaveOk, Steps, Replies
  <1>6. CASE SaveError(r)
    <2>1. mem' \in Store
      BY <1>0, <1>6 DEF TypeOK, SaveError, Store
    <2> QED
      BY <1>0, <1>6, <2>1 DEF TypeOK, SaveError, Steps, Replies
  <1>7. CASE TxnMutate(r)
    <2>1. mem' \in Store
      BY <1>7 DEF TypeOK, TxnMutate, Store
    <2> QED BY <1>0, <1>7, <2>1 DEF TypeOK, TxnMutate, Steps
  <1>8. CASE TxnReturns(r)
    <2>1. mem' \in Store
      BY <1>8 DEF TypeOK, TxnReturns, Store
    <2> QED BY <1>0, <1>8, <2>1 DEF TypeOK, TxnReturns, Steps, Replies
  <1>9. CASE TxnRefused(r)
    BY <1>0, <1>9 DEF TypeOK, TxnRefused, Refuse, Steps, Replies
  <1> QED
    BY <1>1, <1>2, <1>3, <1>4, <1>5, <1>6, <1>7, <1>8, <1>9 DEF RequestStep

\* The steps of the background and the shutdown flush keep the types.
LEMMA FlushTaskStepType ==
    ASSUME TypeOK, NEW f \in {Flusher} \cup Stoppers, FlushTaskStep(f)
    PROVE  TypeOK'
  <1>0. f \in Procs /\ Released(f) \in Procs \cup {NoOne}
    BY ReleasedType DEF Procs
  <1>1. CASE SwapDirty(f)
    BY <1>0, <1>1 DEF TypeOK, SwapDirty, Steps
  <1>2. CASE ShutdownClean(f)
    <2>1. f \in Stoppers /\ StopProcess(f, "ok") /\ "ok" \in Replies
      BY <1>2 DEF ShutdownClean, Replies
    <2> QED BY <1>2, <2>1, StopType DEF TypeOK, ShutdownClean
  <1>3. CASE FlushStep(f)
    BY <1>0, <1>3, FlushStepType
  <1>4. CASE FlushOk(f)
    <2>1. CASE f = Flusher
      BY <1>0, <1>4, <2>1 DEF TypeOK, FlushOk, Steps
    <2>2. CASE f # Flusher
      <3>1. f \in Stoppers /\ StopProcess(f, "ok") /\ "ok" \in Replies
        BY <1>4, <2>2 DEF FlushOk, Replies
      <3> QED BY <1>4, <3>1, StopType DEF TypeOK, FlushOk
    <2> QED BY <2>1, <2>2
  <1>5. CASE FlushError(f)
    BY <1>0, <1>5 DEF TypeOK, FlushError, Steps
  <1>6. CASE Redirty(f)
    <2>1. CASE f = Flusher
      BY <1>0, <1>6, <2>1 DEF TypeOK, Redirty, Steps
    <2>2. CASE f # Flusher
      <3>1. f \in Stoppers /\ StopProcess(f, "error") /\ "error" \in Replies
        BY <1>6, <2>2 DEF Redirty, Replies
      <3> QED BY <1>6, <3>1, StopType DEF TypeOK, Redirty
    <2> QED BY <2>1, <2>2
  <1> QED
    BY <1>1, <1>2, <1>3, <1>4, <1>5, <1>6 DEF FlushTaskStep

\* Every step of the repository keeps the types.
LEMMA NextType == TypeOK /\ [Next]_vars => TypeOK'
  <1> SUFFICES ASSUME TypeOK, [Next]_vars PROVE TypeOK'
    OBVIOUS
  <1>1. CASE Open
    <2>1. mem' \in Store
      BY <1>1 DEF TypeOK, Open, Store
    <2> QED BY <1>1, <2>1 DEF TypeOK, Open, Steps, Procs
  <1>2. CASE FlushStep(Opener)
    BY <1>2, FlushStepType DEF Procs
  <1>3. CASE OpenerReturns
    BY <1>3 DEF TypeOK, OpenerReturns, Steps, Procs
  <1>4. ASSUME NEW r \in Requests, MapWrite(r) PROVE TypeOK'
    BY <1>4, AppliedType DEF TypeOK, MapWrite, AfterMutation, Steps, Procs
  <1>5. ASSUME NEW r \in Requests, OwnSaveLock(r) PROVE TypeOK'
    BY <1>5 DEF TypeOK, OwnSaveLock, Steps, Procs
  <1>6. ASSUME NEW r \in Requests, RequestStep(r) PROVE TypeOK'
    BY <1>6, RequestStepType
  <1>7. ASSUME NEW r \in Requests, Cancel(r) PROVE TypeOK'
    <2>0. r \in Procs /\ Released(r) \in Procs \cup {NoOne}
      BY ReleasedType DEF Procs
    <2>1. PendingOp(r) \subseteq OrphanOps
      BY <2>0 DEF TypeOK, PendingOp, OrphanOps
    <2> QED BY <1>7, <2>0, <2>1 DEF TypeOK, Cancel, Steps, Replies
  <1>8. ASSUME NEW s \in Stoppers, BeginShutdown(s) PROVE TypeOK'
    BY <1>8 DEF TypeOK, BeginShutdown
  <1>9. ASSUME NEW f \in {Flusher} \cup Stoppers, FlushTaskStep(f) PROVE TypeOK'
    BY <1>9, FlushTaskStepType
  <1>10. CASE OrphanCompletes
    <2>1. PICK o \in orphans :
             /\ orphans' = orphans \ {o}
             /\ \/ o.op = "write" /\ tmp' = o.content /\ UNCHANGED disk
                \/ o.op = "rename" /\ tmp # NoTmp /\ disk' = tmp /\ tmp' = NoTmp
                \/ o.op = "rename" /\ tmp = NoTmp /\ UNCHANGED <<disk, tmp>>
      BY <1>10 DEF OrphanCompletes
    <2>2. o.op = "write" => o.content \in Store
      BY DEF TypeOK, OrphanOps
    <2> QED BY <1>10, <2>1, <2>2 DEF TypeOK, OrphanCompletes
  <1>11. CASE Crash
    <2>1. pc' \in [Procs -> Steps]
      BY <1>11 DEF TypeOK, Crash, Steps
    <2>2. reply' \in [Procs -> Replies]
      BY <1>11 DEF TypeOK, Crash, Replies
    <2>3. crashes' \in 0..MaxCrashes
      BY <1>11, BoundAssumption DEF TypeOK, Crash
    <2> QED BY <1>11, <2>1, <2>2, <2>3 DEF TypeOK, Crash
  <1>12. ASSUME NEW r \in Requests, TxnOwnSaveLock(r) PROVE TypeOK'
    BY <1>12 DEF TypeOK, TxnOwnSaveLock, Steps, Procs
  <1>13. CASE UNCHANGED vars
    BY <1>13 DEF TypeOK, vars
  <1> QED
    BY <1>1, <1>2, <1>3, <1>4, <1>5, <1>6, <1>7, <1>8, <1>9, <1>10, <1>11,
       <1>12, <1>13
    DEF Next

\* Every state of the file repository (Store, file/mod.rs:61) is well typed,
\* through every operation, fault, cancellation and crash.
THEOREM TypeCorrect == Spec => []TypeOK
  BY InitType, NextType, PTL DEF Spec
-----------------------------------------------------------------------------
(***************************************************************************)
(* Durability of acknowledged writes.  AckedWritesDurable is not inductive: *)
(* a flush could replace the file by an older snapshot.  What forbids it is *)
(* that only the holder of save_lock has a snapshot (LockDiscipline), that  *)
(* the only file operation left by a stopping process is harmless, that a   *)
(* snapshot never lacks what the file has (SnapshotsGrow), and that a write *)
(* is in memory, then in its snapshot, then in the file (WriteReaches),     *)
(* while a transaction that fails was never in the file (TxnReaches).       *)
(***************************************************************************)

\* Store s has nothing that store t lacks: no record, and no revocation.
Below(s, t) == s.recs \subseteq t.recs /\ (s.revoked => t.revoked)

LockSteps == {"own", "snap", "write", "rename", "saved", "failed"}
Quiet(p) == pc[p] \in {"idle", "done"}

LockDiscipline ==
    /\ \A p \in Procs : pc[p] \in LockSteps => saveLock = p
    /\ orphans # {} => up = "stopped"
    /\ [op |-> "rename"] \in orphans =>
         /\ orphans = {[op |-> "rename"]}
         /\ tmp # NoTmp =>
              Below(disk, tmp) /\ Below(tmp, mem)

\* Calls are under way only while a process serves: while it opens the store
\* only the opening save is, while it stops only flush tasks are.
ProcessDiscipline ==
    /\ up \in {"down", "stopped"} => \A p \in Procs : Quiet(p)
    /\ up = "opening" => \A p \in Procs \ {Opener} : Quiet(p)
    /\ up = "stopping" => \A r \in Requests : Quiet(r)
    /\ up # "opening" => pc[Opener] = "idle"
    /\ up # "stopping" => \A s \in Stoppers : Quiet(s)

SnapshotsGrow ==
    /\ up # "down" => Below(disk, mem)
    /\ \A p \in Procs : pc[p] \in {"write", "rename"} =>
         Below(disk, snap[p]) /\ Below(snap[p], mem)
    /\ \A p \in Procs : pc[p] = "rename" => tmp = snap[p]

WriteReaches ==
    \A w \in Writers :
        /\ pc[w] \in {"save", "snap"} => w \in mem.recs
        /\ pc[w] \in {"write", "rename"} => w \in snap[w].recs
        /\ pc[w] = "saved" => w \in disk.recs
        /\ pc[w] = "mark" => Mode = "interval"
        /\ Mode = "immediate" /\ reply[w] = "ok" => w \in disk.recs

TxnReaches ==
    \A t \in Txns :
        /\ pc[t] \notin {"save", "snap", "mark", "redirty"}
        /\ pc[t] \in {"idle", "own"} => t \notin mem.recs \cup disk.recs
        /\ pc[t] \in {"write", "rename"} => t \in snap[t].recs
        /\ pc[t] \in {"write", "rename", "failed"} => t \notin disk.recs
        /\ pc[t] = "saved" \/ reply[t] = "ok" => t \in disk.recs
        /\ reply[t] = "error" => pc[t] = "done" /\ t \notin mem.recs \cup disk.recs

DurabilityInv ==
    /\ LockDiscipline /\ ProcessDiscipline /\ SnapshotsGrow
    /\ WriteReaches /\ TxnReaches

\* Before the store is opened nothing was acknowledged.
LEMMA InitDurability == Init => DurabilityInv
  BY KindAssumption
  DEF Init, DurabilityInv, LockDiscipline, ProcessDiscipline, SnapshotsGrow,
      WriteReaches, TxnReaches, Below, Quiet, LockSteps, Procs, Requests, EmptyStore

\* A flush step by any process keeps the invariant: only one process at a
\* time is past AcquireSaveLock.
LEMMA FlushStepDurability ==
    ASSUME TypeOK, DurabilityInv, NEW p \in Procs, FlushStep(p)
    PROVE  DurabilityInv'
  <1> USE KindAssumption, NoTmpAssumption DEF Below, Quiet, LockSteps, Procs, Requests
  <1>1. CASE AcquireSaveLock(p)
    BY <1>1 DEF TypeOK, AcquireSaveLock,
                DurabilityInv, LockDiscipline, ProcessDiscipline,
                SnapshotsGrow, WriteReaches, TxnReaches
  <1>2. CASE Snapshot(p)
    BY <1>2 DEF TypeOK, Snapshot,
                DurabilityInv, LockDiscipline, ProcessDiscipline,
                SnapshotsGrow, WriteReaches, TxnReaches
  <1>3. CASE WriteTmp(p)
    BY <1>3 DEF TypeOK, WriteTmp,
                DurabilityInv, LockDiscipline, ProcessDiscipline,
                SnapshotsGrow, WriteReaches, TxnReaches
  <1>4. CASE RenameTmp(p)
    BY <1>4 DEF TypeOK, RenameTmp,
                DurabilityInv, LockDiscipline, ProcessDiscipline,
                SnapshotsGrow, WriteReaches, TxnReaches
  <1> QED
    BY <1>1, <1>2, <1>3, <1>4 DEF FlushStep

\* A request acknowledges only what its own flush has put in the file.
LEMMA RequestStepDurability ==
    ASSUME TypeOK, DurabilityInv, NEW r \in Requests, RequestStep(r)
    PROVE  DurabilityInv'
  <1> USE KindAssumption, ModeAssumption
      DEF Below, Quiet, LockSteps, Procs, Requests, Released
  <1>1. CASE CreateFamily(r)
    BY <1>1 DEF TypeOK, CreateFamily, ReadyForStore, Refuse, AfterMutation, Store,
                DurabilityInv, LockDiscipline, ProcessDiscipline,
                SnapshotsGrow, WriteReaches, TxnReaches
  <1>2. CASE Rotate(r)
    BY <1>2 DEF TypeOK, Rotate, ReadyForStore, Refuse, AfterMutation, Store,
                DurabilityInv, LockDiscipline, ProcessDiscipline,
                SnapshotsGrow, WriteReaches, TxnReaches
  <1>3. CASE MarkDirty(r)
    BY <1>3 DEF TypeOK, MarkDirty,
                DurabilityInv, LockDiscipline, ProcessDiscipline,
                SnapshotsGrow, WriteReaches, TxnReaches
  <1>4. CASE FlushStep(r)
    BY <1>4, FlushStepDurability
  <1>5. CASE SaveOk(r)
    BY <1>5 DEF TypeOK, SaveOk,
                DurabilityInv, LockDiscipline, ProcessDiscipline,
                SnapshotsGrow, WriteReaches, TxnReaches
  <1>6. CASE SaveError(r)
    BY <1>6 DEF TypeOK, SaveError, Store,
                DurabilityInv, LockDiscipline, ProcessDiscipline,
                SnapshotsGrow, WriteReaches, TxnReaches
  <1>7. CASE TxnMutate(r)
    BY <1>7 DEF TypeOK, TxnMutate, Store,
                DurabilityInv, LockDiscipline, ProcessDiscipline,
                SnapshotsGrow, WriteReaches, TxnReaches
  <1>8. CASE TxnReturns(r)
    BY <1>8 DEF TypeOK, TxnReturns, Store,
                DurabilityInv, LockDiscipline, ProcessDiscipline,
                SnapshotsGrow, WriteReaches, TxnReaches
  <1>9. CASE TxnRefused(r)
    BY <1>9 DEF TypeOK, TxnRefused, Refuse,
                DurabilityInv, LockDiscipline, ProcessDiscipline,
                SnapshotsGrow, WriteReaches, TxnReaches
  <1> QED
    BY <1>1, <1>2, <1>3, <1>4, <1>5, <1>6, <1>7, <1>8, <1>9 DEF RequestStep

\* A process that stops leaves at most the background task's last operation
\* behind, and its rename can only install a snapshot that has what disk has.
LEMMA StopDurability ==
    ASSUME TypeOK, DurabilityInv, NEW s \in Stoppers, NEW a \in Replies,
           up = "stopping", pc[s] \notin {"own", "save", "snap", "write", "rename"},
           StopProcess(s, a), UNCHANGED <<mem, disk, tmp, snap>>
    PROVE  DurabilityInv'
  <1> USE KindAssumption, NoTmpAssumption DEF Below, Quiet, LockSteps, Procs, Requests
  <1>1. orphans = {}
    BY DEF DurabilityInv, LockDiscipline
  <1>2. \A p \in Procs : pc'[p] \in {"idle", "done"}
    BY DEF TypeOK, StopProcess, DurabilityInv, ProcessDiscipline
  <1>3. LockDiscipline'
    <2>1. [op |-> "rename"] \in orphans' =>
             orphans' = {[op |-> "rename"]} /\ pc[Flusher] = "rename"
      BY <1>1 DEF StopProcess, PendingOp
    <2>2. pc[Flusher] = "rename" =>
             Below(disk, tmp) /\ Below(tmp, mem)
      BY DEF DurabilityInv, SnapshotsGrow
    <2> QED BY <1>2, <2>1, <2>2 DEF StopProcess, LockDiscipline
  <1>4. ProcessDiscipline' /\ SnapshotsGrow'
    BY <1>2 DEF TypeOK, StopProcess, DurabilityInv, ProcessDiscipline, SnapshotsGrow
  <1>5. \A r \in Requests : reply'[r] = reply[r] /\ pc'[r] = pc[r]
    BY DEF TypeOK, StopProcess
  <1>6. WriteReaches' /\ TxnReaches'
    BY <1>2, <1>5 DEF DurabilityInv, WriteReaches, TxnReaches
  <1> QED BY <1>3, <1>4, <1>6 DEF DurabilityInv

\* The background and the shutdown flush only add to the file.
LEMMA FlushTaskStepDurability ==
    ASSUME TypeOK, DurabilityInv, NEW f \in {Flusher} \cup Stoppers,
           FlushTaskStep(f)
    PROVE  DurabilityInv'
  <1> USE KindAssumption DEF Below, Quiet, LockSteps, Procs, Requests, Released
  <1>0. f # Flusher /\ ~Quiet(f) => f \in Stoppers /\ up = "stopping"
    BY DEF DurabilityInv, ProcessDiscipline
  <1>1. CASE SwapDirty(f)
    BY <1>1 DEF TypeOK, SwapDirty,
                DurabilityInv, LockDiscipline, ProcessDiscipline,
                SnapshotsGrow, WriteReaches, TxnReaches
  <1>2. CASE ShutdownClean(f)
    BY <1>2, StopDurability DEF ShutdownClean, Replies
  <1>3. CASE FlushStep(f)
    BY <1>3, FlushStepDurability
  <1>4. CASE FlushOk(f)
    <2>1. CASE f = Flusher
      BY <1>4, <2>1 DEF TypeOK, FlushOk, DurabilityInv, LockDiscipline,
                ProcessDiscipline, SnapshotsGrow, WriteReaches, TxnReaches
    <2>2. CASE f # Flusher
      BY <1>0, <1>4, <2>2, StopDurability DEF FlushOk, Replies
    <2> QED BY <2>1, <2>2
  <1>5. CASE FlushError(f)
    BY <1>5 DEF TypeOK, FlushError,
                DurabilityInv, LockDiscipline, ProcessDiscipline,
                SnapshotsGrow, WriteReaches, TxnReaches
  <1>6. CASE Redirty(f)
    <2>1. CASE f = Flusher
      BY <1>6, <2>1 DEF TypeOK, Redirty, DurabilityInv, LockDiscipline,
                ProcessDiscipline, SnapshotsGrow, WriteReaches, TxnReaches
    <2>2. CASE f # Flusher
      BY <1>0, <1>6, <2>2, StopDurability DEF Redirty, Replies
    <2>3. f \in Procs /\ pc[f] = "redirty"
      BY <1>6 DEF Redirty
    <2> QED BY <2>1, <2>2
  <1> QED
    BY <1>1, <1>2, <1>3, <1>4, <1>5, <1>6 DEF FlushTaskStep

\* No future is dropped in this step.
NoCancel == \A r \in Requests : ~Cancel(r)

\* Without cancellable requests no future is dropped.
LEMMA NothingCancellable == Cancellable = {} => NoCancel
  BY DEF NoCancel, Cancel

\* Every step keeps what was acknowledged in the file, or in the flush to come.
LEMMA NextDurability ==
    TypeOK /\ DurabilityInv /\ [Next]_vars /\ NoCancel => DurabilityInv'
  <1> SUFFICES ASSUME TypeOK, DurabilityInv, [Next]_vars, NoCancel PROVE DurabilityInv'
    OBVIOUS
  <1> USE KindAssumption DEF Below, Quiet, LockSteps, Procs, Requests
  <1>1. CASE Open
    BY <1>1 DEF TypeOK, Open, Store,
                DurabilityInv, LockDiscipline, ProcessDiscipline,
                SnapshotsGrow, WriteReaches, TxnReaches
  <1>2. CASE FlushStep(Opener)
    BY <1>2, FlushStepDurability
  <1>3. CASE OpenerReturns
    BY <1>3 DEF TypeOK, OpenerReturns,
                DurabilityInv, LockDiscipline, ProcessDiscipline,
                SnapshotsGrow, WriteReaches, TxnReaches
  <1>4. ASSUME NEW r \in Requests, MapWrite(r) PROVE DurabilityInv'
    BY <1>4, ModeAssumption DEF TypeOK, MapWrite, Applied, AfterMutation, Store,
                DurabilityInv, LockDiscipline, ProcessDiscipline,
                SnapshotsGrow, WriteReaches, TxnReaches
  <1>5. ASSUME NEW r \in Requests, OwnSaveLock(r) PROVE DurabilityInv'
    BY <1>5 DEF TypeOK, OwnSaveLock,
                DurabilityInv, LockDiscipline, ProcessDiscipline,
                SnapshotsGrow, WriteReaches, TxnReaches
  <1>6. ASSUME NEW r \in Requests, RequestStep(r) PROVE DurabilityInv'
    BY <1>6, RequestStepDurability
  <1>7. ASSUME NEW r \in Requests, Cancel(r) PROVE DurabilityInv'
    BY <1>7 DEF NoCancel
  <1>8. ASSUME NEW s \in Stoppers, BeginShutdown(s) PROVE DurabilityInv'
    BY <1>8 DEF TypeOK, BeginShutdown,
                DurabilityInv, LockDiscipline, ProcessDiscipline,
                SnapshotsGrow, WriteReaches, TxnReaches
  <1>9. ASSUME NEW f \in {Flusher} \cup Stoppers, FlushTaskStep(f)
        PROVE DurabilityInv'
    BY <1>9, FlushTaskStepDurability
  <1>10. CASE OrphanCompletes
    <2>1. PICK o \in orphans :
             /\ orphans' = orphans \ {o}
             /\ \/ o.op = "write" /\ tmp' = o.content /\ UNCHANGED disk
                \/ o.op = "rename" /\ tmp # NoTmp /\ disk' = tmp /\ tmp' = NoTmp
                \/ o.op = "rename" /\ tmp = NoTmp /\ UNCHANGED <<disk, tmp>>
      BY <1>10 DEF OrphanCompletes
    <2>2. \A p \in Procs : Quiet(p)
      BY <2>1 DEF DurabilityInv, LockDiscipline, ProcessDiscipline
    <2>3. CASE o.op = "write"
      <3>1. o # [op |-> "rename"]
        BY <2>3
      <3>2. orphans' # {} => up' = "stopped" /\ [op |-> "rename"] \notin orphans'
        BY <1>10, <2>1, <3>1 DEF OrphanCompletes, DurabilityInv, LockDiscipline
      <3> QED
        BY <1>10, <2>1, <2>2, <2>3, <3>2 DEF OrphanCompletes, DurabilityInv,
           LockDiscipline, ProcessDiscipline, SnapshotsGrow, WriteReaches, TxnReaches
    <2>4. CASE o.op = "rename"
      <3>1. o = [op |-> "rename"]
        BY <2>4 DEF TypeOK, OrphanOps
      <3>2. orphans' = {} /\ up = "stopped"
        BY <2>1, <3>1 DEF DurabilityInv, LockDiscipline
      <3>3. Below(disk, disk') /\ Below(disk', mem)
        BY <2>1, <2>4, <3>1, <3>2 DEF DurabilityInv, LockDiscipline, SnapshotsGrow
      <3> QED
        BY <1>10, <2>2, <3>2, <3>3 DEF OrphanCompletes, DurabilityInv,
           LockDiscipline, ProcessDiscipline, SnapshotsGrow, WriteReaches, TxnReaches
    <2> QED BY <2>1, <2>3, <2>4
  <1>11. CASE Crash
    BY <1>11 DEF TypeOK, Crash,
                DurabilityInv, LockDiscipline, ProcessDiscipline,
                SnapshotsGrow, WriteReaches, TxnReaches
  <1>12. ASSUME NEW r \in Requests, TxnOwnSaveLock(r) PROVE DurabilityInv'
    BY <1>12 DEF TypeOK, TxnOwnSaveLock,
                DurabilityInv, LockDiscipline, ProcessDiscipline,
                SnapshotsGrow, WriteReaches, TxnReaches
  <1>13. CASE UNCHANGED vars
    BY <1>13 DEF vars, DurabilityInv, LockDiscipline, ProcessDiscipline,
                SnapshotsGrow, WriteReaches, TxnReaches
  <1> QED
    BY <1>1, <1>2, <1>3, <1>4, <1>5, <1>6, <1>7, <1>8, <1>9, <1>10, <1>11,
       <1>12, <1>13
    DEF Next

\* Without dropped futures (docs/configuration.md:272): for any number of
\* calls, failing file operations and crashes, an Immediate-mode write or a
\* transaction of either mode that was reported Ok is in the store file from
\* then on.
THEOREM Durability ==
    ASSUME Cancellable = {}
    PROVE  Spec => []AckedWritesDurable
  <1>1. DurabilityInv => AckedWritesDurable
    BY DEF DurabilityInv, WriteReaches, TxnReaches, AckedWritesDurable
  <1>2. TypeOK /\ DurabilityInv /\ [Next]_vars => DurabilityInv'
    BY NextDurability, NothingCancellable
  <1> QED
    BY <1>1, <1>2, InitDurability, TypeCorrect, PTL DEF Spec

-----------------------------------------------------------------------------
(***************************************************************************)
(* Revocation.  No step but Open clears revoked in memory, and the file is *)
(* only replaced by a snapshot that has every revocation the file has.     *)
(***************************************************************************)
\* No step takes a revocation out of memory or out of the file.
LEMMA NextRevocation ==
    ASSUME Cancellable = {}, TypeOK, DurabilityInv, Next
    PROVE  /\ disk.revoked => disk'.revoked
           /\ up = "up" /\ up' = "up" /\ mem.revoked => mem'.revoked
  <1> USE KindAssumption DEF Procs, Requests
  <1>1. ASSUME NEW p \in Procs, FlushStep(p)
        PROVE  (disk.revoked => disk'.revoked) /\ mem' = mem
    <2>1. CASE RenameTmp(p)
      BY <2>1 DEF RenameTmp, DurabilityInv, SnapshotsGrow, Below
    <2>2. CASE AcquireSaveLock(p) \/ Snapshot(p) \/ WriteTmp(p)
      BY <2>2 DEF AcquireSaveLock, Snapshot, WriteTmp
    <2> QED BY <1>1, <2>1, <2>2 DEF FlushStep
  <1>2. ASSUME NEW r \in Requests, RequestStep(r) \/ MapWrite(r) \/ OwnSaveLock(r)
                                   \/ TxnOwnSaveLock(r)
        PROVE  (disk.revoked => disk'.revoked) /\ (mem.revoked => mem'.revoked)
    <2>1. CASE FlushStep(r)
      BY <1>1, <2>1
    <2>2. CASE CreateFamily(r) \/ Rotate(r)
      BY <2>2 DEF TypeOK, Store, CreateFamily, Rotate, Refuse
    <2>3. CASE MapWrite(r) \/ OwnSaveLock(r) \/ TxnOwnSaveLock(r) \/ MarkDirty(r)
      BY <2>3 DEF TypeOK, Store, MapWrite, Applied, OwnSaveLock, TxnOwnSaveLock, MarkDirty
    <2>4. CASE SaveOk(r) \/ SaveError(r)
      BY <2>4 DEF TypeOK, Store, SaveOk, SaveError
    <2>5. CASE TxnMutate(r) \/ TxnRefused(r) \/ TxnReturns(r)
      BY <2>5 DEF TypeOK, Store, TxnMutate, TxnRefused, Refuse, TxnReturns
    <2> QED BY <1>2, <2>1, <2>2, <2>3, <2>4, <2>5 DEF RequestStep
  <1>3. ASSUME NEW f \in {Flusher} \cup Stoppers, FlushTaskStep(f)
        PROVE  (disk.revoked => disk'.revoked) /\ mem' = mem
    BY <1>1, <1>3 DEF FlushTaskStep, SwapDirty, ShutdownClean, FlushOk, FlushError,
                      Redirty
  <1>4. ASSUME Open \/ OpenerReturns \/ Crash \/ \E s \in Stoppers : BeginShutdown(s)
        PROVE  disk' = disk /\ (up = "up" => mem' = mem)
    BY <1>4 DEF Open, OpenerReturns, Crash, BeginShutdown
  <1>5. CASE OrphanCompletes
    BY <1>5 DEF OrphanCompletes, TypeOK, OrphanOps, DurabilityInv, LockDiscipline, Below
  <1>6. ASSUME NEW r \in Requests, Cancel(r) PROVE FALSE
    BY <1>6 DEF Cancel
  <1> QED
    BY <1>1, <1>2, <1>3, <1>4, <1>5, <1>6 DEF Next

\* file/token.rs:133 without dropped futures: a revocation is never undone, by
\* no rollback of a rotation or transaction, no flush, no failing file
\* operation, and not in the file by a crash either.
THEOREM RevocationStays ==
    ASSUME Cancellable = {}
    PROVE  Spec => RevocationPermanent
  <1>1. TypeOK /\ DurabilityInv /\ [Next]_vars
          => [/\ disk.revoked => disk'.revoked
              /\ up = "up" /\ up' = "up" /\ mem.revoked => mem'.revoked]_vars
    BY NextRevocation
  <1>2. TypeOK /\ DurabilityInv /\ [Next]_vars => DurabilityInv'
    BY NextDurability, NothingCancellable
  <1> QED
    BY <1>1, <1>2, InitDurability, TypeCorrect, PTL DEF Spec, RevocationPermanent

-----------------------------------------------------------------------------
(***************************************************************************)
(* Rollback.  In Immediate mode a rotation's hash is in memory only between *)
(* its mutation and its rollback, it owns save_lock all that time, so that  *)
(* nobody else can have a snapshot with it.                                 *)
(***************************************************************************)
FlushTasksQuiet ==
    /\ ~dirty /\ orphans = {}
    /\ \A p \in Procs : pc[p] \notin {"mark", "redirty"}
    /\ \A f \in {Flusher} \cup Stoppers : Quiet(f)

Rotating(r) == pc[r] \in {"snap", "write", "rename", "failed"}

\* Rotation r has not reached the store, or was rolled back.
Traceless(r) == pc[r] \in {"idle", "own"} \/ reply[r] = "error"

HashDiscipline ==
    \A r \in Rotators :
        /\ pc[r] # "save"
        /\ reply[r] = "error" => pc[r] = "done"
        /\ Traceless(r) =>
             /\ r # mem.hash /\ r # disk.hash
             /\ \A p \in Procs : pc[p] \in {"write", "rename"} => snap[p].hash # r
             /\ \A q \in Rotators : Rotating(q) => prev[q] # r
        /\ Rotating(r) => r # disk.hash /\ prev[r] # r

RollbackInv == Mode = "immediate" => FlushTasksQuiet /\ HashDiscipline

\* The steps of flush_store_locked keep the rollback invariant.
LEMMA FlushStepRollback ==
    ASSUME TypeOK, DurabilityInv, FlushTasksQuiet, HashDiscipline,
           NEW p \in Procs, FlushStep(p)
    PROVE  FlushTasksQuiet' /\ HashDiscipline'
  <1> USE KindAssumption, NoTmpAssumption DEF Quiet, LockSteps, Procs, Requests, Rotating,
          Traceless, Released
  <1>1. CASE AcquireSaveLock(p)
    BY <1>1 DEF TypeOK, AcquireSaveLock,
                FlushTasksQuiet, HashDiscipline,
                DurabilityInv, LockDiscipline
  <1>2. CASE Snapshot(p)
    BY <1>2 DEF TypeOK, Snapshot,
                FlushTasksQuiet, HashDiscipline,
                DurabilityInv, LockDiscipline
  <1>3. CASE WriteTmp(p)
    BY <1>3 DEF TypeOK, WriteTmp,
                FlushTasksQuiet, HashDiscipline,
                DurabilityInv, LockDiscipline
  <1>4. CASE RenameTmp(p)
    BY <1>4 DEF TypeOK, RenameTmp, SnapshotsGrow,
                FlushTasksQuiet, HashDiscipline,
                DurabilityInv, LockDiscipline
  <1> QED
    BY <1>1, <1>2, <1>3, <1>4 DEF FlushStep

\* A request that fails takes its change back before it frees save_lock.
LEMMA RequestStepRollback ==
    ASSUME Mode = "immediate", TypeOK, DurabilityInv, FlushTasksQuiet,
           HashDiscipline, NEW r \in Requests, RequestStep(r)
    PROVE  FlushTasksQuiet' /\ HashDiscipline'
  <1> USE KindAssumption, NoTmpAssumption DEF Quiet, LockSteps, Procs, Requests, Rotating,
          Traceless, Released
  <1>1. CASE CreateFamily(r)
    BY <1>1 DEF TypeOK, CreateFamily, ReadyForStore, Refuse, AfterMutation, Store,
                FlushTasksQuiet, HashDiscipline,
                DurabilityInv, LockDiscipline
  <1>2. CASE Rotate(r)
    BY <1>2 DEF TypeOK, Rotate, ReadyForStore, Refuse, AfterMutation, Store, Issued,
                FlushTasksQuiet, HashDiscipline,
                DurabilityInv, LockDiscipline
  <1>3. CASE MarkDirty(r)
    BY <1>3 DEF TypeOK, MarkDirty,
                FlushTasksQuiet, HashDiscipline,
                DurabilityInv, LockDiscipline
  <1>4. CASE FlushStep(r)
    BY <1>4, FlushStepRollback
  <1>5. CASE SaveOk(r)
    BY <1>5 DEF TypeOK, SaveOk,
                FlushTasksQuiet, HashDiscipline,
                DurabilityInv, LockDiscipline
  <1>6. CASE SaveError(r)
    BY <1>6 DEF TypeOK, SaveError, Store,
                FlushTasksQuiet, HashDiscipline,
                DurabilityInv, LockDiscipline
  <1>7. CASE TxnMutate(r)
    BY <1>7 DEF TypeOK, TxnMutate, Store,
                FlushTasksQuiet, HashDiscipline,
                DurabilityInv, LockDiscipline
  <1>8. CASE TxnReturns(r)
    BY <1>8 DEF TypeOK, TxnReturns, Store,
                FlushTasksQuiet, HashDiscipline,
                DurabilityInv, LockDiscipline
  <1>9. CASE TxnRefused(r)
    BY <1>9 DEF TypeOK, TxnRefused, Refuse, FlushTasksQuiet, HashDiscipline,
                DurabilityInv, LockDiscipline
  <1> QED
    BY <1>1, <1>2, <1>3, <1>4, <1>5, <1>6, <1>7, <1>8, <1>9 DEF RequestStep

\* Every step keeps the rollback invariant.
LEMMA NextRollback ==
    ASSUME Cancellable = {}
    PROVE  TypeOK /\ DurabilityInv /\ RollbackInv /\ [Next]_vars => RollbackInv'
  <1> SUFFICES ASSUME Mode = "immediate", TypeOK, DurabilityInv, FlushTasksQuiet,
                      HashDiscipline, [Next]_vars
               PROVE  FlushTasksQuiet' /\ HashDiscipline'
    BY DEF RollbackInv
  <1> USE KindAssumption, NoTmpAssumption DEF Quiet, LockSteps, Procs, Requests, Rotating,
          Traceless, Released
  <1>1. CASE Open
    BY <1>1 DEF TypeOK, Open, Store, ProcessDiscipline,
                FlushTasksQuiet, HashDiscipline,
                DurabilityInv, LockDiscipline
  <1>2. CASE FlushStep(Opener)
    BY <1>2, FlushStepRollback
  <1>3. CASE OpenerReturns
    BY <1>3 DEF TypeOK, OpenerReturns,
                FlushTasksQuiet, HashDiscipline,
                DurabilityInv, LockDiscipline
  <1>4. ASSUME NEW r \in Requests, MapWrite(r)
        PROVE  FlushTasksQuiet' /\ HashDiscipline'
    BY <1>4 DEF TypeOK, MapWrite, Applied, AfterMutation, Store,
                FlushTasksQuiet, HashDiscipline,
                DurabilityInv, LockDiscipline
  <1>5. ASSUME NEW r \in Requests, OwnSaveLock(r) \/ TxnOwnSaveLock(r)
        PROVE  FlushTasksQuiet' /\ HashDiscipline'
    BY <1>5 DEF TypeOK, OwnSaveLock, TxnOwnSaveLock,
                FlushTasksQuiet, HashDiscipline,
                DurabilityInv, LockDiscipline
  <1>6. ASSUME NEW r \in Requests, RequestStep(r)
        PROVE  FlushTasksQuiet' /\ HashDiscipline'
    BY <1>6, RequestStepRollback
  <1>7. ASSUME NEW r \in Requests, Cancel(r) PROVE FALSE
    BY <1>7 DEF Cancel
  <1>8. ASSUME NEW s \in Stoppers, BeginShutdown(s)
        PROVE  FlushTasksQuiet' /\ HashDiscipline'
    BY <1>8 DEF TypeOK, BeginShutdown,
                FlushTasksQuiet, HashDiscipline,
                DurabilityInv, LockDiscipline
  <1>9. ASSUME NEW f \in {Flusher} \cup Stoppers, FlushTaskStep(f)
        PROVE  FlushTasksQuiet' /\ HashDiscipline'
    <2>1. ShutdownClean(f)
      BY <1>9 DEF FlushTaskStep, FlushStep, AcquireSaveLock, Snapshot, WriteTmp,
                  RenameTmp, SwapDirty, FlushOk, FlushError, Redirty, FlushTasksQuiet
    <2>2. PendingOp(Flusher) = {}
      BY DEF PendingOp, FlushTasksQuiet
    <2> QED
      BY <2>1, <2>2 DEF TypeOK, ShutdownClean, StopProcess, FlushTasksQuiet,
         HashDiscipline, DurabilityInv, LockDiscipline
  <1>10. CASE OrphanCompletes
    BY <1>10 DEF OrphanCompletes, FlushTasksQuiet
  <1>11. CASE Crash
    BY <1>11 DEF TypeOK, Crash,
                FlushTasksQuiet, HashDiscipline,
                DurabilityInv, LockDiscipline
  <1>12. CASE UNCHANGED vars
    BY <1>12 DEF vars, FlushTasksQuiet, HashDiscipline
  <1> QED
    BY <1>1, <1>2, <1>3, <1>4, <1>5, <1>6, <1>7, <1>8, <1>9, <1>10, <1>11,
       <1>12
    DEF Next

\* Without dropped futures, for any number of calls, faults and crashes: a
\* rotation (Immediate mode) or a transaction (both modes) that was answered
\* with the save error has left nothing in the file and nothing in memory.
THEOREM Rollback ==
    ASSUME Cancellable = {}
    PROVE  Spec => []FailedChangeLeavesNoTrace
  <1>1. TypeOK /\ DurabilityInv /\ RollbackInv => FailedChangeLeavesNoTrace
    BY DEF TypeOK, DurabilityInv, TxnReaches, RollbackInv, HashDiscipline,
           Traceless, FailedChangeLeavesNoTrace
  <1>2. Init => RollbackInv
    BY KindAssumption
    DEF Init, RollbackInv, FlushTasksQuiet, HashDiscipline, Traceless, Rotating,
        Quiet, EmptyStore, Procs, Requests
  <1>3. TypeOK /\ DurabilityInv /\ [Next]_vars => DurabilityInv'
    BY NextDurability, NothingCancellable
  <1>4. TypeOK /\ DurabilityInv /\ RollbackInv /\ [Next]_vars => RollbackInv'
    BY NextRollback
  <1> QED
    BY <1>1, <1>2, <1>3, <1>4, InitDurability, TypeCorrect, PTL DEF Spec

-----------------------------------------------------------------------------
(***************************************************************************)
(* Rotation.  A refresh hash that an accepted rotation presented is spent: *)
(* it is nowhere in memory, in the file, in a snapshot or in the hash that  *)
(* a rotation under way would restore, and the hashes written later are    *)
(* fresh.  What a rotation wrote stays its own until it gives save_lock up. *)
(***************************************************************************)
\* Rotation r has reached the file and was not overtaken by a crash.
Past(r) == pc[r] = "saved" \/ reply[r] = "ok"

OkIsDone == \A r \in Requests : reply[r] = "ok" => pc[r] = "done"

RotationRuns ==
    \A r \in Rotators :
        /\ Rotating(r) => mem.hash = r /\ prev[r] = expect[r] /\ expect[r] \in Issued
        /\ pc[r] \in {"write", "rename"} => snap[r].hash = r

\* Hash h is nowhere it could come back from.
Spent(h) ==
    /\ h # mem.hash /\ h # disk.hash
    /\ \A p \in Procs : pc[p] \in {"write", "rename"} => snap[p].hash # h
    /\ \A q \in Rotators : Rotating(q) => prev[q] # h

SpentStays ==
    \A r \in Rotators : Past(r) =>
        /\ expect[r] \in Issued /\ Spent(expect[r])
        /\ \A q \in Rotators : Past(q) /\ expect[q] = expect[r] => q = r

SpentInv == Mode = "immediate" => OkIsDone /\ RotationRuns /\ SpentStays

\* The steps of flush_store_locked: a rename spends what its rotation presented.
LEMMA FlushStepSpent ==
    ASSUME TypeOK, DurabilityInv, HashDiscipline, OkIsDone, RotationRuns, SpentStays,
           NEW p \in Procs, FlushStep(p)
    PROVE  OkIsDone' /\ RotationRuns' /\ SpentStays'
  <1> USE KindAssumption, NoTmpAssumption DEF LockSteps, Procs, Requests, Rotating, Past, Spent, Issued
  <1>1. CASE AcquireSaveLock(p)
    BY <1>1 DEF TypeOK, AcquireSaveLock, OkIsDone, RotationRuns, SpentStays,
                HashDiscipline, DurabilityInv, LockDiscipline
  <1>2. CASE Snapshot(p)
    BY <1>2 DEF TypeOK, Snapshot, OkIsDone, RotationRuns, SpentStays,
                HashDiscipline, DurabilityInv, LockDiscipline
  <1>3. CASE WriteTmp(p)
    BY <1>3 DEF TypeOK, WriteTmp, OkIsDone, RotationRuns, SpentStays,
                HashDiscipline, DurabilityInv, LockDiscipline
  <1>4. CASE RenameTmp(p)
    BY <1>4 DEF TypeOK, RenameTmp, OkIsDone, RotationRuns, SpentStays, SnapshotsGrow,
                HashDiscipline, DurabilityInv, LockDiscipline
  <1> QED BY <1>1, <1>2, <1>3, <1>4 DEF FlushStep

\* A request's own steps: a rotation is accepted only on a hash not yet spent.
LEMMA RequestStepSpent ==
    ASSUME Mode = "immediate", TypeOK, DurabilityInv, FlushTasksQuiet, HashDiscipline,
           OkIsDone, RotationRuns, SpentStays, NEW r \in Requests, RequestStep(r)
    PROVE  OkIsDone' /\ RotationRuns' /\ SpentStays'
  <1> USE KindAssumption, NoTmpAssumption
      DEF LockSteps, Procs, Requests, Rotating, Past, Spent, Issued, Released
  <1>1. CASE CreateFamily(r)
    BY <1>1 DEF TypeOK, CreateFamily, ReadyForStore, Refuse, AfterMutation, Store,
                OkIsDone, RotationRuns, SpentStays, HashDiscipline, DurabilityInv, LockDiscipline
  <1>2. CASE Rotate(r)
    BY <1>2 DEF TypeOK, Rotate, ValidRotation, ReadyForStore, Refuse, AfterMutation, Store,
                OkIsDone, RotationRuns, SpentStays, HashDiscipline, DurabilityInv, LockDiscipline
  <1>3. CASE MarkDirty(r)
    BY <1>3 DEF MarkDirty, FlushTasksQuiet
  <1>4. CASE FlushStep(r)
    BY <1>4, FlushStepSpent
  <1>5. CASE SaveOk(r)
    BY <1>5 DEF TypeOK, SaveOk, OkIsDone, RotationRuns, SpentStays, HashDiscipline,
                DurabilityInv, LockDiscipline
  <1>6. CASE SaveError(r)
    BY <1>6 DEF TypeOK, SaveError, Store, OkIsDone, RotationRuns, SpentStays, HashDiscipline,
                DurabilityInv, LockDiscipline
  <1>7. CASE TxnMutate(r)
    BY <1>7 DEF TypeOK, TxnMutate, Store, OkIsDone, RotationRuns, SpentStays, HashDiscipline,
                DurabilityInv, LockDiscipline
  <1>8. CASE TxnReturns(r)
    BY <1>8 DEF TypeOK, TxnReturns, Store, OkIsDone, RotationRuns, SpentStays, HashDiscipline,
                DurabilityInv, LockDiscipline
  <1>9. CASE TxnRefused(r)
    BY <1>9 DEF TypeOK, TxnRefused, Refuse, OkIsDone, RotationRuns, SpentStays, HashDiscipline,
                DurabilityInv, LockDiscipline
  <1> QED BY <1>1, <1>2, <1>3, <1>4, <1>5, <1>6, <1>7, <1>8, <1>9 DEF RequestStep

\* Every step keeps spent hashes spent.
LEMMA NextSpent ==
    ASSUME Cancellable = {}
    PROVE  TypeOK /\ DurabilityInv /\ RollbackInv /\ SpentInv /\ [Next]_vars => SpentInv'
  <1> SUFFICES ASSUME Mode = "immediate", TypeOK, DurabilityInv, FlushTasksQuiet, HashDiscipline,
                      OkIsDone, RotationRuns, SpentStays, [Next]_vars
               PROVE  OkIsDone' /\ RotationRuns' /\ SpentStays'
    BY DEF RollbackInv, SpentInv
  <1> USE KindAssumption, NoTmpAssumption
      DEF Quiet, LockSteps, Procs, Requests, Rotating, Past, Spent, Issued
  <1>1. CASE Open
    BY <1>1 DEF TypeOK, Open, Store, ProcessDiscipline, OkIsDone, RotationRuns, SpentStays,
                DurabilityInv
  <1>2. CASE FlushStep(Opener)
    BY <1>2, FlushStepSpent
  <1>3. CASE OpenerReturns
    BY <1>3 DEF TypeOK, OpenerReturns, OkIsDone, RotationRuns, SpentStays
  <1>4. ASSUME NEW r \in Requests, MapWrite(r) PROVE OkIsDone' /\ RotationRuns' /\ SpentStays'
    BY <1>4 DEF TypeOK, MapWrite, Applied, AfterMutation, Store, OkIsDone, RotationRuns, SpentStays
  <1>5. ASSUME NEW r \in Requests, OwnSaveLock(r) \/ TxnOwnSaveLock(r)
        PROVE  OkIsDone' /\ RotationRuns' /\ SpentStays'
    BY <1>5 DEF TypeOK, OwnSaveLock, TxnOwnSaveLock, OkIsDone, RotationRuns, SpentStays
  <1>6. ASSUME NEW r \in Requests, RequestStep(r) PROVE OkIsDone' /\ RotationRuns' /\ SpentStays'
    BY <1>6, RequestStepSpent
  <1>7. ASSUME NEW r \in Requests, Cancel(r) PROVE FALSE
    BY <1>7 DEF Cancel
  <1>8. ASSUME NEW s \in Stoppers, BeginShutdown(s) PROVE OkIsDone' /\ RotationRuns' /\ SpentStays'
    BY <1>8 DEF TypeOK, BeginShutdown, OkIsDone, RotationRuns, SpentStays
  <1>9. ASSUME NEW f \in {Flusher} \cup Stoppers, FlushTaskStep(f)
        PROVE  OkIsDone' /\ RotationRuns' /\ SpentStays'
    <2>1. ShutdownClean(f)
      BY <1>9 DEF FlushTaskStep, FlushStep, AcquireSaveLock, Snapshot, WriteTmp,
                  RenameTmp, SwapDirty, FlushOk, FlushError, Redirty, FlushTasksQuiet
    <2>2. /\ \A r \in Requests : pc'[r] = pc[r] /\ reply'[r] = reply[r]
          /\ \A q \in Procs : pc'[q] \in {"write", "rename"} => pc[q] \in {"write", "rename"}
          /\ UNCHANGED <<mem, disk, snap, expect, prev>>
      BY <2>1 DEF TypeOK, ShutdownClean, StopProcess
    <2> QED BY <2>2 DEF OkIsDone, RotationRuns, SpentStays
  <1>10. CASE OrphanCompletes
    BY <1>10 DEF OrphanCompletes, FlushTasksQuiet
  <1>11. CASE Crash
    BY <1>11 DEF TypeOK, Crash, OkIsDone, RotationRuns, SpentStays
  <1>12. CASE UNCHANGED vars
    BY <1>12 DEF vars, OkIsDone, RotationRuns, SpentStays
  <1> QED
    BY <1>1, <1>2, <1>3, <1>4, <1>5, <1>6, <1>7, <1>8, <1>9, <1>10, <1>11, <1>12 DEF Next

\* validate_token_family_rotation under save_lock, Immediate mode, without
\* dropped futures: for any number of calls, failed flushes and crashes, no two
\* accepted rotations presented the same refresh hash.
THEOREM AcceptedOnce ==
    ASSUME Cancellable = {}, Mode = "immediate"
    PROVE  Spec => []RotationAcceptedOnce
  <1>1. SpentInv => RotationAcceptedOnce
    BY DEF SpentInv, SpentStays, Past, RotationAcceptedOnce
  <1>2. Init => RollbackInv /\ SpentInv
    BY KindAssumption
    DEF Init, RollbackInv, FlushTasksQuiet, HashDiscipline, Traceless, Rotating, Quiet, EmptyStore,
        Procs, Requests, SpentInv, OkIsDone, RotationRuns, SpentStays, Past
  <1>3. TypeOK /\ DurabilityInv /\ [Next]_vars => DurabilityInv'
    BY NextDurability, NothingCancellable
  <1>4. TypeOK /\ DurabilityInv /\ RollbackInv /\ [Next]_vars => RollbackInv'
    BY NextRollback
  <1>5. TypeOK /\ DurabilityInv /\ RollbackInv /\ SpentInv /\ [Next]_vars => SpentInv'
    BY NextSpent
  <1> QED
    BY <1>1, <1>2, <1>3, <1>4, <1>5, InitDurability, TypeCorrect, PTL DEF Spec

-----------------------------------------------------------------------------
(***************************************************************************)
(* Interval mode.  LagIsCovered does not say what happens to a lag while a  *)
(* transaction has changed memory and may still roll back, nor that a       *)
(* flush of an old snapshot leaves the newer change to somebody: TxnHolds   *)
(* and LagPending do.  No future can be dropped between the change of       *)
(* memory and the dirty flag, which save() sets without an await.           *)
(***************************************************************************)
FlushTasks == {Flusher} \cup Stoppers

\* Somebody will still set the flag, or take a snapshot because of it.
Pending ==
    \/ dirty
    \/ \E r \in Requests : pc[r] = "mark"
    \/ \E f \in FlushTasks : pc[f] \in {"save", "snap", "failed", "redirty"}

Without(t) == [mem EXCEPT !.recs = @ \ {t}]

TxnHolds ==
    \A t \in Txns :
        /\ storeLock = t <=> pc[t] \in {"write", "rename", "saved", "failed"}
        /\ pc[t] \in {"write", "rename"} => snap[t] = mem
        /\ pc[t] = "saved" => disk = mem
        /\ pc[t] \in {"write", "rename", "failed"} /\ disk # Without(t) => Pending

LagPending ==
    /\ up \in {"up", "stopping"} /\ storeLock = NoOne /\ disk # mem =>
         Pending \/ \E f \in FlushTasks : pc[f] \in {"write", "rename"}
    /\ \A f \in FlushTasks : pc[f] \in {"write", "rename"} /\ snap[f] # mem => Pending

RequestsShort ==
    up # "opening" /\ \A r \in Requests \ Txns : pc[r] \in {"idle", "mark", "done"}

IntervalInv == RequestsShort /\ TxnHolds /\ LagPending

\* In Interval mode no request is at an await that a dropped future could end.
LEMMA IntervalNoCancel == RequestsShort => NoCancel
  BY KindAssumption DEF RequestsShort, NoCancel, Cancel

\* Every variable but those of the flush is as it was, and nobody stopped caring.
LEMMA StepInterval ==
    ASSUME TypeOK, DurabilityInv, IntervalInv, UNCHANGED <<mem, disk, snap, storeLock>>,
           up' # "opening", up' \in {"up", "stopping"} => up \in {"up", "stopping"},
           Pending => Pending',
           \A r \in Requests \ Txns : pc'[r] \in {"idle", "mark", "done"},
           \A t \in Txns : \/ pc'[t] = pc[t]
                           \/ {pc[t], pc'[t]} \subseteq {"idle", "own", "done"}
                           \/ pc[t] = "write" /\ pc'[t] \in {"rename", "failed"}
                           \/ pc[t] = "rename" /\ pc'[t] = "failed",
           \A f \in FlushTasks :
              /\ pc'[f] \in {"write", "rename"} => pc[f] \in {"write", "rename"}
              /\ pc[f] \in {"write", "rename"} => pc'[f] \in {"write", "rename"} \/ Pending'
    PROVE  IntervalInv'
  <1>1. RequestsShort'
    BY DEF RequestsShort
  <1>2. TxnHolds'
    BY DEF IntervalInv, TxnHolds, Without
  <1>3. LagPending'
    BY DEF IntervalInv, LagPending
  <1> QED BY <1>1, <1>2, <1>3 DEF IntervalInv

\* The steps of a flush in Interval mode.
LEMMA FlushStepInterval ==
    ASSUME Mode = "interval", TypeOK, DurabilityInv, IntervalInv,
           NEW p \in FlushTasks \cup Txns, FlushStep(p)
    PROVE  IntervalInv'
  <1> USE KindAssumption, NoTmpAssumption DEF Procs, Requests, FlushTasks
  <1>0. p \in Procs /\ pc \in [Procs -> Steps] /\ snap \in [Procs -> Store] /\ mem \in Store
    BY DEF TypeOK
  <1>l. \A q \in Procs : pc[q] \in LockSteps => saveLock = q
    BY DEF DurabilityInv, LockDiscipline
  <1>1. CASE AcquireSaveLock(p)
    <2>1. p \in FlushTasks
      BY <1>1 DEF AcquireSaveLock, DurabilityInv, TxnReaches
    <2>2. UNCHANGED <<mem, disk, snap, storeLock, up, dirty>> /\ pc' = [pc EXCEPT ![p] = "snap"]
          /\ pc[p] = "save"
      BY <1>1 DEF AcquireSaveLock
    <2>3. Pending'
      BY <1>0, <2>1, <2>2 DEF Pending
    <2> QED BY <1>0, <2>1, <2>2, <2>3, StepInterval DEF IntervalInv, RequestsShort
  <1>2. CASE Snapshot(p)
    <2>1. p \in FlushTasks /\ pc[p] = "snap"
      BY <1>2 DEF Snapshot, DurabilityInv, TxnReaches
    <2>2. /\ UNCHANGED <<mem, disk, storeLock, up, dirty>> /\ pc' = [pc EXCEPT ![p] = "write"]
          /\ snap'[p] = mem /\ \A q \in Procs : q # p => snap'[q] = snap[q]
      BY <1>0, <1>2 DEF Snapshot
    <2>3. /\ \A t \in Txns : pc[t] \notin {"write", "rename", "saved", "failed"}
          /\ \A f \in FlushTasks : f # p => pc[f] \notin {"write", "rename"}
      BY <1>0, <1>l, <2>1 DEF LockSteps
    <2>4. RequestsShort' /\ TxnHolds'
      BY <1>0, <2>1, <2>2, <2>3 DEF IntervalInv, RequestsShort, TxnHolds
    <2>5. LagPending'
      BY <1>0, <2>1, <2>2, <2>3 DEF LagPending
    <2> QED BY <2>4, <2>5 DEF IntervalInv
  <1>3. CASE WriteTmp(p)
    <2>1. UNCHANGED <<mem, disk, snap, storeLock, up, dirty>> /\ pc[p] = "write"
          /\ \/ pc' = [pc EXCEPT ![p] = "rename"]
             \/ pc' = [pc EXCEPT ![p] = "failed"]
      BY <1>3 DEF WriteTmp
    <2>2. Pending => Pending'
      BY <1>0, <2>1 DEF Pending
    <2>3. p \in FlushTasks /\ pc'[p] = "failed" => Pending'
      BY <2>1 DEF Pending
    <2>4. /\ \A r \in Requests \ Txns : pc'[r] \in {"idle", "mark", "done"}
          /\ \A q \in Procs : q # p => pc'[q] = pc[q]
          /\ pc'[p] \in {"rename", "failed"} /\ up # "opening"
      BY <1>0, <2>1 DEF IntervalInv, RequestsShort
    <2> QED BY <1>0, <2>1, <2>2, <2>3, <2>4, StepInterval
  <1>4. CASE RenameTmp(p)
    <2>0. tmp = snap[p] /\ pc[p] = "rename" /\ UNCHANGED <<mem, snap, storeLock, up, dirty>>
      BY <1>0, <1>4 DEF RenameTmp, DurabilityInv, SnapshotsGrow
    <2>1. CASE pc' = [pc EXCEPT ![p] = "failed"] /\ UNCHANGED disk
      <3>1. Pending => Pending'
        BY <1>0, <2>0, <2>1 DEF Pending
      <3>2. p \in FlushTasks /\ pc'[p] = "failed" => Pending'
        BY <2>1 DEF Pending
      <3>3. /\ \A r \in Requests \ Txns : pc'[r] \in {"idle", "mark", "done"}
            /\ \A q \in Procs : q # p => pc'[q] = pc[q]
            /\ pc'[p] = "failed" /\ up # "opening"
        BY <1>0, <2>1, <2>0 DEF IntervalInv, RequestsShort
      <3> QED BY <1>0, <2>0, <2>1, <3>1, <3>2, <3>3, StepInterval
    <2>2. CASE pc' = [pc EXCEPT ![p] = "saved"] /\ disk' = snap[p]
      <3>1. /\ \A q \in Procs : q # p => pc[q] \notin LockSteps /\ pc'[q] = pc[q]
            /\ pc'[p] = "saved"
        BY <1>0, <1>l, <2>0, <2>2 DEF LockSteps
      <3>2. Pending => Pending'
        BY <1>0, <2>0, <3>1 DEF Pending
      <3>3. RequestsShort'
        BY <1>0, <2>0, <3>1 DEF IntervalInv, RequestsShort
      <3>4. CASE p \in FlushTasks
        <4>1. TxnHolds'
          BY <2>0, <3>1, <3>4 DEF IntervalInv, TxnHolds, LockSteps
        <4>2. snap[p] # mem => Pending'
          BY <2>0, <3>2, <3>4 DEF IntervalInv, LagPending
        <4>3. LagPending'
          BY <2>0, <2>2, <3>1, <3>4, <4>2 DEF LagPending, LockSteps
        <4> QED BY <3>3, <4>1, <4>3 DEF IntervalInv
      <3>5. CASE p \in Txns
        <4>1. snap[p] = mem
          BY <2>0, <3>5 DEF IntervalInv, TxnHolds
        <4>2. TxnHolds'
          BY <2>0, <2>2, <3>1, <3>5, <4>1 DEF IntervalInv, TxnHolds, LockSteps
        <4>3. LagPending'
          BY <2>0, <2>2, <3>1, <3>5, <4>1 DEF LagPending, LockSteps
        <4> QED BY <3>3, <4>2, <4>3 DEF IntervalInv
      <3> QED BY <3>4, <3>5
    <2> QED BY <1>4, <2>0, <2>1, <2>2 DEF RenameTmp
  <1> QED BY <1>1, <1>2, <1>3, <1>4 DEF FlushStep

\* The steps of requests and transactions in Interval mode.
LEMMA RequestStepInterval ==
    ASSUME Mode = "interval", TypeOK, DurabilityInv, IntervalInv, NEW r \in Requests,
           MapWrite(r) \/ OwnSaveLock(r) \/ TxnOwnSaveLock(r) \/ RequestStep(r)
    PROVE  IntervalInv'
  <1> USE KindAssumption DEF Procs, Requests
  <1>0. r \in Procs /\ pc \in [Procs -> Steps] /\ snap \in [Procs -> Store] /\ mem \in Store
        /\ storeLock \in Txns \cup {NoOne}
    BY DEF TypeOK
  <1>l. \A q \in Procs : pc[q] \in LockSteps => saveLock = q
    BY DEF DurabilityInv, LockDiscipline
  \* A request that changed memory is about to mark it dirty.
  <1>1. ASSUME r \notin Txns, pc[r] = "idle", pc' = [pc EXCEPT ![r] = "mark"], storeLock = NoOne,
               UNCHANGED <<disk, snap, storeLock, up, dirty>>
        PROVE  IntervalInv'
    <2>1. Pending'
      BY <1>0, <1>1 DEF Pending
    <2>2. RequestsShort' /\ TxnHolds'
      BY <1>0, <1>1 DEF IntervalInv, RequestsShort, TxnHolds
    <2>3. LagPending'
      BY <2>1 DEF LagPending
    <2> QED BY <2>2, <2>3 DEF IntervalInv
  <1>2. CASE MapWrite(r)
    BY <1>1, <1>2 DEF MapWrite, AfterMutation
  <1>3. CASE CreateFamily(r) \/ Rotate(r)
    <2>1. /\ r \notin Txns /\ pc[r] = "idle" /\ storeLock = NoOne
          /\ UNCHANGED <<disk, snap, storeLock, up, dirty>>
          /\ \/ pc' = [pc EXCEPT ![r] = "mark"]
             \/ pc' = [pc EXCEPT ![r] = "done"] /\ UNCHANGED mem
      BY <1>3 DEF CreateFamily, Rotate, ReadyForStore, Refuse, AfterMutation
    <2>2. CASE pc' = [pc EXCEPT ![r] = "done"] /\ UNCHANGED mem
      <3>1. Pending => Pending'
        BY <1>0, <2>1, <2>2 DEF Pending, FlushTasks
      <3> QED BY <1>0, <2>1, <2>2, <3>1, StepInterval DEF IntervalInv, RequestsShort, FlushTasks
    <2> QED BY <1>1, <2>1, <2>2
  <1>4. CASE MarkDirty(r)
    <2>1. /\ pc[r] = "mark" /\ pc' = [pc EXCEPT ![r] = "done"] /\ dirty'
          /\ UNCHANGED <<mem, disk, snap, storeLock, up>>
      BY <1>4 DEF MarkDirty
    <2>2. r \notin Txns
      BY <2>1 DEF DurabilityInv, TxnReaches
    <2>3. Pending'
      BY <2>1 DEF Pending
    <2> QED BY <1>0, <2>1, <2>2, <2>3, StepInterval DEF IntervalInv, RequestsShort, FlushTasks
  <1>5. CASE FlushStep(r)
    <2>1. r \in Txns
      BY <1>5 DEF FlushStep, AcquireSaveLock, Snapshot, WriteTmp, RenameTmp, IntervalInv, RequestsShort
    <2> QED BY <1>5, <2>1, FlushStepInterval
  <1>6. CASE SaveOk(r) \/ SaveError(r) \/ OwnSaveLock(r)
    BY <1>6 DEF SaveOk, SaveError, OwnSaveLock, IntervalInv, RequestsShort
  <1>7. CASE TxnOwnSaveLock(r) \/ TxnRefused(r)
    <2>1. /\ r \in Txns /\ pc[r] \in {"idle", "own"} /\ UNCHANGED <<mem, disk, snap, storeLock, up, dirty>>
          /\ \/ pc' = [pc EXCEPT ![r] = "own"]
             \/ pc' = [pc EXCEPT ![r] = "done"]
      BY <1>7 DEF TxnOwnSaveLock, TxnRefused, Refuse
    <2>2. Pending => Pending'
      BY <1>0, <2>1 DEF Pending, FlushTasks
    <2> QED BY <1>0, <2>1, <2>2, StepInterval DEF IntervalInv, RequestsShort, FlushTasks
  <1>8. CASE TxnMutate(r)
    <2>1. /\ r \in Txns /\ pc[r] = "own" /\ storeLock = NoOne /\ storeLock' = r
          /\ mem' = [mem EXCEPT !.recs = @ \cup {r}]
          /\ pc' = [pc EXCEPT ![r] = "write"] /\ snap' = [snap EXCEPT ![r] = mem']
          /\ UNCHANGED <<disk, up, dirty>>
      BY <1>8 DEF TxnMutate
    <2>2. Without(r)' = mem
      <3>1. r \notin mem.recs
        BY <2>1 DEF DurabilityInv, TxnReaches
      <3>2. (mem.recs \cup {r}) \ {r} = mem.recs
        BY <3>1
      <3>3. PICK m : m = [mem EXCEPT !.recs = mem.recs \cup {r}]
        OBVIOUS
      <3>4. m.recs = mem.recs \cup {r} /\ [m EXCEPT !.recs = mem.recs] = mem
        BY <1>0, <3>3 DEF Store
      <3>5. mem' = m
        BY <2>1, <3>3
      <3>6. Without(r)' = [m EXCEPT !.recs = m.recs \ {r}]
        BY <3>5 DEF Without
      <3> QED BY <3>2, <3>4, <3>6
    <2>3. \A q \in Procs : q # r => pc[q] \notin LockSteps /\ pc'[q] = pc[q] /\ snap'[q] = snap[q]
      BY <1>0, <1>l, <2>1 DEF LockSteps
    <2>4. Pending => Pending'
      BY <2>1, <2>3 DEF Pending, FlushTasks
    <2>5. up \in {"up", "stopping"}
      BY <1>0, <2>1 DEF TypeOK, DurabilityInv, ProcessDiscipline, Quiet, IntervalInv, RequestsShort
    <2>6. disk # mem => Pending'
      BY <2>1, <2>3, <2>4, <2>5 DEF IntervalInv, LagPending, FlushTasks, LockSteps
    <2>7. RequestsShort'
      BY <1>0, <2>1 DEF IntervalInv, RequestsShort
    <2>8. TxnHolds'
      BY <1>0, <2>1, <2>2, <2>3, <2>6 DEF IntervalInv, TxnHolds, LockSteps
    <2>9. LagPending'
      BY <1>0, <2>1, <2>3 DEF LagPending, FlushTasks, LockSteps
    <2> QED BY <2>7, <2>8, <2>9 DEF IntervalInv
  <1>9. CASE TxnReturns(r)
    <2>1. /\ r \in Txns /\ pc[r] \in {"saved", "failed"} /\ storeLock' = NoOne /\ storeLock = r
          /\ mem' = IF pc[r] = "failed" THEN Without(r) ELSE mem
          /\ pc' = [pc EXCEPT ![r] = "done"] /\ UNCHANGED <<disk, snap, up, dirty>>
      BY <1>9 DEF TxnReturns, Without, IntervalInv, TxnHolds
    <2>2. \A q \in Procs : q # r => pc[q] \notin LockSteps /\ pc'[q] = pc[q]
      BY <1>0, <1>l, <2>1 DEF LockSteps
    <2>3. Pending => Pending'
      BY <2>1, <2>2 DEF Pending, FlushTasks
    <2>4. disk' # mem' => Pending'
      BY <2>1, <2>3 DEF IntervalInv, TxnHolds
    <2>5. RequestsShort' /\ TxnHolds'
      BY <1>0, <2>1, <2>2 DEF IntervalInv, RequestsShort, TxnHolds, LockSteps
    <2>6. LagPending'
      BY <2>2, <2>4 DEF LagPending, FlushTasks, LockSteps
    <2> QED BY <2>5, <2>6 DEF IntervalInv
  <1> QED BY <1>2, <1>3, <1>4, <1>5, <1>6, <1>7, <1>8, <1>9 DEF RequestStep

\* A process that stops has no call left to answer for the lag.
LEMMA StopInterval ==
    ASSUME TypeOK, DurabilityInv, IntervalInv, NEW s \in Stoppers, NEW a \in Replies,
           up = "stopping", StopProcess(s, a), UNCHANGED <<mem, disk, tmp, snap, storeLock>>
    PROVE  IntervalInv'
  <1> USE KindAssumption DEF Procs, Requests
  <1>1. \A p \in Procs : pc'[p] \in {"idle", "done"}
    BY DEF TypeOK, StopProcess, DurabilityInv, ProcessDiscipline, Quiet
  <1>2. \A t \in Txns : pc[t] \in {"idle", "done"}
    BY DEF DurabilityInv, ProcessDiscipline, Quiet
  <1>3. RequestsShort' /\ TxnHolds'
    BY <1>1, <1>2 DEF StopProcess, IntervalInv, RequestsShort, TxnHolds
  <1>4. LagPending'
    BY <1>1 DEF StopProcess, LagPending, FlushTasks
  <1> QED BY <1>3, <1>4 DEF IntervalInv

\* flush() takes the flag before its snapshot and gives it back on an error.
LEMMA FlushTaskStepInterval ==
    ASSUME Mode = "interval", TypeOK, DurabilityInv, IntervalInv,
           NEW f \in FlushTasks, FlushTaskStep(f)
    PROVE  IntervalInv'
  <1> USE KindAssumption DEF Procs, Requests, FlushTasks
  <1>0. f \in Procs /\ f \notin Requests /\ pc \in [Procs -> Steps]
        /\ (f # Flusher /\ pc[f] \notin {"idle", "done"} => up = "stopping")
    BY DEF TypeOK, DurabilityInv, ProcessDiscipline, Quiet
  <1>1. CASE SwapDirty(f)
    <2>1. /\ pc[f] = "idle" /\ pc' = [pc EXCEPT ![f] = "save"]
          /\ UNCHANGED <<mem, disk, snap, storeLock, up>>
      BY <1>1 DEF SwapDirty
    <2>2. Pending'
      BY <1>0, <2>1 DEF Pending
    <2> QED BY <1>0, <2>1, <2>2, StepInterval DEF IntervalInv, RequestsShort
  <1>2. CASE ShutdownClean(f)
    BY <1>2, StopInterval DEF ShutdownClean, Replies
  <1>3. CASE FlushStep(f)
    BY <1>3, FlushStepInterval
  <1>4. CASE FlushOk(f)
    <2>1. CASE f = Flusher
      <3>1. /\ pc[f] = "saved" /\ pc' = [pc EXCEPT ![f] = "idle"]
            /\ UNCHANGED <<mem, disk, snap, storeLock, up, dirty>>
        BY <1>4, <2>1 DEF FlushOk
      <3>2. Pending => Pending'
        BY <1>0, <3>1 DEF Pending
      <3> QED BY <1>0, <3>1, <3>2, StepInterval DEF IntervalInv, RequestsShort
    <2>2. CASE f # Flusher
      BY <1>0, <1>4, <2>2, StopInterval DEF FlushOk, Replies
    <2> QED BY <2>1, <2>2
  <1>5. CASE FlushError(f)
    <2>1. /\ pc[f] = "failed" /\ pc' = [pc EXCEPT ![f] = "redirty"]
          /\ UNCHANGED <<mem, disk, snap, storeLock, up, dirty>>
      BY <1>5 DEF FlushError
    <2>2. Pending'
      BY <1>0, <2>1 DEF Pending
    <2> QED BY <1>0, <2>1, <2>2, StepInterval DEF IntervalInv, RequestsShort
  <1>6. CASE Redirty(f)
    <2>1. CASE f = Flusher
      <3>1. /\ pc[f] = "redirty" /\ pc' = [pc EXCEPT ![f] = "idle"] /\ dirty'
            /\ UNCHANGED <<mem, disk, snap, storeLock, up>>
        BY <1>6, <2>1 DEF Redirty
      <3>2. Pending'
        BY <3>1 DEF Pending
      <3> QED BY <1>0, <3>1, <3>2, StepInterval DEF IntervalInv, RequestsShort
    <2>2. CASE f # Flusher
      BY <1>0, <1>6, <2>2, StopInterval DEF Redirty, Replies
    <2> QED BY <2>1, <2>2
  <1> QED BY <1>1, <1>2, <1>3, <1>4, <1>5, <1>6 DEF FlushTaskStep

\* Every step in Interval mode leaves a lag to somebody.
LEMMA NextInterval ==
    ASSUME Mode = "interval", TypeOK, DurabilityInv, IntervalInv, [Next]_vars
    PROVE  IntervalInv'
  <1> USE KindAssumption DEF Procs, Requests
  <1>0. pc \in [Procs -> Steps] /\ disk \in Store /\ storeLock \in Txns \cup {NoOne}
    BY DEF TypeOK
  <1>1. CASE Open
    <2>1. /\ \A p \in Procs : pc[p] \in {"idle", "done"}
          /\ up' = "up" /\ mem' = [disk EXCEPT !.legacy = FALSE] /\ (disk.legacy => dirty')
          /\ UNCHANGED <<pc, disk, storeLock>>
      BY <1>1 DEF Open, DurabilityInv, ProcessDiscipline, Quiet
    <2>2. ~disk.legacy => mem' = disk
      BY <1>0, <2>1 DEF Store
    <2>3. disk.legacy => Pending'
      BY <2>1 DEF Pending
    <2>4. RequestsShort' /\ TxnHolds'
      BY <2>1 DEF IntervalInv, RequestsShort, TxnHolds
    <2>5. LagPending'
      BY <2>1, <2>2, <2>3 DEF LagPending, FlushTasks
    <2> QED BY <2>4, <2>5 DEF IntervalInv
  <1>2. CASE FlushStep(Opener) \/ OpenerReturns
    <2>1. pc[Opener] = "idle"
      BY DEF IntervalInv, RequestsShort, DurabilityInv, ProcessDiscipline
    <2> QED BY <1>2, <2>1 DEF FlushStep, AcquireSaveLock, Snapshot, WriteTmp, RenameTmp, OpenerReturns
  <1>3. ASSUME NEW r \in Requests, Cancel(r) PROVE FALSE
    BY <1>3, IntervalNoCancel DEF IntervalInv, NoCancel
  <1>4. ASSUME NEW s \in Stoppers, BeginShutdown(s) PROVE IntervalInv'
    <2>1. UNCHANGED <<mem, disk, snap, storeLock, pc, dirty>> /\ up = "up" /\ up' = "stopping"
      BY <1>4 DEF BeginShutdown
    <2>2. Pending => Pending'
      BY <2>1 DEF Pending
    <2> QED BY <2>1, <2>2, StepInterval DEF IntervalInv, RequestsShort
  <1>5. CASE OrphanCompletes
    <2>1. up = "stopped" /\ UNCHANGED <<mem, snap, storeLock, pc, dirty, up>>
      BY <1>5 DEF OrphanCompletes, DurabilityInv, LockDiscipline
    <2>2. \A p \in Procs : pc[p] \in {"idle", "done"}
      BY <2>1 DEF DurabilityInv, ProcessDiscipline, Quiet
    <2> QED BY <2>1, <2>2 DEF IntervalInv, RequestsShort, TxnHolds, LagPending, FlushTasks
  <1>6. CASE Crash
    <2>1. \A p \in Procs : pc'[p] \in {"idle", "done"}
      BY <1>6 DEF Crash
    <2>2. up' = "down" /\ storeLock' = NoOne
      BY <1>6 DEF Crash
    <2> QED BY <2>1, <2>2 DEF IntervalInv, RequestsShort, TxnHolds, LagPending, FlushTasks
  <1>7. CASE UNCHANGED vars
    BY <1>7 DEF vars, IntervalInv, RequestsShort, TxnHolds, LagPending, Pending, Without
  <1> QED
    BY <1>1, <1>2, <1>3, <1>4, <1>5, <1>6, <1>7, RequestStepInterval, FlushTaskStepInterval
    DEF Next, FlushTasks

\* Interval mode, whatever futures are dropped: both invariants hold.
LEMMA IntervalInvariant ==
    ASSUME Mode = "interval"
    PROVE  Spec => [](TypeOK /\ DurabilityInv /\ IntervalInv)
  <1>1. Init => IntervalInv
    BY KindAssumption
    DEF Init, IntervalInv, RequestsShort, TxnHolds, LagPending, FlushTasks, Procs, Requests
  <1>2. TypeOK /\ DurabilityInv /\ IntervalInv /\ [Next]_vars => DurabilityInv' /\ IntervalInv'
    BY NextDurability, IntervalNoCancel, NextInterval DEF IntervalInv
  <1> QED BY <1>1, <1>2, InitDurability, TypeCorrect, PTL DEF Spec

\* Interval mode, flush() and save(), whatever fails, crashes or is dropped: a
\* file that lags behind the memory of a running process is covered by the dirty
\* flag, by a call about to set it, or by a flush that will write the current
\* memory or set the flag again.
THEOREM LagCovered == Spec => []LagIsCovered
  <1>1. CASE Mode = "interval"
    <2>1. TypeOK /\ DurabilityInv /\ IntervalInv => LagIsCovered
      BY DEF TypeOK, IntervalInv, LagPending, TxnHolds, Pending, FlushTasks, LagIsCovered
    <2> QED BY <1>1, <2>1, IntervalInvariant, PTL
  <1>2. CASE Mode # "interval"
    <2>1. LagIsCovered
      BY <1>2 DEF LagIsCovered
    <2> QED BY <2>1, PTL
  <1> QED BY <1>1, <1>2

\* Interval mode, dropped futures included: what a transaction was told Ok
\* about is in the file from then on.
THEOREM IntervalDurability ==
    ASSUME Mode = "interval"
    PROVE  Spec => []AckedWritesDurable
  <1>1. DurabilityInv => AckedWritesDurable
    BY DEF DurabilityInv, WriteReaches, TxnReaches, AckedWritesDurable
  <1> QED BY <1>1, IntervalInvariant, PTL
=============================================================================
