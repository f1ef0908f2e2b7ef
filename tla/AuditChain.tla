----------------------------- MODULE AuditChain ------------------------------
(***************************************************************************)
(* The audit log: one hash chain per stream (qid-storage sql/audit.rs and  *)
(* file/audit.rs, qid-core models/audit.rs) and the worker's retention job *)
(* (qid-worker audit.rs), which plans what has expired, archives it and    *)
(* reports it ready to purge.                                              *)
(*                                                                         *)
(* An append is a transaction of three statements: it locks the stream's   *)
(* row, reads the hash to chain to and inserts.  The file repository takes *)
(* the same steps in one, under its write lock.  The event's created_at is *)
(* read before the transaction, so the order of the chain is not the order *)
(* of the times.  A hash is named by its event.                            *)
(***************************************************************************)
EXTENDS Clock, FiniteSets, FiniteSetsExt

CONSTANTS
    Streams,
    Appends,        \* append_audit_event calls, also the ids of their events
    JobStream,      \* the realm of the retention job
    ArchiveNote,    \* the ids of the two events the job appends
    ReadyNote,
    NoHash,
    NoStream,
    Retention,      \* retention_days
    ListCap         \* the most list_audit_events returns

ASSUME AuditAssumption ==
    /\ IsFiniteSet(Appends) /\ IsFiniteSet(Streams) /\ JobStream \in Streams
    /\ NoStream \notin Streams
    /\ ArchiveNote # ReadyNote /\ {ArchiveNote, ReadyNote, NoHash} \cap Appends = {}
    /\ NoHash \notin {ArchiveNote, ReadyNote}
    /\ Retention \in Nat /\ ListCap \in Nat \ {0}

VARIABLES
    log,        \* the events of each stream
    chainLock,  \* streams whose audit_chain_locks row a transaction holds
    append,     \* each append
    policy,     \* the job's audit_retention_config
    job,        \* the retention job
    archived,   \* ids in the archive
    overrun     \* history: the archive was asked for fewer events than there are

auditVars == <<now, log, chainLock, append, policy, job, archived, overrun>>

Ids == Appends \cup {ArchiveNote, ReadyNote}
Event == [id: Ids, created: Nat, previous: Ids \cup {NoHash}]
Appending == [pc: {"idle", "begun", "locked", "linked", "done", "failed"},
              stream: Streams \cup {NoStream}, created: Nat, previous: Ids \cup {NoHash}]
JobSteps == {"idle", "config", "events", "list", "put", "note", "ready", "done", "skipped"}
Job == [pc: JobSteps, at: Nat, archive: BOOLEAN, hold: BOOLEAN, expired: SUBSET Ids,
        checked: Nat, body: SUBSET Ids]

AuditTypeOK ==
    /\ now \in 0..MaxTime
    /\ log \in [Streams -> SUBSET Event]
    /\ chainLock \subseteq Streams
    /\ append \in [Appends -> Appending]
    /\ policy \in {"none", "days", "hold"}
    /\ job \in Job
    /\ archived \subseteq Ids
    /\ overrun \in BOOLEAN

AuditInit ==
    /\ now = 0
    /\ log = [s \in Streams |-> {}] /\ chainLock = {}
    /\ append = [a \in Appends |-> [pc |-> "idle", stream |-> NoStream, created |-> 0,
                                    previous |-> NoHash]]
    /\ policy = "none"
    /\ job \in [pc: {"idle"}, at: {0}, archive: BOOLEAN, hold: {FALSE}, expired: {{}},
                checked: {0}, body: {{}}]
    /\ archived = {} /\ overrun = FALSE

-----------------------------------------------------------------------------
(* append_audit_event *)

AppendStep(a, state) == append' = [append EXCEPT ![a] = state]

\* The caller builds the event.
BuildEvent(a) ==
    /\ append[a].pc = "idle"
    /\ \E s \in Streams :
          AppendStep(a, [pc |-> "begun", stream |-> s, created |-> now, previous |-> NoHash])
    /\ UNCHANGED <<now, log, chainLock, policy, job, archived, overrun>>

\* Mutant: the stream's row is touched but not locked.
LockableAlways(s) == TRUE
Lockable(s) == s \notin chainLock

\* INSERT ... ON CONFLICT DO UPDATE on the stream's row, held until the commit.
LockStream(a) ==
    LET s == append[a].stream IN
    /\ append[a].pc = "begun" /\ Lockable(s)
    /\ chainLock' = chainLock \cup {s}
    /\ AppendStep(a, [append[a] EXCEPT !.pc = "locked"])
    /\ UNCHANGED <<now, log, policy, job, archived, overrun>>

Latest(es) == {e \in es : \A f \in es : f.created <= e.created}

\* The latest of the events nothing is chained to; equal times are ordered by
\* id, which is random.
Tails(es) == Latest({e \in es : \A f \in es : f.previous # e.id})

PreviousHashes(s) ==
    IF Tails(log[s]) = {} THEN {NoHash} ELSE {e.id : e \in Tails(log[s])}

ReadTail(a) ==
    /\ append[a].pc = "locked"
    /\ \E h \in PreviousHashes(append[a].stream) :
          AppendStep(a, [append[a] EXCEPT !.pc = "linked", !.previous = h])
    /\ UNCHANGED <<now, log, chainLock, policy, job, archived, overrun>>

Inserted(s, id, created, previous) ==
    [log EXCEPT ![s] = @ \cup {[id |-> id, created |-> created, previous |-> previous]}]

\* An append after the plan makes the archive's limit too small.
Overruns(s) == overrun \/ (s = JobStream /\ job.pc = "list")

\* The insert and the commit, which frees the row.
CommitEvent(a) ==
    LET e == append[a] IN
    /\ e.pc = "linked"
    /\ log' = Inserted(e.stream, a, e.created, e.previous)
    /\ chainLock' = chainLock \ {e.stream}
    /\ AppendStep(a, [e EXCEPT !.pc = "done"])
    /\ overrun' = Overruns(e.stream)
    /\ UNCHANGED <<now, policy, job, archived>>

\* A statement or the commit fails, or the process dies: the transaction is undone.
AppendFails(a) ==
    /\ append[a].pc \in {"begun", "locked", "linked"}
    /\ chainLock' = IF append[a].pc = "begun" THEN chainLock ELSE chainLock \ {append[a].stream}
    /\ AppendStep(a, [append[a] EXCEPT !.pc = "failed"])
    /\ UNCHANGED <<now, log, policy, job, archived, overrun>>

-----------------------------------------------------------------------------
(* verify_audit_chain *)

\* verify_audit_chain_linked: no two events have the same predecessor, and the
\* walk from the event without one meets all of them.
ChainValid(es) ==
    LET met[n \in 0..Cardinality(es)] ==
            IF n = 0 THEN {e \in es : e.previous = NoHash}
            ELSE met[n-1] \cup {e \in es : \E f \in met[n-1] : e.previous = f.id}
    IN /\ \A e, f \in es : e.previous = f.previous => e = f
       /\ met[Cardinality(es)] = es

-----------------------------------------------------------------------------
(* run_audit_retention_execution_job *)

JobStep(state) == job' = state /\ UNCHANGED <<now, chainLock, append, policy>>
JobSkips == JobStep([job EXCEPT !.pc = "skipped"]) /\ UNCHANGED <<log, archived, overrun>>

VerifyChain ==
    /\ job.pc = "idle"
    /\ IF ChainValid(log[JobStream])
       THEN JobStep([job EXCEPT !.pc = "config", !.at = now]) /\ UNCHANGED <<log, archived, overrun>>
       ELSE JobSkips

\* plan_audit_retention: the policy, then the events (one read under the file
\* repository's lock).
ReadPolicy ==
    /\ job.pc = "config"
    /\ IF policy = "none" THEN JobSkips
       ELSE /\ JobStep([job EXCEPT !.pc = "events", !.hold = policy = "hold"])
            /\ UNCHANGED <<log, archived, overrun>>

\* plan_audit_retention_enforcement
Expired == {e.id : e \in {e \in log[JobStream] : e.created + Retention < job.at}}

PlanRetention ==
    /\ job.pc = "events"
    /\ IF job.hold \/ Expired = {} THEN JobSkips
       ELSE /\ JobStep([job EXCEPT !.pc = IF job.archive THEN "list" ELSE "ready",
                   !.expired = Expired, !.checked = Cardinality(log[JobStream])])
            /\ overrun' = (Cardinality(log[JobStream]) > ListCap)
            /\ UNCHANGED <<log, archived>>

\* Mutant: the archive is asked for as many events as have expired.
ArchiveLimitOfExpired == Cardinality(job.expired)
ArchiveLimit == job.checked

\* list_audit_events of the archive job: the newest first, up to the limit.
ListNewest ==
    LET es == log[JobStream]
        n == Min({ArchiveLimit, ListCap, Cardinality(es)})
    IN
    /\ job.pc = "list"
    /\ IF es = {} THEN JobSkips
       ELSE \E body \in kSubset(n, es) :
            /\ \A e \in body, f \in es \ body : f.created <= e.created
            /\ JobStep([job EXCEPT !.pc = "put", !.body = {e.id : e \in body}])
            /\ UNCHANGED <<log, archived, overrun>>

\* The body, its timestamp and its manifest, each written once.  A failure
\* ends the job with an error, with the body written or not.
PutArchive ==
    /\ job.pc = "put"
    /\ \/ JobStep([job EXCEPT !.pc = "note"]) /\ archived' = archived \cup job.body
       \/ JobStep([job EXCEPT !.pc = "skipped"])
          /\ archived' \in {archived, archived \cup job.body}
    /\ UNCHANGED <<log, overrun>>

\* The job's own appends, created_at the job's time.
JobAppends(id, pc) ==
    /\ JobStream \notin chainLock
    /\ \E h \in PreviousHashes(JobStream) : log' = Inserted(JobStream, id, job.at, h)
    /\ JobStep([job EXCEPT !.pc = pc])
    /\ UNCHANGED <<archived, overrun>>

NoteArchive == job.pc = "note" /\ JobAppends(ArchiveNote, "ready")

\* The report and, where it is configured, its event.
ReportReady ==
    /\ job.pc = "ready"
    /\ \/ JobAppends(ReadyNote, "done")
       \/ JobStep([job EXCEPT !.pc = "done"]) /\ UNCHANGED <<log, archived, overrun>>

\* set_audit_retention_config
SetPolicy ==
    /\ \E p \in {"days", "hold"} \ {policy} : policy' = p
    /\ UNCHANGED <<now, log, chainLock, append, job, archived, overrun>>

AuditTick ==
    Tick /\ UNCHANGED <<log, chainLock, append, policy, job, archived, overrun>>

AuditNext ==
    \/ \E a \in Appends :
          BuildEvent(a) \/ LockStream(a) \/ ReadTail(a) \/ CommitEvent(a) \/ AppendFails(a)
    \/ VerifyChain \/ ReadPolicy \/ PlanRetention \/ ListNewest \/ PutArchive
    \/ NoteArchive \/ ReportReady
    \/ SetPolicy
    \/ AuditTick

AuditSpec == AuditInit /\ [][AuditNext]_auditVars

-----------------------------------------------------------------------------
(* What the audit log promises *)

\* Appends that overlap, in whatever order of their times, leave every stream
\* one unbroken chain.
EveryChainVerifies == \A s \in Streams : ChainValid(log[s])

\* Events reported ready to purge are in the archive, where one is required
\* (docs/cli.md: "Archive when required and report purge-ready IDs"), when no
\* event was appended between the plan and the archive's list and the stream
\* was no longer than one list.
PurgeReadyIsArchivedUndisturbed ==
    job.pc \in {"ready", "done"} /\ job.archive /\ ~overrun => job.expired \subseteq archived
=============================================================================
