---------------------------- MODULE SiemDelivery -----------------------------
(***************************************************************************)
(* Delivery of audit events to a SIEM webhook (qid-worker audit.rs, the    *)
(* queue of qid-storage sql/siem.rs and file/siem.rs, and the operator's   *)
(* reset in qidc), for one realm and one endpoint.                         *)
(*                                                                         *)
(* Jobs are worker processes that an operator or a timer starts: they      *)
(* overlap, and each may die between any two of its steps.  Every queue    *)
(* operation and every request to the endpoint is one step; the status a   *)
(* job writes is worked out from what it read before the request.          *)
(***************************************************************************)
EXTENDS Clock, FiniteSets, FiniteSetsExt

CONSTANTS
    Jobs,           \* deliver and redrive runs
    NoDelivery,
    EventLimit,     \* --limit
    MaxDeliveries,  \* retry_policy.max_attempts
    MaxEvents       \* bound: audit events explored

ASSUME SiemAssumption ==
    /\ IsFiniteSet(Jobs) /\ EventLimit \in Nat \ {0}
    /\ MaxDeliveries \in Nat \ {0} /\ MaxEvents \in Nat

VARIABLES
    events,     \* the realm's audit events so far, numbered
    queue,      \* siem_delivery_queue
    siemJob,    \* each job
    accepted,   \* payloads the endpoint answered 2xx
    collided    \* history: jobs whose id another job's upsert took over

siemVars == <<now, events, queue, siemJob, accepted, collided>>

Payload == SUBSET (1..MaxEvents)
\* The hash of realm, endpoint, time and event count.
DeliveryId == (0..MaxTime) \X (0..EventLimit)
Delivery == [payload: Payload, attempts: Nat, status: {"pending", "delivered", "dead"}]
ASSUME NoDeliveryAssumption == NoDelivery \notin Delivery

SiemJob == [pc: {"idle", "upsert", "send", "mark", "reset", "record", "done", "died"},
            id: DeliveryId, payload: Payload, attempts: Nat, dryRun: BOOLEAN,
            redrive: BOOLEAN, status: {"pending", "delivered", "dead"}]

SiemTypeOK ==
    /\ now \in 0..MaxTime
    /\ events \in 0..MaxEvents
    /\ queue \in [DeliveryId -> Delivery \cup {NoDelivery}]
    /\ siemJob \in [Jobs -> SiemJob]
    /\ accepted \subseteq Payload
    /\ collided \subseteq Jobs

SiemInit ==
    /\ now = 0
    /\ events = 0
    /\ queue = [d \in DeliveryId |-> NoDelivery]
    /\ siemJob = [j \in Jobs |->
           [pc |-> "idle", id |-> <<0, 0>>, payload |-> {}, attempts |-> 0,
            dryRun |-> FALSE, redrive |-> FALSE, status |-> "pending"]]
    /\ accepted = {} /\ collided = {}

SiemStep(j, state) == siemJob' = [siemJob EXCEPT ![j] = state]

\* Another part of the system appends an audit event.
AuditEvent ==
    /\ events < MaxEvents /\ events' = events + 1
    /\ UNCHANGED <<now, queue, siemJob, accepted, collided>>

-----------------------------------------------------------------------------
(* run_audit_siem_delivery_job *)

\* list_audit_events: the newest EventLimit.
Newest == {n \in 1..events : n + EventLimit > events}

ListEvents(j) ==
    /\ siemJob[j].pc = "idle"
    /\ \/ Newest = {} /\ SiemStep(j, [siemJob[j] EXCEPT !.pc = "done"])
       \/ /\ Newest # {}
          /\ \E dry \in BOOLEAN :
                SiemStep(j, [siemJob[j] EXCEPT !.pc = "upsert", !.payload = Newest,
                                 !.id = <<now, Cardinality(Newest)>>, !.dryRun = dry])
    /\ UNCHANGED <<now, events, queue, accepted, collided>>

\* Jobs that already queued another payload under this id.
SameId(j) == {k \in Jobs \ {j} : /\ siemJob[k].id = siemJob[j].id
                                 /\ ~siemJob[k].redrive
                                 /\ siemJob[k].pc \notin {"idle", "upsert"}
                                 /\ siemJob[k].payload # {}}

\* upsert_siem_delivery, before anything is sent, with the attempts that the
\* caller says are behind it (completed_attempts).
Enqueue(j) ==
    LET d == siemJob[j] IN
    /\ d.pc = "upsert"
    /\ \E completed \in 0..MaxDeliveries :
          /\ queue' = [queue EXCEPT ![d.id] =
                 [payload |-> d.payload, attempts |-> completed, status |-> "pending"]]
          /\ SiemStep(j, [d EXCEPT !.pc = "send", !.attempts = completed])
    /\ collided' = IF SameId(j) = {} THEN collided ELSE collided \cup SameId(j) \cup {j}
    /\ UNCHANGED <<now, events, accepted>>

\* plan_siem_retry
Retries(attempts) == attempts + 1 < MaxDeliveries

\* Mutant: every answer of the endpoint counts as a delivery.
QueueStatusOfAnyAnswer(answer, attempts) ==
    IF answer \in {"accepted", "refused"} THEN "delivered"
    ELSE IF Retries(attempts) THEN "pending" ELSE "dead"
\* The queue's status after the endpoint's answer: 2xx, another permanent
\* answer, or one to retry (429, 5xx, or none at all).
QueueStatus(answer, attempts) ==
    CASE answer = "accepted" -> "delivered"
      [] answer = "refused" -> "dead"
      [] answer = "retry" -> IF Retries(attempts) THEN "pending" ELSE "dead"

\* The request.  When the connection fails the endpoint may have accepted it.
SendWebhook(j) ==
    LET d == siemJob[j] IN
    /\ d.pc = "send"
    /\ \/ /\ d.dryRun
          /\ SiemStep(j, [d EXCEPT !.pc = IF d.redrive THEN "mark" ELSE "record",
                                   !.status = "pending"])
          /\ UNCHANGED accepted
       \/ /\ ~d.dryRun
          /\ \E answer \in {"accepted", "refused", "retry"} :
                /\ SiemStep(j, [d EXCEPT !.pc = "mark", !.attempts = @ + 1,
                                         !.status = QueueStatus(answer, d.attempts)])
                /\ \/ answer # "refused" /\ accepted' = accepted \cup {d.payload}
                   \/ answer # "accepted" /\ UNCHANGED accepted
    /\ UNCHANGED <<now, events, queue, collided>>

\* mark_siem_delivery_status, whatever became of the row meanwhile.
MarkStatus(j) ==
    LET d == siemJob[j] IN
    /\ d.pc = "mark"
    /\ queue' = [queue EXCEPT ![d.id].status = d.status, ![d.id].attempts = d.attempts]
    /\ SiemStep(j, [d EXCEPT !.pc = "record"])
    /\ UNCHANGED <<now, events, accepted, collided>>

\* The job's own audit event, where it is configured.
RecordDelivery(j) ==
    /\ siemJob[j].pc = "record"
    /\ SiemStep(j, [siemJob[j] EXCEPT !.pc = "done"])
    /\ events' \in {events} \cup IF events < MaxEvents THEN {events + 1} ELSE {}
    /\ UNCHANGED <<now, queue, accepted, collided>>

-----------------------------------------------------------------------------
(* run_audit_siem_redrive_job, and the reset of qidc *)

\* get_siem_delivery, for a delivery in any status; the reset reads it first too.
ReadDelivery(j) ==
    /\ siemJob[j].pc = "idle"
    /\ \E d \in DeliveryId, next \in {"send", "reset"}, dry \in BOOLEAN :
          /\ queue[d] # NoDelivery
          /\ SiemStep(j, [siemJob[j] EXCEPT !.pc = next, !.id = d, !.redrive = TRUE,
                 !.dryRun = dry,
                 !.payload = queue[d].payload, !.attempts = queue[d].attempts])
    /\ UNCHANGED <<now, events, queue, accepted, collided>>

ResetDelivery(j) ==
    LET d == siemJob[j] IN
    /\ d.pc = "reset"
    /\ queue' = [queue EXCEPT ![d.id].status = "pending", ![d.id].attempts = 0]
    /\ SiemStep(j, [d EXCEPT !.pc = "done"])
    /\ UNCHANGED <<now, events, accepted, collided>>

\* The worker dies or a queue operation fails: the job goes no further.
JobDies(j) ==
    /\ siemJob[j].pc \in {"upsert", "send", "mark", "reset", "record"}
    /\ SiemStep(j, [siemJob[j] EXCEPT !.pc = "died",
           !.payload = IF siemJob[j].pc = "upsert" THEN {} ELSE @])
    /\ UNCHANGED <<now, events, queue, accepted, collided>>

SiemTick == Tick /\ UNCHANGED <<events, queue, siemJob, accepted, collided>>

SiemNext ==
    \/ AuditEvent
    \/ \E j \in Jobs :
          \/ ListEvents(j) \/ Enqueue(j) \/ SendWebhook(j) \/ MarkStatus(j)
          \/ RecordDelivery(j) \/ ReadDelivery(j) \/ ResetDelivery(j) \/ JobDies(j)
    \/ SiemTick

SiemSpec == SiemInit /\ [][SiemNext]_siemVars

-----------------------------------------------------------------------------
(* What the queue promises *)

\* Jobs whose upsert took effect.
Queued(j) == /\ ~siemJob[j].redrive /\ siemJob[j].payload # {}
             /\ siemJob[j].pc \notin {"idle", "upsert"}

\* Whatever deaths, retries and overlapping redrives do, a queued payload was
\* accepted by the endpoint or is still in its row, not marked delivered, for
\* the next redrive ("SIEM delivery failures are persisted", operations.md:251);
\* except when another job of the same second and the same number of events
\* took the row over.
NothingUndeliveredIsDropped ==
    \A j \in Jobs \ collided :
        Queued(j) => \/ siemJob[j].payload \in accepted
                     \/ /\ queue[siemJob[j].id].payload = siemJob[j].payload
                        /\ queue[siemJob[j].id].status # "delivered"
=============================================================================
