---------------------------- MODULE Audit_proofs -----------------------------
(***************************************************************************)
(* Proofs about the audit log: the delivery of its events to a SIEM, the   *)
(* chain of every stream and the retention job, each for any number of     *)
(* jobs, appends and events.                                               *)
(***************************************************************************)
EXTENDS SiemDelivery, AuditChain, FiniteSetTheorems, WellFoundedInduction, TLAPS

-----------------------------------------------------------------------------
(* SiemDelivery.  A row has an owner: the job that queued it.  While the    *)
(* owner has not collided it is the only one, the row holds its payload,    *)
(* and so does every job that will write the row's status.                  *)

QueuedIn(r) == ~r.redrive /\ r.payload # {} /\ r.pc \notin {"idle", "upsert"}
Writes(r) == r.pc \in {"send", "mark", "reset"}

\* What a job has done so far, when the receiver holds `received`.
JobInStep(r, received) ==
    /\ r.pc = "idle" => r.payload = {} /\ ~r.redrive
    /\ r.pc = "upsert" => r.payload # {} /\ ~r.redrive
    /\ r.pc = "mark" /\ r.status = "delivered" => r.payload \in received

RowsHaveOwners ==
    /\ \A d \in DeliveryId : queue[d] # NoDelivery =>
          \E j \in Jobs : QueuedIn(siemJob[j]) /\ siemJob[j].id = d
    /\ \A j \in Jobs : QueuedIn(siemJob[j]) \/ Writes(siemJob[j]) =>
          queue[siemJob[j].id] # NoDelivery

OneOwnerPerRow ==
    \A j, k \in Jobs :
        QueuedIn(siemJob[j]) /\ QueuedIn(siemJob[k]) /\ siemJob[j].id = siemJob[k].id =>
            j = k \/ j \in collided

RowHoldsPayload ==
    \A j \in Jobs \ collided : QueuedIn(siemJob[j]) =>
        /\ queue[siemJob[j].id].payload = siemJob[j].payload
        /\ \/ siemJob[j].payload \in accepted
           \/ queue[siemJob[j].id].status # "delivered"

WritersHoldPayload ==
    \A j \in Jobs \ collided, k \in Jobs :
        QueuedIn(siemJob[j]) /\ Writes(siemJob[k]) /\ siemJob[j].id = siemJob[k].id =>
            siemJob[k].payload = siemJob[j].payload

SiemInv ==
    /\ SiemTypeOK /\ \A j \in Jobs : JobInStep(siemJob[j], accepted)
    /\ RowsHaveOwners /\ OneOwnerPerRow /\ RowHoldsPayload /\ WritersHoldPayload

\* At most EventLimit events are listed, which the delivery id relies on.
LEMMA NewestBounded ==
    ASSUME SiemTypeOK
    PROVE  Newest \in Payload /\ Cardinality(Newest) \in 0..EventLimit
  <1>1. events \in Nat /\ EventLimit \in Nat /\ EventLimit >= 1 /\ MaxEvents \in Nat
        /\ events <= MaxEvents
    BY SiemAssumption DEF SiemTypeOK
  <1>2. Newest \in Payload
    BY <1>1 DEF Newest, Payload
  <1>3. CASE events >= EventLimit
    <2>1. Newest = (events - EventLimit + 1)..events
      BY <1>1, <1>3 DEF Newest
    <2>2. Cardinality((events - EventLimit + 1)..events) = EventLimit
      BY <1>1, <1>3, FS_Interval
    <2> QED BY <1>1, <1>2, <2>1, <2>2
  <1>4. CASE events < EventLimit
    <2>1. Newest = 1..events
      BY <1>1, <1>4 DEF Newest
    <2>2. Cardinality(1..events) = events
      BY <1>1, FS_Interval
    <2> QED BY <1>1, <1>2, <1>4, <2>1, <2>2
  <1> QED BY <1>1, <1>3, <1>4

\* A step of j that leaves the queue alone: it starts or stops owning no row,
\* and writes to the row it read or wrote to before.
LEMMA JobMoves ==
    ASSUME SiemInv, NEW j \in Jobs, NEW r \in SiemJob, SiemStep(j, r),
           UNCHANGED <<now, queue, collided>>, events' \in 0..MaxEvents,
           accepted \subseteq accepted', accepted' \subseteq Payload,
           JobInStep(r, accepted'),
           QueuedIn(r) => QueuedIn(siemJob[j]),
           QueuedIn(siemJob[j]) =>
               QueuedIn(r) /\ r.id = siemJob[j].id /\ r.payload = siemJob[j].payload,
           Writes(r) =>
               \/ Writes(siemJob[j]) /\ r.id = siemJob[j].id /\ r.payload = siemJob[j].payload
               \/ queue[r.id] # NoDelivery /\ r.payload = queue[r.id].payload
    PROVE  SiemInv'
  <1> USE DEF SiemInv
  <1>1. /\ siemJob' \in [Jobs -> SiemJob] /\ siemJob'[j] = r
        /\ \A k \in Jobs : k # j => siemJob'[k] = siemJob[k]
    BY DEF SiemStep, SiemTypeOK
  <1>2. SiemTypeOK'
    BY <1>1 DEF SiemTypeOK
  <1>3. (\A k \in Jobs : JobInStep(siemJob[k], accepted))'
    BY <1>1 DEF JobInStep
  <1>4. \A k \in Jobs :
           /\ QueuedIn(siemJob'[k]) <=> QueuedIn(siemJob[k])
           /\ QueuedIn(siemJob[k]) => /\ siemJob'[k].id = siemJob[k].id
                                      /\ siemJob'[k].payload = siemJob[k].payload
    BY <1>1
  <1>5. \A k \in Jobs : Writes(siemJob'[k]) =>
           \/ /\ Writes(siemJob[k]) /\ siemJob'[k].id = siemJob[k].id
              /\ siemJob'[k].payload = siemJob[k].payload
           \/ /\ queue[siemJob'[k].id] # NoDelivery
              /\ siemJob'[k].payload = queue[siemJob'[k].id].payload
    BY <1>1
  <1>6. RowsHaveOwners'
    BY <1>4, <1>5 DEF RowsHaveOwners, QueuedIn, Writes
  <1>7. OneOwnerPerRow'
    BY <1>4 DEF OneOwnerPerRow, QueuedIn
  <1>8. RowHoldsPayload'
    BY <1>4 DEF RowHoldsPayload, QueuedIn
  <1>9. WritersHoldPayload'
    <2> SUFFICES ASSUME NEW i \in Jobs \ collided, NEW k \in Jobs, QueuedIn(siemJob'[i]),
                        Writes(siemJob'[k]), siemJob'[i].id = siemJob'[k].id
                 PROVE  siemJob'[k].payload = siemJob'[i].payload
      BY DEF WritersHoldPayload, QueuedIn, Writes
    <2>1. /\ QueuedIn(siemJob[i]) /\ siemJob'[i].id = siemJob[i].id
          /\ siemJob'[i].payload = siemJob[i].payload
      BY <1>4
    <2>2. CASE /\ Writes(siemJob[k]) /\ siemJob'[k].id = siemJob[k].id
               /\ siemJob'[k].payload = siemJob[k].payload
      BY <2>1, <2>2 DEF WritersHoldPayload
    <2>3. CASE siemJob'[k].payload = queue[siemJob'[k].id].payload
      BY <2>1, <2>3 DEF RowHoldsPayload
    <2> QED BY <1>5, <2>2, <2>3
  <1> QED BY <1>2, <1>3, <1>6, <1>7, <1>8, <1>9

\* Listing the events of a batch keeps the delivery invariant.
LEMMA ListEventsStep ==
    ASSUME SiemInv, NEW j \in Jobs, ListEvents(j)
    PROVE  SiemInv'
  <1> USE DEF SiemInv
  <1>1. /\ siemJob[j] \in SiemJob /\ siemJob[j].pc = "idle" /\ ~siemJob[j].redrive
        /\ siemJob[j].payload = {}
        /\ UNCHANGED <<now, events, queue, accepted, collided>> /\ events \in 0..MaxEvents
        /\ now \in 0..MaxTime /\ accepted \subseteq Payload
    BY DEF ListEvents, SiemTypeOK, JobInStep
  <1>2. CASE SiemStep(j, [siemJob[j] EXCEPT !.pc = "done"])
    <2> DEFINE r == [siemJob[j] EXCEPT !.pc = "done"]
    <2>1. /\ r \in SiemJob /\ r.pc = "done" /\ r.payload = {}
      BY <1>1 DEF SiemJob
    <2>2. SiemStep(j, r)
      BY <1>2
    <2> HIDE DEF r
    <2>3. JobInStep(r, accepted') /\ ~QueuedIn(r) /\ ~QueuedIn(siemJob[j]) /\ ~Writes(r)
      BY <1>1, <2>1 DEF JobInStep, QueuedIn, Writes
    <2> QED BY <1>1, <2>1, <2>2, <2>3, JobMoves
  <1>3. ASSUME NEW dry \in BOOLEAN, Newest # {},
               SiemStep(j, [siemJob[j] EXCEPT !.pc = "upsert", !.payload = Newest,
                                !.id = <<now, Cardinality(Newest)>>, !.dryRun = dry])
        PROVE  SiemInv'
    <2> DEFINE id == <<now, Cardinality(Newest)>>
               r == [siemJob[j] EXCEPT !.pc = "upsert", !.payload = Newest, !.id = id,
                                       !.dryRun = dry]
    <2>1. id \in DeliveryId /\ Newest \in Payload
      BY <1>1, NewestBounded DEF DeliveryId
    <2>2. SiemStep(j, r)
      BY <1>3
    <2> HIDE DEF id
    <2>3. r \in SiemJob /\ r.pc = "upsert" /\ r.payload = Newest /\ r.redrive = siemJob[j].redrive
      BY <1>1, <2>1 DEF SiemJob
    <2> HIDE DEF r
    <2>4. JobInStep(r, accepted') /\ ~QueuedIn(r) /\ ~QueuedIn(siemJob[j]) /\ ~Writes(r)
      BY <1>1, <1>3, <2>3 DEF JobInStep, QueuedIn, Writes
    <2> QED BY <1>1, <2>2, <2>3, <2>4, JobMoves
  <1> QED BY <1>2, <1>3 DEF ListEvents

\* Only an accepted payload is marked delivered.
LEMMA SendStep ==
    ASSUME SiemInv, NEW j \in Jobs, SendWebhook(j)
    PROVE  SiemInv'
  <1> USE DEF SiemInv
  <1> DEFINE d == siemJob[j]
  <1>1. /\ d \in SiemJob /\ d.pc = "send" /\ UNCHANGED <<now, events, queue, collided>>
        /\ events \in 0..MaxEvents /\ accepted \subseteq Payload /\ d.payload \in Payload
        /\ d.attempts \in Nat
    BY DEF SendWebhook, SiemTypeOK, SiemJob
  <1>2. PICK pc \in {"mark", "record"}, n \in Nat, st \in {"pending", "delivered", "dead"} :
          /\ SiemStep(j, [d EXCEPT !.pc = pc, !.attempts = n, !.status = st])
          /\ accepted' = accepted \/ accepted' = accepted \cup {d.payload}
          /\ st = "delivered" => accepted' = accepted \cup {d.payload}
    <2>1. CASE d.dryRun
      <3>1. PICK pc \in {"mark", "record"} :
              SiemStep(j, [d EXCEPT !.pc = pc, !.status = "pending"]) /\ UNCHANGED accepted
        BY <2>1 DEF SendWebhook
      <3>2. [d EXCEPT !.pc = pc, !.status = "pending"]
              = [d EXCEPT !.pc = pc, !.attempts = d.attempts, !.status = "pending"]
        BY <1>1 DEF SiemJob
      <3> QED BY <1>1, <3>1, <3>2
    <2>2. CASE ~d.dryRun
      <3>1. PICK answer \in {"accepted", "refused", "retry"} :
              /\ SiemStep(j, [d EXCEPT !.pc = "mark", !.attempts = @ + 1,
                                       !.status = QueueStatus(answer, d.attempts)])
              /\ \/ answer # "refused" /\ accepted' = accepted \cup {d.payload}
                 \/ answer # "accepted" /\ UNCHANGED accepted
        BY <2>2 DEF SendWebhook
      <3>2. /\ QueueStatus(answer, d.attempts) \in {"pending", "delivered", "dead"}
            /\ QueueStatus(answer, d.attempts) = "delivered" => answer = "accepted"
        BY DEF QueueStatus
      <3>3. [d EXCEPT !.pc = "mark", !.attempts = @ + 1, !.status = QueueStatus(answer, d.attempts)]
              = [d EXCEPT !.pc = "mark", !.attempts = d.attempts + 1,
                          !.status = QueueStatus(answer, d.attempts)]
        BY <1>1 DEF SiemJob
      <3>4. d.attempts + 1 \in Nat
        BY <1>1
      <3> QED BY <3>1, <3>2, <3>3, <3>4
    <2> QED BY <2>1, <2>2
  <1> DEFINE r == [d EXCEPT !.pc = pc, !.attempts = n, !.status = st]
  <1>3. /\ r \in SiemJob /\ r.pc = pc /\ r.status = st /\ r.payload = d.payload
        /\ r.id = d.id /\ r.redrive = d.redrive
    BY <1>1 DEF SiemJob
  <1>4. SiemStep(j, r)
    BY <1>2
  <1> HIDE DEF r
  <1>5. accepted \subseteq accepted' /\ accepted' \subseteq Payload
    BY <1>1, <1>2
  <1>6. JobInStep(r, accepted')
    BY <1>2, <1>3 DEF JobInStep
  <1>7. (QueuedIn(r) <=> QueuedIn(d)) /\ Writes(d)
    BY <1>1, <1>3 DEF QueuedIn, Writes
  <1> QED BY <1>1, <1>3, <1>4, <1>5, <1>6, <1>7, JobMoves

\* Recording the delivery, or the job's death, keeps the delivery invariant.
LEMMA QuietSteps ==
    ASSUME SiemInv, NEW j \in Jobs, RecordDelivery(j) \/ JobDies(j)
    PROVE  SiemInv'
  <1> USE DEF SiemInv
  <1> DEFINE d == siemJob[j]
  <1>1. /\ d \in SiemJob /\ UNCHANGED <<now, queue, accepted, collided>>
        /\ events' \in 0..MaxEvents /\ accepted \subseteq Payload /\ d.payload \in Payload
        /\ {} \in Payload
    BY SiemAssumption DEF RecordDelivery, JobDies, SiemTypeOK, SiemJob, Payload
  <1>2. PICK pc \in {"done", "died"}, p \in Payload :
          /\ SiemStep(j, [d EXCEPT !.pc = pc, !.payload = p])
          /\ p = d.payload \/ (d.pc = "upsert" /\ p = {})
          /\ d.pc = "upsert" => p = {}
          /\ d.pc # "idle"
    <2>1. CASE RecordDelivery(j)
      <3>1. SiemStep(j, [d EXCEPT !.pc = "done"]) /\ d.pc = "record"
        BY <2>1 DEF RecordDelivery
      <3>2. [d EXCEPT !.pc = "done"] = [d EXCEPT !.pc = "done", !.payload = d.payload]
        BY <1>1 DEF SiemJob
      <3> QED BY <1>1, <3>1, <3>2
    <2>2. CASE JobDies(j)
      BY <1>1, <2>2 DEF JobDies, SiemJob
    <2> QED BY <2>1, <2>2
  <1> DEFINE r == [d EXCEPT !.pc = pc, !.payload = p]
  <1>3. r \in SiemJob /\ r.pc = pc /\ r.payload = p /\ r.id = d.id /\ r.redrive = d.redrive
    BY <1>1 DEF SiemJob
  <1>4. SiemStep(j, r)
    BY <1>2
  <1> HIDE DEF r
  <1>5. JobInStep(r, accepted') /\ ~Writes(r)
    BY <1>3 DEF JobInStep, Writes
  <1>6. /\ QueuedIn(r) => QueuedIn(d)
        /\ QueuedIn(d) => QueuedIn(r) /\ r.id = d.id /\ r.payload = d.payload
    BY <1>2, <1>3 DEF QueuedIn
  <1> QED BY <1>1, <1>3, <1>4, <1>5, <1>6, JobMoves

\* Reading the row to redrive keeps the delivery invariant.
LEMMA ReadDeliveryStep ==
    ASSUME SiemInv, NEW j \in Jobs, ReadDelivery(j)
    PROVE  SiemInv'
  <1> USE DEF SiemInv
  <1>1. /\ siemJob[j] \in SiemJob /\ siemJob[j].pc = "idle"
        /\ UNCHANGED <<now, events, queue, accepted, collided>>
        /\ events \in 0..MaxEvents /\ accepted \subseteq Payload
    BY DEF ReadDelivery, SiemTypeOK
  <1>2. PICK d \in DeliveryId, next \in {"send", "reset"}, dry \in BOOLEAN :
          /\ queue[d] # NoDelivery
          /\ SiemStep(j, [siemJob[j] EXCEPT !.pc = next, !.id = d, !.redrive = TRUE,
                 !.dryRun = dry,
                 !.payload = queue[d].payload, !.attempts = queue[d].attempts])
    BY DEF ReadDelivery
  <1>3. PICK p \in Payload, n \in Nat : p = queue[d].payload /\ n = queue[d].attempts
    BY <1>2 DEF SiemTypeOK, Delivery
  <1> DEFINE r == [siemJob[j] EXCEPT !.pc = next, !.id = d, !.redrive = TRUE,
                 !.dryRun = dry, !.payload = p, !.attempts = n]
  <1>4. r \in SiemJob /\ r.pc = next /\ r.id = d /\ r.redrive = TRUE /\ r.payload = p
    BY <1>1 DEF SiemJob
  <1>5. SiemStep(j, r)
    BY <1>2, <1>3
  <1> HIDE DEF r
  <1>6. JobInStep(r, accepted') /\ ~QueuedIn(r) /\ ~QueuedIn(siemJob[j])
    BY <1>1, <1>4 DEF JobInStep, QueuedIn
  <1> QED BY <1>1, <1>2, <1>3, <1>4, <1>5, <1>6, JobMoves

\* A job queues its payload: every earlier owner of the id, and the job itself,
\* has collided.
LEMMA EnqueueStep ==
    ASSUME SiemInv, NEW j \in Jobs, Enqueue(j)
    PROVE  SiemInv'
  <1> USE DEF SiemInv
  <1>0. PICK d \in SiemJob : d = siemJob[j]
    BY DEF SiemTypeOK
  <1>a. PICK n \in 0..MaxDeliveries :
          /\ queue' = [queue EXCEPT ![d.id] =
                 [payload |-> d.payload, attempts |-> n, status |-> "pending"]]
          /\ SiemStep(j, [d EXCEPT !.pc = "send", !.attempts = n])
    BY <1>0 DEF Enqueue
  <1> DEFINE r == [d EXCEPT !.pc = "send", !.attempts = n]
             row == [payload |-> d.payload, attempts |-> n, status |-> "pending"]
             others == SameId(j)
  <1>b. n \in Nat
    BY SiemAssumption
  <1>1. /\ d.pc = "upsert" /\ ~d.redrive /\ d.payload # {} /\ d.id \in DeliveryId
        /\ d.payload \in Payload /\ UNCHANGED <<now, events, accepted>>
    BY <1>0 DEF Enqueue, JobInStep, SiemJob
  <1>2. /\ siemJob' = [siemJob EXCEPT ![j] = r] /\ queue' = [queue EXCEPT ![d.id] = row]
        /\ collided' = IF others = {} THEN collided ELSE collided \cup others \cup {j}
    BY <1>0, <1>a DEF Enqueue, SiemStep
  <1>3. /\ r \in SiemJob /\ r.pc = "send" /\ r.id = d.id /\ r.payload = d.payload
        /\ r.redrive = d.redrive
    BY <1>1, <1>b DEF SiemJob
  <1>4. row \in Delivery /\ row.payload = d.payload /\ row.status = "pending"
    BY <1>1, <1>b DEF Delivery
  <1>5. others = {k \in Jobs \ {j} : QueuedIn(siemJob[k]) /\ siemJob[k].id = d.id}
    BY <1>0 DEF SameId, QueuedIn
  <1> HIDE DEF r, row, others
  <1>6. /\ siemJob' \in [Jobs -> SiemJob] /\ siemJob'[j] = r
        /\ \A k \in Jobs : k # j => siemJob'[k] = siemJob[k]
    BY <1>2, <1>3 DEF SiemTypeOK
  <1>7. /\ queue' \in [DeliveryId -> Delivery \cup {NoDelivery}] /\ queue'[d.id] = row
        /\ row # NoDelivery
        /\ \A i \in DeliveryId : i # d.id => queue'[i] = queue[i]
    BY <1>1, <1>2, <1>4, NoDeliveryAssumption DEF SiemTypeOK
  <1>8. SiemTypeOK'
    BY <1>1, <1>2, <1>5, <1>6, <1>7 DEF SiemTypeOK
  <1>9. (\A k \in Jobs : JobInStep(siemJob[k], accepted))'
    BY <1>1, <1>3, <1>6 DEF JobInStep
  <1>10. QueuedIn(r) /\ ~QueuedIn(d) /\ Writes(r) /\ collided \subseteq collided'
    BY <1>1, <1>2, <1>3 DEF QueuedIn, Writes
  <1>11. \A k \in Jobs : siemJob[k].id \in DeliveryId /\ siemJob'[k].id \in DeliveryId
    BY <1>6 DEF SiemTypeOK, SiemJob
  <1>12. \A k \in Jobs : k # j /\ QueuedIn(siemJob[k]) /\ siemJob[k].id = d.id =>
            k \in collided' /\ j \in collided'
    BY <1>2, <1>5
  <1>13. \A k \in Jobs : k # j /\ Writes(siemJob[k]) /\ siemJob[k].id = d.id => j \in collided'
    <2> SUFFICES ASSUME NEW k \in Jobs, k # j, Writes(siemJob[k]), siemJob[k].id = d.id
                 PROVE  j \in collided'
      OBVIOUS
    <2>1. queue[d.id] # NoDelivery
      BY DEF RowsHaveOwners
    <2>2. PICK o \in Jobs : QueuedIn(siemJob[o]) /\ siemJob[o].id = d.id
      BY <1>1, <2>1 DEF RowsHaveOwners
    <2>3. o # j
      BY <1>0, <1>10, <2>2
    <2> QED BY <1>12, <2>2, <2>3
  <1>14. RowsHaveOwners'
    <2>1. ASSUME NEW i \in DeliveryId, queue'[i] # NoDelivery
          PROVE  \E k \in Jobs : QueuedIn(siemJob'[k]) /\ siemJob'[k].id = i
      <3>1. CASE i = d.id
        BY <1>3, <1>6, <1>10, <3>1
      <3>2. CASE i # d.id
        <4>1. PICK k \in Jobs : QueuedIn(siemJob[k]) /\ siemJob[k].id = i
          BY <1>7, <2>1, <3>2 DEF RowsHaveOwners
        <4>2. k # j
          BY <1>0, <1>10, <4>1
        <4> QED BY <1>6, <4>1, <4>2
      <3> QED BY <3>1, <3>2
    <2>2. ASSUME NEW k \in Jobs, QueuedIn(siemJob'[k]) \/ Writes(siemJob'[k])
          PROVE  queue'[siemJob'[k].id] # NoDelivery
      BY <1>3, <1>6, <1>7, <1>11, <2>2 DEF RowsHaveOwners
    <2> QED BY <2>1, <2>2 DEF RowsHaveOwners, QueuedIn, Writes
  <1>15. OneOwnerPerRow'
    <2> SUFFICES ASSUME NEW i \in Jobs, NEW k \in Jobs, i # k,
                        QueuedIn(siemJob'[i]), QueuedIn(siemJob'[k]),
                        siemJob'[i].id = siemJob'[k].id
                 PROVE  i \in collided'
      BY DEF OneOwnerPerRow, QueuedIn
    <2>1. CASE i # j /\ k # j
      BY <1>6, <1>10, <2>1 DEF OneOwnerPerRow
    <2>2. CASE i = j \/ k = j
      BY <1>3, <1>6, <1>12, <2>2
    <2> QED BY <2>1, <2>2
  <1>16. RowHoldsPayload'
    <2> SUFFICES ASSUME NEW k \in Jobs \ collided', QueuedIn(siemJob'[k])
                 PROVE  /\ queue'[siemJob'[k].id].payload = siemJob'[k].payload
                        /\ \/ siemJob'[k].payload \in accepted
                           \/ queue'[siemJob'[k].id].status # "delivered"
      BY <1>1 DEF RowHoldsPayload, QueuedIn
    <2>1. CASE k = j
      BY <1>3, <1>4, <1>6, <1>7, <2>1
    <2>2. CASE k # j
      <3>1. siemJob[k].id # d.id /\ k \notin collided
        BY <1>6, <1>10, <1>12, <2>2
      <3> QED BY <1>6, <1>7, <1>11, <2>2, <3>1 DEF RowHoldsPayload
    <2> QED BY <2>1, <2>2
  <1>17. WritersHoldPayload'
    <2> SUFFICES ASSUME NEW i \in Jobs \ collided', NEW k \in Jobs, QueuedIn(siemJob'[i]),
                        Writes(siemJob'[k]), siemJob'[i].id = siemJob'[k].id
                 PROVE  siemJob'[k].payload = siemJob'[i].payload
      BY DEF WritersHoldPayload, QueuedIn, Writes
    <2>1. CASE i = j /\ k = j
      BY <2>1
    <2>2. CASE i = j /\ k # j
      BY <1>3, <1>6, <1>13, <2>2
    <2>3. CASE i # j /\ k = j
      BY <1>3, <1>6, <1>12, <2>3
    <2>4. CASE i # j /\ k # j
      BY <1>6, <1>10, <2>4 DEF WritersHoldPayload
    <2> QED BY <2>1, <2>2, <2>3, <2>4
  <1> QED BY <1>8, <1>9, <1>14, <1>15, <1>16, <1>17

\* A status is written: to the payload the writer sent, or the row's owner has
\* collided.
LEMMA WriteStep ==
    ASSUME SiemInv, NEW j \in Jobs, MarkStatus(j) \/ ResetDelivery(j)
    PROVE  SiemInv'
  <1> USE DEF SiemInv
  <1>0. PICK d \in SiemJob : d = siemJob[j]
    BY DEF SiemTypeOK
  <1>1. /\ d.pc \in {"mark", "reset"} /\ UNCHANGED <<now, events, accepted, collided>>
        /\ d.id \in DeliveryId
    BY <1>0 DEF MarkStatus, ResetDelivery, SiemJob
  <1>2. queue[d.id] \in Delivery /\ Writes(d)
    <2>1. Writes(d)
      BY <1>1 DEF Writes
    <2>2. queue[d.id] # NoDelivery
      BY <1>0, <2>1 DEF RowsHaveOwners
    <2> QED BY <1>1, <2>1, <2>2 DEF SiemTypeOK
  <1>3. PICK st \in {"pending", "delivered", "dead"}, n \in Nat, pc \in {"record", "done"} :
          /\ queue' = [queue EXCEPT ![d.id].status = st, ![d.id].attempts = n]
          /\ SiemStep(j, [d EXCEPT !.pc = pc])
          /\ st = "delivered" => d.payload \in accepted
    <2>1. CASE MarkStatus(j)
      BY <1>0, <2>1 DEF MarkStatus, JobInStep, SiemJob
    <2>2. CASE ResetDelivery(j)
      BY <1>0, <2>2 DEF ResetDelivery
    <2> QED BY <2>1, <2>2
  <1> DEFINE r == [d EXCEPT !.pc = pc]
             row == [queue[d.id] EXCEPT !.status = st, !.attempts = n]
  <1>4. /\ r \in SiemJob /\ r.pc = pc /\ r.id = d.id /\ r.payload = d.payload
        /\ r.redrive = d.redrive
    BY DEF SiemJob
  <1>5. row \in Delivery /\ row.payload = queue[d.id].payload /\ row.status = st
    BY <1>2 DEF Delivery
  <1>6. queue' = [queue EXCEPT ![d.id] = row] /\ siemJob' = [siemJob EXCEPT ![j] = r]
    BY <1>1, <1>3 DEF SiemTypeOK, SiemStep
  <1> HIDE DEF r, row
  <1>7. /\ siemJob' \in [Jobs -> SiemJob] /\ siemJob'[j] = r
        /\ \A k \in Jobs : k # j => siemJob'[k] = siemJob[k]
    BY <1>4, <1>6 DEF SiemTypeOK
  <1>8. /\ queue' \in [DeliveryId -> Delivery \cup {NoDelivery}] /\ queue'[d.id] = row
        /\ row # NoDelivery
        /\ \A i \in DeliveryId : i # d.id => queue'[i] = queue[i]
    BY <1>1, <1>5, <1>6, NoDeliveryAssumption DEF SiemTypeOK
  <1>9. SiemTypeOK'
    BY <1>1, <1>7, <1>8 DEF SiemTypeOK
  <1>10. (\A k \in Jobs : JobInStep(siemJob[k], accepted))'
    BY <1>1, <1>4, <1>7 DEF JobInStep
  <1>11. \A k \in Jobs :
            /\ QueuedIn(siemJob'[k]) <=> QueuedIn(siemJob[k])
            /\ siemJob'[k].id = siemJob[k].id /\ siemJob'[k].payload = siemJob[k].payload
            /\ Writes(siemJob'[k]) => Writes(siemJob[k])
            /\ siemJob[k].id \in DeliveryId
    <2>1. /\ QueuedIn(r) <=> QueuedIn(d)
          /\ ~Writes(r)
      BY <1>1, <1>4 DEF QueuedIn, Writes
    <2> QED BY <1>0, <1>4, <1>7, <2>1 DEF SiemTypeOK, SiemJob
  <1>12. \A i \in DeliveryId : queue'[i] # NoDelivery <=> queue[i] # NoDelivery
    BY <1>2, <1>8, NoDeliveryAssumption
  <1>13. RowsHaveOwners'
    BY <1>11, <1>12 DEF RowsHaveOwners, QueuedIn, Writes
  <1>14. OneOwnerPerRow' /\ WritersHoldPayload'
    BY <1>1, <1>11 DEF OneOwnerPerRow, WritersHoldPayload, QueuedIn, Writes
  <1>15. RowHoldsPayload'
    <2> SUFFICES ASSUME NEW k \in Jobs \ collided, QueuedIn(siemJob[k])
                 PROVE  /\ queue'[siemJob[k].id].payload = siemJob[k].payload
                        /\ \/ siemJob[k].payload \in accepted
                           \/ queue'[siemJob[k].id].status # "delivered"
      BY <1>1, <1>11 DEF RowHoldsPayload, QueuedIn
    <2>1. CASE siemJob[k].id # d.id
      BY <1>8, <1>11, <2>1 DEF RowHoldsPayload
    <2>2. CASE siemJob[k].id = d.id
      <3>1. d.payload = siemJob[k].payload
        BY <1>0, <1>2, <2>2 DEF WritersHoldPayload
      <3> QED BY <1>3, <1>5, <1>8, <2>2, <3>1 DEF RowHoldsPayload
    <2> QED BY <2>1, <2>2
  <1> QED BY <1>9, <1>10, <1>13, <1>14, <1>15

\* Rows, owners and writers fit together in every state.
THEOREM SiemInvariant == SiemSpec => []SiemInv
  <1>1. SiemInit => SiemInv
    <2> SUFFICES ASSUME SiemInit PROVE SiemInv
      OBVIOUS
    <2>1. now \in 0..MaxTime /\ events \in 0..MaxEvents /\ {} \in Payload /\ <<0, 0>> \in DeliveryId
      BY ClockAssumption, SiemAssumption DEF SiemInit, Payload, DeliveryId
    <2>2. /\ siemJob \in [Jobs -> SiemJob]
          /\ \A j \in Jobs : siemJob[j].pc = "idle" /\ siemJob[j].payload = {} /\ ~siemJob[j].redrive
      BY <2>1 DEF SiemInit, SiemJob
    <2>3. /\ queue \in [DeliveryId -> Delivery \cup {NoDelivery}]
          /\ \A d \in DeliveryId : queue[d] = NoDelivery
          /\ accepted = {} /\ collided = {}
      BY DEF SiemInit
    <2>4. SiemTypeOK
      BY <2>1, <2>2, <2>3 DEF SiemTypeOK
    <2> QED BY <2>2, <2>3, <2>4
            DEF SiemInv, JobInStep, RowsHaveOwners, OneOwnerPerRow, RowHoldsPayload,
                WritersHoldPayload, QueuedIn, Writes
  <1>2. SiemInv /\ [SiemNext]_siemVars => SiemInv'
    <2> SUFFICES ASSUME SiemInv, [SiemNext]_siemVars PROVE SiemInv'
      OBVIOUS
    <2>1. ASSUME UNCHANGED <<queue, siemJob, accepted, collided>>, now' \in 0..MaxTime,
                 events' \in 0..MaxEvents
          PROVE  SiemInv'
      <3>1. SiemTypeOK'
        BY <2>1 DEF SiemInv, SiemTypeOK
      <3> QED BY <2>1, <3>1
              DEF SiemInv, JobInStep, RowsHaveOwners, OneOwnerPerRow, RowHoldsPayload,
                  WritersHoldPayload, QueuedIn, Writes
    <2>2. CASE UNCHANGED siemVars
      BY <2>1, <2>2 DEF siemVars, SiemInv, SiemTypeOK
    <2>3. CASE SiemTick
      BY <2>1, <2>3, ClockAssumption DEF SiemTick, Tick, SiemInv, SiemTypeOK
    <2>4. CASE AuditEvent
      BY <2>1, <2>4, SiemAssumption DEF AuditEvent, SiemInv, SiemTypeOK
    <2>5. CASE \E j \in Jobs : ListEvents(j)
      BY <2>5, ListEventsStep
    <2>6. CASE \E j \in Jobs : Enqueue(j)
      BY <2>6, EnqueueStep
    <2>7. CASE \E j \in Jobs : SendWebhook(j)
      BY <2>7, SendStep
    <2>8. CASE \E j \in Jobs : MarkStatus(j) \/ ResetDelivery(j)
      BY <2>8, WriteStep
    <2>9. CASE \E j \in Jobs : RecordDelivery(j) \/ JobDies(j)
      BY <2>9, QuietSteps
    <2>10. CASE \E j \in Jobs : ReadDelivery(j)
      BY <2>10, ReadDeliveryStep
    <2> QED BY <2>2, <2>3, <2>4, <2>5, <2>6, <2>7, <2>8, <2>9, <2>10 DEF SiemNext
  <1> QED BY <1>1, <1>2, PTL DEF SiemSpec

\* Nothing queued is dropped before the endpoint has accepted it, unless another
\* job took over its row (operations.md:251), for any number of jobs, of events
\* and of attempts.
THEOREM NothingDropped == SiemSpec => [](SiemTypeOK /\ NothingUndeliveredIsDropped)
  <1>1. SiemInv => SiemTypeOK /\ NothingUndeliveredIsDropped
    BY DEF SiemInv, NothingUndeliveredIsDropped, RowHoldsPayload, Queued, QueuedIn
  <1> QED BY <1>1, SiemInvariant, PTL

-----------------------------------------------------------------------------
(* Numbers *)

\* The least-number principle, for the inductions along a chain.
LEMMA LeastNumber ==
    ASSUME NEW T, T \subseteq Nat, T # {}
    PROVE  \E x \in T : \A y \in T : x <= y
  <1> DEFINE R == {ss \in Nat \X Nat : ss[1] < ss[2]}
  <1>1. IsWellFoundedOn(R, Nat)
    BY NatLessThanWellFounded DEF OpToRel
  <1> HIDE DEF R
  <1>2. PICK x \in T : \A y \in T : ~ (<<y, x>> \in R)
    BY <1>1, WFMin
  <1>3. \A m, n \in Nat : <<m, n>> \in R <=> m < n
    BY DEF R
  <1>4. ASSUME NEW y \in T PROVE x <= y
    <2>1. ~(y < x)
      BY <1>2, <1>3
    <2> QED BY <2>1
  <1> QED BY <1>4

-----------------------------------------------------------------------------
(* AuditChain.  A stream is one chain with one end.  A transaction holds    *)
(* its stream's row from the lock to the commit, so the end it read is      *)
(* still the end when it inserts.                                           *)

\* The walk of ChainValid: what it has met after n steps.
MetAfter(es, met, n) ==
    IF n = 0 THEN {e \in es : e.previous = NoHash}
    ELSE met[n-1] \cup {e \in es : \E f \in met[n-1] : e.previous = f.id}
IsWalk(es, n, met) == met = [i \in 0..n |-> MetAfter(es, met, i)]

\* A walk of the chain is what its equation says, at every length.
LEMMA WalkUnfolds ==
    ASSUME NEW es, NEW n, NEW met, IsWalk(es, n, met)
    PROVE  \A i \in 0..n : met[i] = MetAfter(es, met, i)
  <1>1. \A i \in 0..n : [k \in 0..n |-> MetAfter(es, met, k)][i] = MetAfter(es, met, i)
    OBVIOUS
  <1>2. met = [k \in 0..n |-> MetAfter(es, met, k)]
    BY DEF IsWalk
  <1> QED BY <1>1, <1>2

\* The recursive function that walks the chain exists.
LEMMA WalkExists ==
    ASSUME NEW es, NEW n \in Nat
    PROVE  \E met : IsWalk(es, n, met)
  <1> DEFINE T == {i \in Nat : ~ \E met : IsWalk(es, i, met)}
  <1> SUFFICES ASSUME T # {} PROVE FALSE
    OBVIOUS
  <1>1. PICK x \in T : \A y \in T : x <= y
    BY LeastNumber
  <1>2. x # 0
    <2> DEFINE m == [i \in 0..0 |-> {e \in es : e.previous = NoHash}]
    <2>1. \A i \in 0..0 : m[i] = MetAfter(es, m, i)
      BY DEF MetAfter
    <2>2. IsWalk(es, 0, m)
      BY <2>1 DEF IsWalk
    <2> QED BY <1>1, <2>2
  <1>3. x \in Nat /\ x - 1 \in Nat /\ x - 1 \notin T
    BY <1>1, <1>2
  <1>4. PICK m : IsWalk(es, x - 1, m)
    BY <1>3
  <1> DEFINE last == m[x-1] \cup {e \in es : \E f \in m[x-1] : e.previous = f.id}
             w == [i \in 0..x |-> IF i = x THEN last ELSE m[i]]
  <1>5. \A i \in 0..(x - 1) : w[i] = m[i] /\ m[i] = MetAfter(es, m, i)
    <2>1. \A i \in 0..(x - 1) : i \in 0..x /\ i # x
      BY <1>3
    <2>2. \A i \in 0..(x - 1) : w[i] = m[i]
      BY <2>1
    <2> QED BY <1>4, <2>2, WalkUnfolds
  <1>6. w[x] = last
    BY <1>3
  <1>7. ASSUME NEW i \in 0..x PROVE w[i] = MetAfter(es, w, i)
    <2>1. CASE i = 0
      <3>1. 0 \in 0..(x - 1)
        BY <1>2, <1>3
      <3> HIDE DEF w
      <3> QED BY <1>5, <2>1, <3>1 DEF MetAfter
    <2>2. CASE i # 0
      <3>1. i - 1 \in 0..(x - 1) /\ w[i-1] = m[i-1]
        BY <1>3, <1>5, <2>2
      <3> HIDE DEF w
      <3>2. CASE i = x
        BY <1>6, <2>2, <3>1, <3>2 DEF MetAfter
      <3>3. CASE i # x
        <4>1. i \in 0..(x - 1)
          BY <1>3, <3>3
        <4> QED BY <1>5, <2>2, <3>1, <4>1 DEF MetAfter
      <3> QED BY <3>2, <3>3
    <2> QED BY <2>1, <2>2
  <1>8. w = [i \in 0..x |-> MetAfter(es, w, i)]
    <2>1. w = [i \in 0..x |-> w[i]]
      OBVIOUS
    <2> HIDE DEF w
    <2> QED BY <1>7, <2>1
  <1> QED BY <1>1, <1>8 DEF IsWalk

\* ChainValid is a statement about one walk of that kind.
LEMMA ChainWalk ==
    ASSUME NEW es, IsFiniteSet(es)
    PROVE  \E met : /\ IsWalk(es, Cardinality(es), met)
                    /\ ChainValid(es) <=>
                          /\ \A e, f \in es : e.previous = f.previous => e = f
                          /\ met[Cardinality(es)] = es
  <1> DEFINE met[n \in 0..Cardinality(es)] ==
                IF n = 0 THEN {e \in es : e.previous = NoHash}
                ELSE met[n-1] \cup {e \in es : \E f \in met[n-1] : e.previous = f.id}
             walk(g) == g = [n \in 0..Cardinality(es) |->
                IF n = 0 THEN {e \in es : e.previous = NoHash}
                ELSE g[n-1] \cup {e \in es : \E f \in g[n-1] : e.previous = f.id}]
  <1>1. PICK w : walk(w)
    <2>1. PICK w : IsWalk(es, Cardinality(es), w)
      BY FS_CardinalityType, WalkExists
    <2> QED BY <2>1 DEF IsWalk, MetAfter
  <1>2. met = CHOOSE g : walk(g)
    BY DEF met
  <1>3. walk(met)
    <2> HIDE DEF met, walk
    <2> QED BY <1>1, <1>2
  <1>4. ChainValid(es) <=>
                          /\ \A e, f \in es : e.previous = f.previous => e = f
                          /\ met[Cardinality(es)] = es
    BY DEF ChainValid
  <1> HIDE DEF met
  <1> QED BY <1>3, <1>4 DEF IsWalk, MetAfter

\* t is the only event of es nothing is chained to.
TailIs(es, t) == \A e \in es : (\A f \in es : f.previous # e.id) <=> e = t

\* What the next event of es is chained to.
Follows(es, h) ==
    \/ es = {} /\ h = NoHash
    \/ \E t \in es : TailIs(es, t) /\ h = t.id

IdsOf(es) == {e.id : e \in es}

\* One chain: a verified one, with one end.
Chained(es) ==
    /\ IsFiniteSet(es) /\ ChainValid(es)
    /\ es # {} => \E t \in es : TailIs(es, t)
    /\ \A e \in es : e.previous \in IdsOf(es) \cup {NoHash}

\* An event chained to the end of a chain makes it longer.
LEMMA ChainGrows ==
    ASSUME NEW es \in SUBSET Event, NEW e \in Event, Chained(es), Follows(es, e.previous),
           e.id \notin IdsOf(es)
    PROVE  Chained(es \cup {e})
  <1> DEFINE all == es \cup {e}
             c == Cardinality(es)
  <1>1. /\ e \notin es /\ IsFiniteSet(all) /\ c \in Nat /\ Cardinality(all) = c + 1
    BY FS_AddElement, FS_CardinalityType DEF Chained, IdsOf
  <1>2. e.id \in Ids /\ e.id # NoHash
    BY AuditAssumption DEF Event, Ids
  <1>3. \A f \in es : f.previous # e.id
    BY <1>2 DEF Chained
  <1>4. e.previous # e.id /\ e.previous \in IdsOf(es) \cup {NoHash}
    BY <1>2 DEF Follows, IdsOf
  <1>5. \A f \in es : f.previous # e.previous
    <2>1. CASE es = {}
      BY <2>1
    <2>2. CASE \E t \in es : TailIs(es, t) /\ e.previous = t.id
      BY <2>2 DEF TailIs
    <2> QED BY <2>1, <2>2 DEF Follows
  <1>6. TailIs(all, e)
    <2> SUFFICES ASSUME NEW x \in all
                 PROVE  (\A f \in all : f.previous # x.id) <=> x = e
      BY DEF TailIs
    <2>1. CASE x = e
      BY <1>3, <1>4, <2>1
    <2>2. CASE x # e
      <3>1. PICK t \in es : TailIs(es, t) /\ e.previous = t.id
        BY <2>2 DEF Follows
      <3> QED BY <2>2, <3>1 DEF TailIs
    <2> QED BY <2>1, <2>2
  <1>7. \A f \in all : f.previous \in IdsOf(all) \cup {NoHash}
    BY <1>4 DEF Chained, IdsOf
  <1>8. \A f, g \in es : f.previous = g.previous => f = g
    BY DEF Chained, ChainValid
  <1>9. PICK m : IsWalk(es, c, m) /\ m[c] = es
    BY ChainWalk DEF Chained
  <1>10. PICK w : /\ IsWalk(all, c + 1, w)
                  /\ ChainValid(all) <=>
                        /\ \A f, g \in all : f.previous = g.previous => f = g
                        /\ w[c + 1] = all
    <2> HIDE DEF all, c
    <2>1. IsFiniteSet(all) /\ Cardinality(all) = c + 1
      BY <1>1
    <2> QED BY <2>1, ChainWalk
  <1> HIDE DEF all, c
  <1>11. /\ \A i \in 0..c : m[i] = MetAfter(es, m, i)
         /\ \A i \in 0..(c + 1) : w[i] = MetAfter(all, w, i)
    <2>1. \A i \in 0..c : m[i] = MetAfter(es, m, i)
      BY <1>9, WalkUnfolds, <1>1
    <2>2. \A i \in 0..(c + 1) : w[i] = MetAfter(all, w, i)
      BY <1>10, WalkUnfolds, <1>1
    <2> QED BY <2>1, <2>2
  <1>12. \A i \in 0..c : m[i] \subseteq w[i]
    <2> DEFINE T == {i \in 0..c : ~(m[i] \subseteq w[i])}
    <2> SUFFICES ASSUME T # {} PROVE FALSE
      OBVIOUS
    <2>1. T \subseteq Nat
      BY <1>1
    <2>2. PICK x \in T : \A y \in T : x <= y
      BY <2>1, LeastNumber
    <2>3. x \in 0..c /\ x \in 0..(c + 1) /\ ~(m[x] \subseteq w[x])
      BY <1>1, <2>2
    <2>4. es \subseteq all
      BY DEF all
    <2> HIDE DEF T
    <2>9. m[x] = MetAfter(es, m, x) /\ w[x] = MetAfter(all, w, x)
      BY <1>11, <2>3
    <2>5. CASE x = 0
      BY <2>3, <2>4, <2>5, <2>9 DEF MetAfter
    <2>6. CASE x # 0
      <3>1. x - 1 \in 0..c /\ x - 1 \notin T
        BY <1>1, <2>2, <2>3, <2>6 DEF T
      <3>2. m[x - 1] \subseteq w[x - 1]
        BY <3>1 DEF T
      <3>3. /\ m[x] = m[x-1] \cup {f \in es : \E g \in m[x-1] : f.previous = g.id}
            /\ w[x] = w[x-1] \cup {f \in all : \E g \in w[x-1] : f.previous = g.id}
        BY <2>6, <2>9 DEF MetAfter
      <3> QED BY <2>3, <2>4, <3>2, <3>3
    <2> QED BY <2>5, <2>6
  <1>13. \A i \in 0..(c + 1) : w[i] \subseteq all
    <2> DEFINE T == {i \in 0..(c + 1) : ~(w[i] \subseteq all)}
    <2> SUFFICES ASSUME T # {} PROVE FALSE
      OBVIOUS
    <2>1. T \subseteq Nat
      BY <1>1
    <2>2. PICK x \in T : \A y \in T : x <= y
      BY <2>1, LeastNumber
    <2>3. x \in 0..(c + 1) /\ ~(w[x] \subseteq all)
      BY <1>1, <2>2
    <2>5. CASE x = 0
      BY <1>11, <2>3, <2>5 DEF MetAfter
    <2>6. CASE x # 0
      <3>1. x - 1 \in 0..(c + 1) /\ x - 1 \notin T
        BY <1>1, <2>2, <2>3, <2>6
      <3>2. w[x - 1] \subseteq all
        BY <3>1
      <3>3. w[x] = w[x-1] \cup {f \in all : \E g \in w[x-1] : f.previous = g.id}
        BY <1>11, <2>3, <2>6 DEF MetAfter
      <3> QED BY <2>3, <3>2, <3>3
    <2> QED BY <2>5, <2>6
  <1>14. es \subseteq w[c]
    BY <1>1, <1>9, <1>12
  <1>15. w[c + 1] = w[c] \cup {f \in all : \E g \in w[c] : f.previous = g.id}
    <2>1. c + 1 \in 0..(c + 1) /\ c + 1 # 0 /\ (c + 1) - 1 = c
      BY <1>1
    <2>2. w[c + 1] = MetAfter(all, w, c + 1)
      BY <1>11, <2>1
    <2> QED BY <2>1, <2>2 DEF MetAfter
  <1>16. e \in w[c + 1]
    <2>1. CASE es = {} /\ e.previous = NoHash
      <3>1. c = 0
        BY <2>1, FS_EmptySet DEF c
      <3>2. w[0] = MetAfter(all, w, 0) /\ e \in all
        BY <1>1, <1>11 DEF all
      <3>3. e \in w[0]
        BY <2>1, <3>2 DEF MetAfter
      <3> QED BY <1>15, <3>1, <3>3
    <2>2. CASE \E t \in es : e.previous = t.id
      BY <1>14, <1>15, <2>2 DEF all
    <2> QED BY <2>1, <2>2 DEF Follows
  <1>17. w[c + 1] = all
    <2>1. c + 1 \in 0..(c + 1)
      BY <1>1
    <2>2. w[c + 1] \subseteq all
      BY <1>13, <2>1
    <2> QED BY <1>14, <1>15, <1>16, <2>2 DEF all
  <1>18. \A f, g \in all : f.previous = g.previous => f = g
    BY <1>5, <1>8 DEF all
  <1>19. ChainValid(all)
    BY <1>10, <1>17, <1>18
  <1>20. e \in all
    BY DEF all
  <1>21. Chained(all)
    BY <1>1, <1>6, <1>7, <1>19, <1>20 DEF Chained
  <1> QED BY <1>21 DEF all

\* The chain has one tail, whatever the times: the hash an append reads follows it.
LEMMA TailFollows ==
    ASSUME NEW s \in Streams, log[s] \in SUBSET Event, Chained(log[s]),
           NEW h \in PreviousHashes(s)
    PROVE  Follows(log[s], h) /\ h \in Ids \cup {NoHash}
  <1>1. \A e \in log[s] : e.created \in Nat /\ e.id \in Ids
    BY DEF Event
  <1>2. CASE log[s] = {}
    <2>1. Tails(log[s]) = {}
      BY <1>2 DEF Tails, Latest
    <2> QED BY <1>2, <2>1 DEF PreviousHashes, Follows
  <1>3. CASE log[s] # {}
    <2>1. PICK t \in log[s] : TailIs(log[s], t)
      BY <1>3 DEF Chained
    <2>2. {e \in log[s] : \A f \in log[s] : f.previous # e.id} = {t}
      BY <2>1 DEF TailIs
    <2>3. Tails(log[s]) = {t}
      BY <1>1, <2>1, <2>2 DEF Tails, Latest
    <2>4. h = t.id
      BY <2>3 DEF PreviousHashes
    <2> QED BY <1>1, <2>1, <2>4 DEF Follows
  <1> QED BY <1>2, <1>3

LogInOrder ==
    \A s \in Streams :
        /\ Chained(log[s])
        /\ \A e \in log[s] :
              /\ e.id \in Appends => append[e.id].pc = "done"
              /\ e.id = ArchiveNote => job.pc \in {"ready", "done"}
              /\ e.id = ReadyNote => job.pc = "done"

Locks(a) == append[a].pc \in {"locked", "linked"}

LocksHeld ==
    \A a \in Appends :
        /\ append[a].pc \in {"begun", "locked", "linked"} => append[a].stream \in Streams
        /\ Locks(a) => append[a].stream \in chainLock
        /\ \A b \in Appends : Locks(a) /\ Locks(b) /\ append[a].stream = append[b].stream => a = b
        /\ append[a].pc = "linked" => Follows(log[append[a].stream], append[a].previous)

\* What the job knows of the stream it archives.
ArchiveInStep ==
    /\ job.pc = "list" /\ ~overrun =>
          /\ job.expired \subseteq IdsOf(log[JobStream])
          /\ job.checked = Cardinality(log[JobStream]) /\ job.checked <= ListCap
    /\ job.pc = "put" /\ ~overrun => job.expired \subseteq job.body
    /\ job.pc \in {"note", "ready", "done"} /\ job.archive /\ ~overrun =>
          job.expired \subseteq archived

AuditInv == AuditTypeOK /\ LogInOrder /\ LocksHeld /\ ArchiveInStep

\* A statement of a's transaction that inserts nothing.
LEMMA TransactionStep ==
    ASSUME AuditInv, NEW a \in Appends, NEW r \in Appending, AppendStep(a, r),
           UNCHANGED <<now, log, policy, job, archived, overrun>>, chainLock' \subseteq Streams,
           append[a].pc # "done",
           r.pc \in {"begun", "locked", "linked"} => r.stream \in Streams,
           r.pc \in {"locked", "linked"} =>
               /\ r.stream \in chainLock'
               /\ \A b \in Appends \ {a} : Locks(b) => append[b].stream # r.stream,
           \A b \in Appends \ {a} : Locks(b) => append[b].stream \in chainLock',
           r.pc = "linked" => Follows(log[r.stream], r.previous)
    PROVE  AuditInv'
  <1>1. /\ append' \in [Appends -> Appending] /\ append'[a] = r
        /\ \A b \in Appends : b # a => append'[b] = append[b]
    BY DEF AppendStep, AuditInv, AuditTypeOK
  <1>2. AuditTypeOK'
    BY <1>1 DEF AuditInv, AuditTypeOK
  <1>3. LogInOrder'
    BY <1>1 DEF AuditInv, LogInOrder
  <1>4. LocksHeld'
    BY <1>1 DEF AuditInv, LocksHeld, Locks
  <1>5. ArchiveInStep'
    BY DEF AuditInv, ArchiveInStep
  <1> QED BY <1>2, <1>3, <1>4, <1>5 DEF AuditInv

\* The statements of an append before its commit keep the audit invariant.
LEMMA StatementSteps ==
    ASSUME AuditInv, NEW a \in Appends,
           BuildEvent(a) \/ LockStream(a) \/ ReadTail(a) \/ AppendFails(a)
    PROVE  AuditInv'
  <1> USE DEF AuditInv
  <1>0. PICK e \in Appending : e = append[a]
    BY DEF AuditTypeOK
  <1>1. chainLock \subseteq Streams /\ now \in Nat
    BY ClockAssumption DEF AuditTypeOK
  <1>2. CASE BuildEvent(a)
    <2>1. PICK s \in Streams :
            AppendStep(a, [pc |-> "begun", stream |-> s, created |-> now, previous |-> NoHash])
      BY <1>2 DEF BuildEvent
    <2>2. PICK r \in Appending : AppendStep(a, r) /\ r.pc = "begun" /\ r.stream \in Streams
      BY <1>1, <2>1 DEF Appending
    <2> QED BY <1>1, <1>2, <2>2, TransactionStep DEF BuildEvent, LocksHeld
  <1>3. CASE LockStream(a)
    <2>1. /\ e.pc = "begun" /\ e.stream \in Streams /\ e.stream \notin chainLock
          /\ AppendStep(a, [e EXCEPT !.pc = "locked"]) /\ chainLock' = chainLock \cup {e.stream}
          /\ UNCHANGED <<now, log, policy, job, archived, overrun>>
      BY <1>0, <1>3 DEF LockStream, Lockable, LocksHeld
    <2>2. PICK r \in Appending : AppendStep(a, r) /\ r.pc = "locked" /\ r.stream = e.stream
      <3>1. [e EXCEPT !.pc = "locked"] \in Appending
        BY DEF Appending
      <3> QED BY <2>1, <3>1 DEF Appending
    <2>3. \A b \in Appends : Locks(b) => append[b].stream # e.stream /\ append[b].stream \in chainLock'
      BY <2>1 DEF LocksHeld
    <2> QED BY <1>0, <1>1, <2>1, <2>2, <2>3, TransactionStep
  <1>4. CASE ReadTail(a)
    <2>1. PICK h \in PreviousHashes(e.stream) :
            AppendStep(a, [e EXCEPT !.pc = "linked", !.previous = h])
      BY <1>0, <1>4 DEF ReadTail
    <2>2. /\ e.pc = "locked" /\ e.stream \in Streams /\ e.stream \in chainLock
          /\ UNCHANGED <<now, log, chainLock, policy, job, archived, overrun>>
      BY <1>0, <1>4 DEF ReadTail, LocksHeld, Locks
    <2>3. Follows(log[e.stream], h) /\ h \in Ids \cup {NoHash}
      BY <2>2, TailFollows DEF AuditTypeOK, LogInOrder
    <2>4. PICK r \in Appending : /\ AppendStep(a, r) /\ r.pc = "linked" /\ r.stream = e.stream
                                 /\ r.previous = h
      <3>1. [e EXCEPT !.pc = "linked", !.previous = h] \in Appending
        BY <2>3 DEF Appending
      <3> QED BY <2>1, <3>1 DEF Appending
    <2>5. \A b \in Appends \ {a} : Locks(b) => append[b].stream # e.stream
      BY <1>0, <2>2 DEF LocksHeld, Locks
    <2>6. \A b \in Appends : Locks(b) => append[b].stream \in chainLock
      BY DEF LocksHeld
    <2> QED BY <1>0, <1>1, <2>2, <2>3, <2>4, <2>5, <2>6, TransactionStep
  <1>5. CASE AppendFails(a)
    <2>1. /\ e.pc \in {"begun", "locked", "linked"} /\ AppendStep(a, [e EXCEPT !.pc = "failed"])
          /\ chainLock' = IF e.pc = "begun" THEN chainLock ELSE chainLock \ {e.stream}
          /\ UNCHANGED <<now, log, policy, job, archived, overrun>>
      BY <1>0, <1>5 DEF AppendFails
    <2>2. PICK r \in Appending : AppendStep(a, r) /\ r.pc = "failed"
      <3>1. [e EXCEPT !.pc = "failed"] \in Appending
        BY DEF Appending
      <3> QED BY <2>1, <3>1 DEF Appending
    <2>3. \A b \in Appends \ {a} : Locks(b) => append[b].stream \in chainLock'
      BY <1>0, <2>1 DEF LocksHeld, Locks
    <2> QED BY <1>0, <1>1, <2>1, <2>2, <2>3, TransactionStep
  <1> QED BY <1>2, <1>3, <1>4, <1>5

\* The insert: the stream grows by one event, and whoever else holds a row
\* holds another stream's.
LEMMA CommitStep ==
    ASSUME AuditInv, NEW a \in Appends, CommitEvent(a)
    PROVE  AuditInv'
  <1> USE DEF AuditInv
  <1>0. PICK r \in Appending : r = append[a]
    BY DEF AuditTypeOK
  <1>1. /\ r.pc = "linked" /\ r.stream \in Streams /\ Follows(log[r.stream], r.previous)
        /\ r.created \in Nat /\ r.previous \in Ids \cup {NoHash}
    BY <1>0 DEF CommitEvent, LocksHeld, Appending
  <1>2. PICK e \in Event : e = [id |-> a, created |-> r.created, previous |-> r.previous]
    BY <1>1 DEF Event, Ids
  <1>3. /\ log' = [log EXCEPT ![r.stream] = @ \cup {e}] /\ chainLock' = chainLock \ {r.stream}
        /\ AppendStep(a, [r EXCEPT !.pc = "done"]) /\ overrun' = Overruns(r.stream)
        /\ UNCHANGED <<now, policy, job, archived>>
    BY <1>0, <1>2 DEF CommitEvent, Inserted
  <1>4. /\ log' \in [Streams -> SUBSET Event] /\ log'[r.stream] = log[r.stream] \cup {e}
        /\ \A s \in Streams : s # r.stream => log'[s] = log[s]
    BY <1>1, <1>3 DEF AuditTypeOK
  <1>5. PICK d \in Appending : d = [r EXCEPT !.pc = "done"]
    BY DEF Appending
  <1>6. d.pc = "done"
    BY <1>5 DEF Appending
  <1>7. /\ append' \in [Appends -> Appending] /\ append'[a] = d
        /\ \A b \in Appends : b # a => append'[b] = append[b]
    BY <1>3, <1>5 DEF AppendStep, AuditTypeOK
  <1>8. AuditTypeOK'
    BY <1>3, <1>4, <1>7 DEF AuditTypeOK, Overruns
  <1>9. Chained(log'[r.stream])
    <2>1. log[r.stream] \in SUBSET Event /\ Chained(log[r.stream])
      BY <1>1 DEF AuditTypeOK, LogInOrder
    <2>2. e.id = a /\ e.previous = r.previous
      BY <1>2
    <2>3. a \notin IdsOf(log[r.stream])
      BY <1>0, <1>1 DEF LogInOrder, IdsOf
    <2> QED BY <1>1, <1>4, <2>1, <2>2, <2>3, ChainGrows
  <1>10. LogInOrder'
    <2> SUFFICES ASSUME NEW s \in Streams
                 PROVE  /\ Chained(log'[s])
                        /\ \A f \in log'[s] :
                              /\ f.id \in Appends => append'[f.id].pc = "done"
                              /\ f.id = ArchiveNote => job.pc \in {"ready", "done"}
                              /\ f.id = ReadyNote => job.pc = "done"
      BY <1>3 DEF LogInOrder
    <2>1. Chained(log'[s])
      BY <1>4, <1>9 DEF LogInOrder
    <2>2. \A f \in log[s] :
                              /\ f.id \in Appends => append'[f.id].pc = "done"
                              /\ f.id = ArchiveNote => job.pc \in {"ready", "done"}
                              /\ f.id = ReadyNote => job.pc = "done"
      BY <1>6, <1>7 DEF LogInOrder
    <2>3. e.id = a /\ a # ArchiveNote /\ a # ReadyNote
      BY <1>2, AuditAssumption
    <2>4. log'[s] \subseteq log[s] \cup {e}
      BY <1>4
    <2> QED BY <1>6, <1>7, <2>1, <2>2, <2>3, <2>4
  <1>11. LocksHeld'
    <2>1. \A b \in Appends \ {a} : Locks(b) => append[b].stream # r.stream
      BY <1>0, <1>1 DEF LocksHeld, Locks
    <2> QED BY <1>3, <1>4, <1>6, <1>7, <2>1 DEF LocksHeld, Locks
  <1>12. ArchiveInStep'
    <2>1. CASE job.pc = "list" /\ r.stream = JobStream
      BY <1>3, <2>1 DEF ArchiveInStep, Overruns
    <2>2. CASE job.pc # "list" \/ r.stream # JobStream
      <3>1. overrun' = overrun
        BY <1>3, <2>2 DEF Overruns, AuditTypeOK
      <3>2. job.pc = "list" => log'[JobStream] = log[JobStream]
        BY <1>4, <2>2, AuditAssumption
      <3> QED BY <1>3, <3>1, <3>2 DEF ArchiveInStep
    <2> QED BY <2>1, <2>2
  <1> QED BY <1>8, <1>10, <1>11, <1>12

\* A step of the job that appends nothing.
LEMMA JobQuietStep ==
    ASSUME AuditInv, NEW r \in Job, JobStep(r), UNCHANGED log,
           job.pc \in {"ready", "done"} => r.pc = "done",
           archived' \subseteq Ids, overrun' \in BOOLEAN, ArchiveInStep'
    PROVE  AuditInv'
  <1> USE DEF AuditInv
  <1>1. job' = r /\ UNCHANGED <<now, chainLock, append, policy>>
    BY DEF JobStep
  <1>2. AuditTypeOK'
    BY <1>1 DEF AuditTypeOK
  <1>3. LogInOrder'
    BY <1>1 DEF LogInOrder
  <1>4. LocksHeld'
    BY <1>1 DEF LocksHeld, Locks
  <1> QED BY <1>2, <1>3, <1>4

\* The steps of the job up to its plan keep the audit invariant.
LEMMA PlanSteps ==
    ASSUME AuditInv, VerifyChain \/ ReadPolicy \/ PlanRetention
    PROVE  AuditInv'
  <1> USE DEF AuditInv
  <1>0. PICK j \in Job : j = job
    BY DEF AuditTypeOK
  <1>1. archived \subseteq Ids /\ overrun \in BOOLEAN /\ now \in Nat
    BY ClockAssumption DEF AuditTypeOK
  <1>2. ASSUME JobSkips, job.pc \notin {"ready", "done"}
        PROVE  AuditInv'
    <2>1. PICK r \in Job : r = [j EXCEPT !.pc = "skipped"]
      BY DEF Job, JobSteps
    <2>2. r.pc = "skipped" /\ JobStep(r) /\ UNCHANGED <<log, archived, overrun>> /\ job' = r
      BY <1>0, <1>2, <2>1 DEF JobSkips, JobStep, Job
    <2>3. ArchiveInStep'
      BY <2>2 DEF ArchiveInStep
    <2> QED BY <1>1, <1>2, <2>2, <2>3, JobQuietStep
  <1>3. CASE VerifyChain /\ ~JobSkips
    <2>1. j.pc = "idle" /\ JobStep([j EXCEPT !.pc = "config", !.at = now])
          /\ UNCHANGED <<log, archived, overrun>>
      BY <1>0, <1>3 DEF VerifyChain
    <2>2. PICK r \in Job : r = [j EXCEPT !.pc = "config", !.at = now]
      BY <1>1 DEF Job, JobSteps
    <2>3. r.pc = "config" /\ JobStep(r) /\ job' = r
      BY <2>1, <2>2 DEF JobStep, Job
    <2>4. ArchiveInStep'
      BY <2>3 DEF ArchiveInStep
    <2> QED BY <1>0, <1>1, <2>1, <2>3, <2>4, JobQuietStep
  <1>4. CASE ReadPolicy /\ ~JobSkips
    <2>1. j.pc = "config" /\ JobStep([j EXCEPT !.pc = "events", !.hold = policy = "hold"])
          /\ UNCHANGED <<log, archived, overrun>>
      BY <1>0, <1>4 DEF ReadPolicy
    <2>2. PICK r \in Job : r = [j EXCEPT !.pc = "events", !.hold = policy = "hold"]
      BY DEF Job, JobSteps
    <2>3. r.pc = "events" /\ JobStep(r) /\ job' = r
      BY <2>1, <2>2 DEF JobStep, Job
    <2>4. ArchiveInStep'
      BY <2>3 DEF ArchiveInStep
    <2> QED BY <1>0, <1>1, <2>1, <2>3, <2>4, JobQuietStep
  <1>5. CASE PlanRetention /\ ~JobSkips
    <2> DEFINE n == Cardinality(log[JobStream])
               next == IF j.archive THEN "list" ELSE "ready"
    <2>1. /\ j.pc = "events" /\ UNCHANGED <<log, archived>> /\ overrun' = (n > ListCap)
          /\ JobStep([j EXCEPT !.pc = next, !.expired = Expired, !.checked = n])
      BY <1>0, <1>5 DEF PlanRetention
    <2>2. n \in Nat /\ ListCap \in Nat
      BY AuditAssumption, FS_CardinalityType DEF LogInOrder, Chained
    <2>3. Expired \subseteq IdsOf(log[JobStream]) /\ Expired \subseteq Ids
      <3>1. log[JobStream] \subseteq Event
        BY AuditAssumption DEF AuditTypeOK
      <3> QED BY <3>1 DEF Expired, IdsOf, Event
    <2> HIDE DEF n, next
    <2>4. next \in {"list", "ready"} /\ (next = "ready" => ~j.archive)
      BY DEF next
    <2>5. PICK r \in Job : r = [j EXCEPT !.pc = next, !.expired = Expired, !.checked = n]
      BY <2>2, <2>3, <2>4 DEF Job, JobSteps
    <2>6. /\ r.pc = next /\ r.expired = Expired /\ r.checked = n /\ r.archive = j.archive
          /\ JobStep(r) /\ job' = r
      BY <2>1, <2>5 DEF JobStep, Job
    <2>7. ArchiveInStep'
      <3>1. ~overrun' => ~(n > ListCap)
        BY <2>1, Zenon
      <3>2. ~(n > ListCap) => n <= ListCap
        BY <2>2
      <3> QED BY <2>1, <2>3, <2>4, <2>6, <3>1, <3>2 DEF ArchiveInStep, n
    <2> QED BY <1>0, <1>1, <2>1, <2>6, <2>7, JobQuietStep
  <1> QED BY <1>2, <1>3, <1>4, <1>5 DEF VerifyChain, ReadPolicy, PlanRetention

\* Where nothing was appended since the plan, and the stream is no longer than
\* one list, the archive lists all of it.
LEMMA ListStep ==
    ASSUME AuditInv, ListNewest
    PROVE  AuditInv'
  <1> USE DEF AuditInv
  <1>0. PICK j \in Job : j = job
    BY DEF AuditTypeOK
  <1>1. /\ archived \subseteq Ids /\ overrun \in BOOLEAN /\ j.pc = "list"
        /\ UNCHANGED <<log, archived, overrun>>
    BY <1>0 DEF AuditTypeOK, ListNewest, JobSkips
  <1> DEFINE es == log[JobStream]
  <1>2. IsFiniteSet(es) /\ es \subseteq Event /\ Cardinality(es) \in Nat /\ ListCap \in Nat
    BY AuditAssumption, FS_CardinalityType DEF LogInOrder, Chained, AuditTypeOK
  <1>3. CASE es = {}
    <2>1. PICK r \in Job : r = [j EXCEPT !.pc = "skipped"]
      BY DEF Job, JobSteps
    <2>2. r.pc = "skipped" /\ JobStep(r) /\ job' = r
      BY <1>0, <1>3, <2>1 DEF ListNewest, JobSkips, JobStep, Job
    <2>3. ArchiveInStep'
      BY <2>2 DEF ArchiveInStep
    <2> QED BY <1>0, <1>1, <2>2, <2>3, JobQuietStep
  <1>4. CASE es # {}
    <2>1. PICK body \in kSubset(Min({ArchiveLimit, ListCap, Cardinality(es)}), es) :
            JobStep([j EXCEPT !.pc = "put", !.body = {e.id : e \in body}])
      BY <1>0, <1>4 DEF ListNewest
    <2>2. body \subseteq es /\ Cardinality(body) = Min({j.checked, ListCap, Cardinality(es)})
      BY <1>0, <2>1 DEF kSubset, ArchiveLimit
    <2>3. IdsOf(body) \subseteq Ids
      BY <1>2, <2>2 DEF IdsOf, Event
    <2>4. PICK r \in Job : r = [j EXCEPT !.pc = "put", !.body = IdsOf(body)]
      BY <2>3 DEF Job, JobSteps
    <2>5. /\ r.pc = "put" /\ r.body = IdsOf(body) /\ r.expired = j.expired
          /\ JobStep(r) /\ job' = r
      BY <2>1, <2>4 DEF JobStep, Job, IdsOf
    <2>6. ~overrun => j.expired \subseteq IdsOf(body)
      <3> SUFFICES ASSUME ~overrun PROVE j.expired \subseteq IdsOf(body)
        OBVIOUS
      <3>1. /\ j.expired \subseteq IdsOf(es) /\ j.checked = Cardinality(es)
            /\ j.checked <= ListCap
        BY <1>0, <1>1 DEF ArchiveInStep
      <3>2. Min({Cardinality(es), ListCap, Cardinality(es)}) = Cardinality(es)
        <4> DEFINE c == Cardinality(es)
        <4> HIDE DEF c
        <4>1. c \in Nat /\ ListCap \in Nat /\ c <= ListCap
          BY <1>2, <3>1 DEF c
        <4>2. Min({c, ListCap, c}) = c
          BY <4>1 DEF Min
        <4> QED BY <4>2 DEF c
      <3>3. body = es
        BY <1>2, <2>2, <3>1, <3>2, FS_Subset
      <3> QED BY <3>1, <3>3
    <2>7. ArchiveInStep'
      BY <1>1, <2>5, <2>6 DEF ArchiveInStep
    <2> QED BY <1>0, <1>1, <2>5, <2>7, JobQuietStep
  <1> QED BY <1>3, <1>4

\* Writing the archive keeps the audit invariant.
LEMMA PutStep ==
    ASSUME AuditInv, PutArchive
    PROVE  AuditInv'
  <1> USE DEF AuditInv
  <1>0. PICK j \in Job : j = job
    BY DEF AuditTypeOK
  <1>1. /\ archived \subseteq Ids /\ overrun \in BOOLEAN /\ j.pc = "put"
        /\ j.body \subseteq Ids /\ UNCHANGED <<log, overrun>>
    BY <1>0 DEF AuditTypeOK, PutArchive, Job
  <1>2. PICK pc \in {"note", "skipped"} :
          /\ JobStep([j EXCEPT !.pc = pc]) /\ archived' \in {archived, archived \cup j.body}
          /\ pc = "note" => archived' = archived \cup j.body
    BY <1>0 DEF PutArchive
  <1>3. PICK r \in Job : r = [j EXCEPT !.pc = pc]
    BY DEF Job, JobSteps
  <1>4. r.pc = pc /\ r.expired = j.expired /\ JobStep(r) /\ job' = r
    BY <1>2, <1>3 DEF JobStep, Job
  <1>5. ArchiveInStep'
    BY <1>0, <1>1, <1>2, <1>4 DEF ArchiveInStep
  <1> QED BY <1>0, <1>1, <1>2, <1>4, <1>5, JobQuietStep

\* The job's own appends wait for the row like any other.
LEMMA NoteStep ==
    ASSUME AuditInv, NEW id, NEW pc, JobAppends(id, pc),
           \/ id = ArchiveNote /\ job.pc = "note" /\ pc = "ready"
           \/ id = ReadyNote /\ job.pc = "ready" /\ pc = "done"
    PROVE  AuditInv'
  <1> USE DEF AuditInv
  <1>0. PICK j \in Job : j = job
    BY DEF AuditTypeOK
  <1>1. /\ JobStream \in Streams /\ JobStream \notin chainLock /\ id \in Ids /\ j.at \in Nat
        /\ id \notin Appends /\ ArchiveNote # ReadyNote
        /\ UNCHANGED <<now, chainLock, append, policy, archived, overrun>>
    BY AuditAssumption DEF JobAppends, JobStep, Ids, Job
  <1>2. PICK h \in PreviousHashes(JobStream) : log' = Inserted(JobStream, id, j.at, h)
    BY <1>0 DEF JobAppends
  <1>3. /\ log[JobStream] \in SUBSET Event /\ Chained(log[JobStream])
        /\ Follows(log[JobStream], h) /\ h \in Ids \cup {NoHash}
    BY <1>1, TailFollows DEF AuditTypeOK, LogInOrder
  <1>4. PICK e \in Event : e = [id |-> id, created |-> j.at, previous |-> h]
    BY <1>1, <1>3 DEF Event
  <1>5. e.id = id /\ e.previous = h
    BY <1>4
  <1>6. /\ log' \in [Streams -> SUBSET Event] /\ log'[JobStream] = log[JobStream] \cup {e}
        /\ \A s \in Streams : s # JobStream => log'[s] = log[s]
    BY <1>1, <1>2, <1>4 DEF AuditTypeOK, Inserted
  <1>7. PICK r \in Job : r = [j EXCEPT !.pc = pc]
    BY DEF Job, JobSteps
  <1>8. r.pc = pc /\ r.expired = j.expired /\ r.archive = j.archive /\ job' = r
    BY <1>0, <1>7 DEF JobAppends, JobStep, Job
  <1>9. id \notin IdsOf(log[JobStream])
    BY <1>1 DEF LogInOrder, IdsOf
  <1>10. Chained(log'[JobStream])
    BY <1>3, <1>5, <1>6, <1>9, ChainGrows
  <1>11. AuditTypeOK'
    BY <1>1, <1>6, <1>8 DEF AuditTypeOK
  <1>12. LogInOrder'
    <2> SUFFICES ASSUME NEW s \in Streams
                 PROVE  /\ Chained(log'[s])
                        /\ \A f \in log'[s] :
                              /\ f.id \in Appends => append[f.id].pc = "done"
                              /\ f.id = ArchiveNote => job'.pc \in {"ready", "done"}
                              /\ f.id = ReadyNote => job'.pc = "done"
      BY <1>1 DEF LogInOrder
    <2>1. Chained(log'[s])
      BY <1>6, <1>10 DEF LogInOrder
    <2>2. \A f \in log[s] :
                              /\ f.id \in Appends => append[f.id].pc = "done"
                              /\ f.id = ArchiveNote => job'.pc \in {"ready", "done"}
                              /\ f.id = ReadyNote => job'.pc = "done"
      BY <1>8 DEF LogInOrder
    <2>3. log'[s] \subseteq log[s] \cup {e}
      BY <1>6
    <2> QED BY <1>1, <1>5, <1>8, <2>1, <2>2, <2>3
  <1>13. LocksHeld'
    BY <1>1, <1>6 DEF LocksHeld, Locks
  <1>14. ArchiveInStep'
    BY <1>0, <1>1, <1>8 DEF ArchiveInStep
  <1> QED BY <1>11, <1>12, <1>13, <1>14

\* Noting the archive and reporting it keep the audit invariant.
LEMMA ReportSteps ==
    ASSUME AuditInv, NoteArchive \/ ReportReady
    PROVE  AuditInv'
  <1> USE DEF AuditInv
  <1>0. PICK j \in Job : j = job
    BY DEF AuditTypeOK
  <1>1. CASE \/ NoteArchive
             \/ ReportReady /\ JobAppends(ReadyNote, "done")
    BY <1>1, NoteStep DEF NoteArchive, ReportReady
  <1>2. CASE ReportReady /\ ~JobAppends(ReadyNote, "done")
    <2>1. /\ j.pc = "ready" /\ JobStep([j EXCEPT !.pc = "done"])
          /\ UNCHANGED <<log, archived, overrun>> /\ archived \subseteq Ids /\ overrun \in BOOLEAN
      BY <1>0, <1>2 DEF ReportReady, AuditTypeOK
    <2>2. PICK r \in Job : r = [j EXCEPT !.pc = "done"]
      BY DEF Job, JobSteps
    <2>3. /\ r.pc = "done" /\ r.expired = j.expired /\ r.archive = j.archive
          /\ JobStep(r) /\ job' = r
      BY <2>1, <2>2 DEF JobStep, Job
    <2>4. ArchiveInStep'
      BY <1>0, <2>1, <2>3 DEF ArchiveInStep
    <2> QED BY <2>1, <2>3, <2>4, JobQuietStep
  <1> QED BY <1>1, <1>2

\* An empty stream verifies.
LEMMA EmptyChain == Chained({})
  <1>1. IsFiniteSet({}) /\ Cardinality({}) = 0
    BY FS_EmptySet
  <1>2. PICK w : /\ IsWalk({}, 0, w)
                 /\ ChainValid({}) <=>
                       /\ \A e, f \in {} : e.previous = f.previous => e = f
                       /\ w[0] = {}
    BY <1>1, ChainWalk
  <1>3. w[0] = MetAfter({}, w, 0)
    BY <1>2, WalkUnfolds
  <1>4. w[0] = {}
    BY <1>3 DEF MetAfter
  <1> QED BY <1>1, <1>2, <1>4 DEF Chained

\* Chains, row locks and the archive fit together in every state.
THEOREM AuditInvariant == AuditSpec => []AuditInv
  <1>1. AuditInit => AuditInv
    <2> SUFFICES ASSUME AuditInit PROVE AuditInv
      OBVIOUS
    <2>1. job \in Job /\ job.pc = "idle"
      <3>1. PICK keep \in BOOLEAN :
              job = [pc |-> "idle", at |-> 0, archive |-> keep, hold |-> FALSE, expired |-> {},
                     checked |-> 0, body |-> {}]
        BY DEF AuditInit
      <3> QED BY <3>1 DEF Job, JobSteps
    <2>2. append \in [Appends -> Appending] /\ \A a \in Appends : append[a].pc = "idle"
      BY DEF AuditInit, Appending
    <2>3. AuditTypeOK
      <3>1. /\ now \in 0..MaxTime /\ log \in [Streams -> SUBSET Event] /\ chainLock \subseteq Streams
            /\ policy \in {"none", "days", "hold"} /\ archived \subseteq Ids
        BY ClockAssumption DEF AuditInit
      <3>2. overrun \in BOOLEAN
        BY DEF AuditInit
      <3> QED BY <2>1, <2>2, <3>1, <3>2 DEF AuditTypeOK
    <2>4. LogInOrder
      BY EmptyChain DEF AuditInit, LogInOrder
    <2> QED BY <2>1, <2>2, <2>3, <2>4 DEF AuditInv, LocksHeld, Locks, ArchiveInStep
  <1>2. AuditInv /\ [AuditNext]_auditVars => AuditInv'
    <2> SUFFICES ASSUME AuditInv, [AuditNext]_auditVars PROVE AuditInv'
      OBVIOUS
    <2>1. ASSUME UNCHANGED <<log, chainLock, append, job, archived, overrun>>,
                 now' \in 0..MaxTime, policy' \in {"none", "days", "hold"}
          PROVE  AuditInv'
      BY <2>1 DEF AuditInv, AuditTypeOK, LogInOrder, LocksHeld, Locks, ArchiveInStep
    <2>2. CASE UNCHANGED auditVars
      BY <2>1, <2>2 DEF auditVars, AuditInv, AuditTypeOK
    <2>3. CASE SetPolicy
      BY <2>1, <2>3 DEF SetPolicy, AuditInv, AuditTypeOK
    <2>4. CASE AuditTick
      BY <2>1, <2>4, ClockAssumption DEF AuditTick, Tick, AuditInv, AuditTypeOK
    <2> QED BY <2>2, <2>3, <2>4, StatementSteps, CommitStep, PlanSteps, ListStep, PutStep,
               ReportSteps
            DEF AuditNext
  <1> QED BY <1>1, <1>2, PTL DEF AuditSpec

\* However many appends overlap, and in whatever order of their times, every
\* stream passes verify_audit_chain_linked (models/audit.rs).
THEOREM ChainsVerify == AuditSpec => [](AuditTypeOK /\ EveryChainVerifies)
  <1>1. AuditInv => AuditTypeOK /\ EveryChainVerifies
    BY DEF AuditInv, LogInOrder, Chained, EveryChainVerifies
  <1> QED BY <1>1, AuditInvariant, PTL

\* The retention job (worker audit.rs) reports an event ready to purge only
\* when it is archived, for streams of any length the archive can list.
THEOREM PurgeReadyIsArchived == AuditSpec => []PurgeReadyIsArchivedUndisturbed
  <1>1. AuditInv => PurgeReadyIsArchivedUndisturbed
    BY DEF AuditInv, ArchiveInStep, PurgeReadyIsArchivedUndisturbed
  <1> QED BY <1>1, AuditInvariant, PTL
=============================================================================
