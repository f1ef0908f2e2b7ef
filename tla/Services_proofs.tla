--------------------------- MODULE Services_proofs ---------------------------
(***************************************************************************)
(* Proofs about the replay caches, an account's mails, an access request,  *)
(* PEP decisions and a relation check: each for any number of its calls    *)
(* and any values of its limits and lifetimes; and that a behaviour of     *)
(* MCServices is one of the component it is a part of.                     *)
(***************************************************************************)
EXTENDS PolledGrant_proofs, Audit_proofs, MCServices, SequenceTheorems

-----------------------------------------------------------------------------
(* ReplayCache.  The jti of an accepted assertion stays until exp, because  *)
(* its lifetime is counted from an earlier clock than the insertion; a      *)
(* nonce is there only while no proof has got past it.                      *)

PastNonce(p) == presented[p].of = "proof" /\ presented[p].pc \in {"record", "accepted"}
AcceptedAssertion(p) == presented[p].of = "assertion" /\ presented[p].pc = "accepted"

OneProofPastNonce ==
    nonceRequired =>
        /\ \A p, q \in Presentations : PastNonce(p) /\ PastNonce(q) => p = q
        /\ nonceUntil # 0 => \A p \in Presentations : ~PastNonce(p)

JtiKept ==
    \A p \in Presentations :
        /\ presented[p].at <= now
        /\ presented[p].pc = "nonce" => presented[p].of = "proof"
        /\ presented[p].of = "assertion" /\ presented[p].pc = "record" =>
              presented[p].at < assertionExp
        /\ AcceptedAssertion(p) => jtiUntil["assertion"] >= assertionExp

OneAssertionInTime ==
    \A p, q \in Presentations :
        /\ AcceptedAssertion(p) /\ AcceptedAssertion(q)
        /\ presented[p].recorded < assertionExp /\ presented[q].recorded < assertionExp
        => p = q

ReplayInv ==
    /\ ReplayTypeOK /\ now \in 0..MaxTime
    /\ OneProofPastNonce /\ JtiKept /\ OneAssertionInTime

\* An entry's lifetime is a number, and an assertion's entry is there until exp.
LEMMA RecordLifetime ==
    ASSUME ReplayInv, NEW p \in Presentations, presented[p].pc = "record"
    PROVE  LET ttl == RecordTtl(presented[p].of, presented[p].at) IN
           /\ now + ttl \in Nat
           /\ presented[p].of = "assertion" => now + ttl >= assertionExp
  <1> DEFINE t == presented[p].at
  <1>1. t \in Nat /\ now \in Nat /\ t <= now /\ proofIat \in Nat /\ assertionExp \in Nat
        /\ JtiTtl \in Nat /\ presented[p].of \in Credential
    BY ReplayAssumption, ClockAssumption DEF ReplayInv, ReplayTypeOK, Presentation, JtiKept
  <1>2. CASE presented[p].of = "proof"
    BY <1>1, <1>2 DEF RecordTtl, Later
  <1>3. CASE presented[p].of = "assertion"
    <2>1. t < assertionExp
      BY <1>3 DEF ReplayInv, JtiKept
    <2> QED BY <1>1, <1>3, <2>1 DEF RecordTtl, Later
  <1> QED BY <1>1, <1>2, <1>3 DEF Credential

\* Checking a proof or an assertion keeps the replay invariant.
LEMMA CheckStep ==
    ASSUME ReplayInv, NEW p \in Presentations, CheckProof(p) \/ CheckAssertion(p)
    PROVE  ReplayInv'
  <1> USE DEF ReplayInv
  <1>1. UNCHANGED <<now, proofIat, assertionExp, nonceRequired, jtiUntil, nonceIssued, nonceUntil>>
    BY DEF CheckProof, CheckAssertion, claims, nonceEntry
  <1>2. presented[p] \in Presentation /\ presented[p].pc = "idle"
    BY DEF CheckProof, CheckAssertion, ReplayTypeOK
  <1>3. PICK c \in Credential, step \in {"refused", "nonce", "record"} :
          /\ presented' = [presented EXCEPT ![p] = [@ EXCEPT !.of = c, !.at = now, !.pc = step]]
          /\ c = "proof" /\ nonceRequired => step # "record"
          /\ c = "assertion" => step # "nonce"
          /\ c = "assertion" /\ step = "record" => now < assertionExp
    <2>1. CASE CheckProof(p)
      BY <2>1 DEF CheckProof, Credential
    <2>2. CASE CheckAssertion(p)
      <3>1. assertionExp \in Nat /\ now \in Nat
        BY ClockAssumption DEF ReplayTypeOK
      <3>2. PICK step \in {"refused", "record"} :
              /\ presented' = [presented EXCEPT ![p] =
                                 [@ EXCEPT !.of = "assertion", !.at = now, !.pc = step]]
              /\ step = "record" => ~(assertionExp <= now)
        BY <2>2 DEF CheckAssertion
      <3> USE DEF Credential
      <3> WITNESS "assertion" \in Credential, step \in {"refused", "nonce", "record"}
      <3> QED BY <3>1, <3>2
    <2> QED BY <2>1, <2>2
  <1> DEFINE new == [presented[p] EXCEPT !.of = c, !.at = now, !.pc = step]
  <1>4. new \in Presentation /\ new.of = c /\ new.at = now /\ new.pc = step
    BY <1>2 DEF Presentation
  <1>5. /\ presented' \in [Presentations -> Presentation] /\ presented'[p] = new
        /\ \A q \in Presentations : q # p => presented'[q] = presented[q]
    <2> HIDE DEF new
    <2> QED BY <1>3, <1>4 DEF ReplayTypeOK, new
  <1> HIDE DEF new
  <1>6. ReplayTypeOK'
    BY <1>1, <1>5 DEF ReplayTypeOK
  <1>7. OneProofPastNonce'
    BY <1>1, <1>3, <1>4, <1>5 DEF OneProofPastNonce, PastNonce
  <1>8. JtiKept'
    <2>1. now <= now
      BY ClockAssumption
    <2> QED BY <1>1, <1>3, <1>4, <1>5, <2>1 DEF JtiKept, AcceptedAssertion, Credential
  <1>9. OneAssertionInTime'
    BY <1>1, <1>3, <1>4, <1>5 DEF OneAssertionInTime, AcceptedAssertion
  <1> QED BY <1>1, <1>6, <1>7, <1>8, <1>9

\* Whoever takes the nonce is the only one past it.
LEMMA NonceStep ==
    ASSUME ReplayInv, NEW p \in Presentations, TakeNonce(p)
    PROVE  ReplayInv'
  <1> USE DEF ReplayInv
  <1>1. UNCHANGED <<now, proofIat, assertionExp, nonceRequired, jtiUntil, nonceIssued>> /\ nonceUntil' = 0
    BY DEF TakeNonce, Taken, claims
  <1>2. presented[p] \in Presentation /\ presented[p].pc = "nonce"
    BY DEF TakeNonce, ReplayTypeOK
  <1>3. PICK step \in {"refused", "record"} :
          /\ presented' = [presented EXCEPT ![p].pc = step]
          /\ step = "record" => nonceUntil > now
    BY DEF TakeNonce, Present
  <1> DEFINE new == [presented[p] EXCEPT !.pc = step]
  <1>4. /\ new \in Presentation /\ new.of = presented[p].of /\ new.at = presented[p].at
        /\ new.pc = step
    BY <1>2 DEF Presentation
  <1>5. /\ presented' \in [Presentations -> Presentation] /\ presented'[p] = new
        /\ \A q \in Presentations : q # p => presented'[q] = presented[q]
    BY <1>3, <1>4 DEF ReplayTypeOK
  <1> HIDE DEF new
  <1>6. ReplayTypeOK'
    BY <1>1, <1>5 DEF ReplayTypeOK
  <1>7. step = "record" => nonceUntil # 0
    BY <1>3, ClockAssumption DEF ReplayTypeOK
  <1>8. OneProofPastNonce'
    BY <1>1, <1>3, <1>4, <1>5, <1>7 DEF OneProofPastNonce, PastNonce
  <1>9. JtiKept'
    BY <1>1, <1>2, <1>4, <1>5 DEF JtiKept, AcceptedAssertion
  <1>10. OneAssertionInTime'
    BY <1>1, <1>2, <1>3, <1>4, <1>5 DEF OneAssertionInTime, AcceptedAssertion, JtiKept
  <1> QED BY <1>1, <1>6, <1>8, <1>9, <1>10

\* An accepted assertion finds no live entry: no other was accepted that
\* could still be in time.
LEMMA RecordStep ==
    ASSUME ReplayInv, NEW p \in Presentations, RecordJti(p)
    PROVE  ReplayInv'
  <1> USE DEF ReplayInv
  <1> DEFINE c == presented[p].of
  <1>1. UNCHANGED <<now, proofIat, assertionExp, nonceRequired, nonceIssued, nonceUntil>>
    BY DEF RecordJti, claims, nonceEntry
  <1>2. presented[p] \in Presentation /\ presented[p].pc = "record" /\ c \in Credential
    BY DEF RecordJti, ReplayTypeOK, Presentation
  <1>3. /\ jtiUntil["assertion"] \in Nat /\ assertionExp \in Nat /\ now \in Nat
        /\ \A q \in Presentations : presented[q].recorded \in Nat
    BY ClockAssumption DEF ReplayTypeOK, Credential, Presentation
  <1>4. CASE Present(p, "refused") /\ UNCHANGED jtiUntil
    <2> DEFINE new == [presented[p] EXCEPT !.pc = "refused"]
    <2>1. new \in Presentation /\ new.of = c /\ new.at = presented[p].at /\ new.pc = "refused"
      BY <1>2 DEF Presentation
    <2>2. /\ presented' \in [Presentations -> Presentation] /\ presented'[p] = new
          /\ \A q \in Presentations : q # p => presented'[q] = presented[q]
      BY <1>4, <2>1 DEF ReplayTypeOK, Present
    <2> HIDE DEF new
    <2> QED
      BY <1>1, <1>2, <1>4, <2>1, <2>2
      DEF ReplayTypeOK, OneProofPastNonce, PastNonce, JtiKept, AcceptedAssertion, OneAssertionInTime
  <1>5. CASE /\ presented' = [presented EXCEPT ![p] = [@ EXCEPT !.pc = "accepted", !.recorded = now]]
             /\ jtiUntil' = [jtiUntil EXCEPT ![c] = now + RecordTtl(c, presented[p].at)]
             /\ ~(jtiUntil[c] > now)
    <2> DEFINE new == [presented[p] EXCEPT !.pc = "accepted", !.recorded = now]
               until == now + RecordTtl(c, presented[p].at)
    <2>1. /\ new \in Presentation /\ new.of = c /\ new.at = presented[p].at
          /\ new.pc = "accepted" /\ new.recorded = now
      BY <1>2 DEF Presentation
    <2>2. /\ presented' \in [Presentations -> Presentation] /\ presented'[p] = new
          /\ \A q \in Presentations : q # p => presented'[q] = presented[q]
      <3> HIDE DEF new
      <3> QED BY <1>5, <2>1 DEF ReplayTypeOK, new
    <2>3. until \in Nat /\ (c = "assertion" => until >= assertionExp)
      BY <1>2, RecordLifetime
    <2> HIDE DEF new, until
    <2>4. jtiUntil' = [jtiUntil EXCEPT ![c] = until] /\ jtiUntil' \in [Credential -> Nat]
      BY <1>5, <2>3 DEF until, ReplayTypeOK
    <2>5. ReplayTypeOK'
      BY <1>1, <2>2, <2>4 DEF ReplayTypeOK
    <2>6. OneProofPastNonce'
      BY <1>1, <1>2, <2>1, <2>2 DEF OneProofPastNonce, PastNonce
    <2>7. jtiUntil'["assertion"] = IF c = "assertion" THEN until ELSE jtiUntil["assertion"]
      BY <1>2, <2>4 DEF ReplayTypeOK, Credential
    <2>8. JtiKept'
      BY <1>1, <1>2, <2>1, <2>2, <2>3, <2>7 DEF JtiKept, AcceptedAssertion
    <2>9. OneAssertionInTime'
      <3>1. ASSUME c = "assertion", now < assertionExp, NEW q \in Presentations, q # p
            PROVE  ~AcceptedAssertion(q)
        BY <1>3, <1>5, <3>1 DEF JtiKept
      <3> QED BY <1>1, <2>1, <2>2, <3>1 DEF OneAssertionInTime, AcceptedAssertion
    <2> QED BY <1>1, <2>5, <2>6, <2>8, <2>9
  <1> QED BY <1>4, <1>5 DEF RecordJti

\* A new nonce, the clock and stuttering keep the replay invariant.
LEMMA ReplayOtherSteps ==
    ASSUME ReplayInv, IssueNonce \/ ReplayTick \/ UNCHANGED replayVars
    PROVE  ReplayInv'
  <1> USE DEF ReplayInv
  <1>1. CASE IssueNonce
    <2>1. UNCHANGED <<now, proofIat, assertionExp, nonceRequired, jtiUntil, presented>>
      BY <1>1 DEF IssueNonce, claims
    <2>2. ReplayTypeOK'
      BY <1>1, <2>1, ReplayAssumption, ClockAssumption DEF IssueNonce, ReplayTypeOK
    <2>3. OneProofPastNonce'
      BY <1>1, <2>1 DEF IssueNonce, OneProofPastNonce, PastNonce
    <2> QED BY <2>1, <2>2, <2>3 DEF JtiKept, OneAssertionInTime, AcceptedAssertion
  <1>2. CASE ReplayTick
    <2>1. UNCHANGED <<proofIat, assertionExp, nonceRequired, jtiUntil, nonceIssued, nonceUntil, presented>>
      BY <1>2 DEF ReplayTick, claims, nonceEntry
    <2>2. now' = now + 1 /\ now' \in 0..MaxTime
      BY <1>2, ClockAssumption DEF ReplayTick, Tick
    <2>3. JtiKept'
      <3>1. \A p \in Presentations : presented[p].at \in Nat
        BY ClockAssumption DEF ReplayTypeOK, Presentation
      <3> QED BY <2>1, <2>2, <3>1 DEF JtiKept, AcceptedAssertion
    <2> QED
      BY <2>1, <2>2, <2>3
      DEF ReplayTypeOK, OneProofPastNonce, PastNonce, OneAssertionInTime, AcceptedAssertion
  <1>3. CASE UNCHANGED replayVars
    BY <1>3 DEF replayVars, claims, nonceEntry, ReplayTypeOK, OneProofPastNonce, PastNonce, JtiKept,
                OneAssertionInTime, AcceptedAssertion
  <1> QED BY <1>1, <1>2, <1>3

\* The replay invariant holds at the start.
LEMMA ReplayStart == ASSUME ReplayInit PROVE ReplayInv
  <1>1. ReplayTypeOK
    BY ReplayAssumption, ClockAssumption
    DEF ReplayInit, ReplayTypeOK, Presentation, Credential
  <1> QED
    BY <1>1, ClockAssumption
    DEF ReplayInit, ReplayInv, OneProofPastNonce, PastNonce, JtiKept, OneAssertionInTime, AcceptedAssertion

\* The inductive invariant of the replay state: an accepted claim is still
\* remembered for as long as it would be accepted (cache.rs, dpop/validate.rs).
THEOREM ReplayInvariant == ReplaySpec => []ReplayInv
  <1>1. ASSUME ReplayInv, [ReplayNext]_replayVars PROVE ReplayInv'
    BY <1>1, CheckStep, NonceStep, RecordStep, ReplayOtherSteps DEF ReplayNext
  <1> QED BY <1>1, ReplayStart, PTL DEF ReplaySpec

\* record_assertion_jti and consume_nonce: an assertion in time, or a proof
\* where a nonce is required, is accepted at most once.
THEOREM ReplayRefused == ReplaySpec => []ReplayIsRefused
  <1>1. ReplayInv => ReplayIsRefused
    BY DEF ReplayInv, ReplayIsRefused, AcceptedTwice, OneProofPastNonce, PastNonce,
           OneAssertionInTime, AcceptedAssertion
  <1> QED BY <1>1, ReplayInvariant, PTL

-----------------------------------------------------------------------------
(* AccessRequest.  A rejection that is stored stays stored, so a call that  *)
(* began after one validates against it; a grant's member is never free     *)
(* again, so what a review has listed is never granted anew.                *)

Validating ==
    [pc: {"list", "store", "status", "grant"}, seen: Statuses, at: Nat,
     own: SUBSET Approval, issue: BOOLEAN, verdict: Verdicts \cup {"none"},
     afterRejection: BOOLEAN]
Elevating == [pc: {"jitList", "jit"}, afterRejection: BOOLEAN]

CallsRespectRejection ==
    \A c \in Requesters : LET r == approving[c] IN
        /\ r.pc \notin {"idle", "done"} /\ r.afterRejection => RejectionStored
        /\ r.pc = "status" => r.verdict \in Verdicts
        /\ r.pc = "grant" => r.verdict = "approved"
        /\ r.pc \in {"store", "status", "grant"} /\ r.afterRejection => r.verdict # "approved"
        /\ r.pc = "jit" => ~r.afterRejection

NothingAfterRejection == \A g \in grants \cup privileges : ~g.afterRejection
MemberGrantedOnce == \A g, h \in grants : g.member = h.member => g = h
ReviewsProgress ==
    \A v \in Reviews :
        /\ review[v].listed \subseteq {NameOf(g) : g \in grants}
        /\ review[v].pc \in {"revoke", "recorded"} =>
              \A g \in grants : NameOf(g) \in review[v].listed \ review[v].todo => g.revoked
        /\ review[v].pc = "recorded" => review[v].todo = {}

AccessInv ==
    /\ AccessTypeOK /\ CallsRespectRejection
    /\ NothingAfterRejection /\ MemberGrantedOnce /\ ReviewsProgress

\* The access invariant holds at the start.
LEMMA AccessStart == ASSUME AccessInit PROVE AccessInv
  BY ClockAssumption
  DEF AccessInit, AccessInv, AccessTypeOK, Statuses, Approving, Review, CallsRespectRejection,
      NothingAfterRejection, MemberGrantedOnce, ReviewsProgress

\* A call's state is of one of the three shapes, told apart by its step.
LEMMA CallShapes ==
    ASSUME AccessTypeOK, NEW c \in Requesters
    PROVE  /\ approving[c].pc \in {"list", "store", "status", "grant"} => approving[c] \in Validating
           /\ approving[c].pc \in {"jitList", "jit"} => approving[c] \in Elevating
  BY DEF AccessTypeOK, Approving, Validating, Elevating

\* The shapes a call has on its way are calls.
LEMMA ShapesAreCalls == Validating \cup Elevating \cup [pc: {"idle", "done"}] \subseteq Approving
  BY DEF Approving, Validating, Elevating

\* Facts about a call's new state are enough when the grants stand.
LEMMA CallMoves ==
    ASSUME AccessInv, NEW c \in Requesters, NEW r \in Approving, ApprovingIs(c, r),
           approvals \subseteq approvals', approvals' \subseteq Approval,
           status' \in Statuses,
           UNCHANGED <<now, grants, privileges, review>>,
           r.pc \notin {"idle", "done"} /\ r.afterRejection => RejectionStored',
           r.pc = "status" => r.verdict \in Verdicts,
           r.pc = "grant" => r.verdict = "approved",
           r.pc \in {"store", "status", "grant"} /\ r.afterRejection => r.verdict # "approved",
           r.pc = "jit" => ~r.afterRejection
    PROVE  AccessInv'
  <1> USE DEF AccessInv
  <1>1. approving' \in [Requesters -> Approving] /\ approving'[c] = r
    BY DEF ApprovingIs, AccessTypeOK
  <1>2. \A d \in Requesters : d # c => approving'[d] = approving[d]
    BY DEF ApprovingIs, AccessTypeOK
  <1>3. AccessTypeOK'
    BY <1>1 DEF AccessTypeOK
  <1>4. RejectionStored => RejectionStored'
    BY DEF RejectionStored
  <1>5. CallsRespectRejection'
    BY <1>1, <1>2, <1>4 DEF CallsRespectRejection
  <1> QED
    BY <1>3, <1>5 DEF NothingAfterRejection, MemberGrantedOnce, ReviewsProgress

\* A call that ends, with or without a status write, keeps the access invariant.
LEMMA CallStops ==
    ASSUME AccessInv, NEW c \in Requesters, ApprovingEnds(c),
           approvals \subseteq approvals', approvals' \subseteq Approval, status' \in Statuses,
           UNCHANGED <<now, grants, privileges, review>>
    PROVE  AccessInv'
  <1>1. [pc |-> "done"] \in Approving
    BY DEF Approving
  <1> QED BY <1>1, CallMoves DEF ApprovingEnds

\* What GoesOn leads to keeps the call's record but for its step.
LEMMA GoesOnMoves ==
    ASSUME AccessInv, NEW c \in Requesters, NEW r \in Validating, NEW steps, GoesOn(c, r, steps),
           approvals \subseteq approvals', approvals' \subseteq Approval, status' \in Statuses,
           UNCHANGED <<now, grants, privileges, review>>,
           r.afterRejection => RejectionStored' /\ r.verdict # "approved"
    PROVE  AccessInv'
  <1> DEFINE next == NextStep(r, steps)
             new == [r EXCEPT !.pc = next]
  <1>1. next \in {"store", "status", "grant", "done"}
    BY DEF NextStep
  <1>2. /\ next = "grant" => r.verdict = "approved"
        /\ next = "status" => r.verdict \in Verdicts
    BY DEF NextStep, Validating
  <1>3. CASE next = "done"
    BY <1>3, CallStops DEF GoesOn
  <1>4. CASE next # "done"
    <2>1. ApprovingIs(c, new)
      BY <1>4 DEF GoesOn
    <2> HIDE DEF next
    <2>2. /\ new \in Validating /\ new.pc = next /\ new.verdict = r.verdict
          /\ new.afterRejection = r.afterRejection
      BY <1>1, <1>4 DEF Validating
    <2> HIDE DEF new
    <2>3. new \in Approving
      BY <2>2, ShapesAreCalls
    <2> QED BY <1>1, <1>2, <1>4, <2>1, <2>2, <2>3, CallMoves
  <1> QED BY <1>3, <1>4

\* A stored rejection keeps a validation from approving.
LEMMA RejectedVerdict ==
    ASSUME NEW list, NEW t, \E a \in list : a.decision = "rejected"
    PROVE  Verdict(list, t) = "rejected" /\ ~Valid(list, t)
  BY DEF Verdict, Valid

\* A verdict is approved, rejected or none.
LEMMA VerdictType == ASSUME NEW list, NEW t PROVE Verdict(list, t) \in Verdicts \cup {"none"}
  BY DEF Verdict, Verdicts

\* The steps of an approval up to its status write keep the access invariant.
LEMMA ValidationSteps ==
    ASSUME AccessInv, NEW c \in Requesters,
           ReadRequest(c) \/ ListApprovals(c) \/ StoreApproval(c) \/ UpdateStatus(c)
    PROVE  AccessInv'
  <1> USE DEF AccessInv
  <1> DEFINE r == approving[c]
  <1>1. CASE ReadRequest(c)
    <2>1. PICK issue \in BOOLEAN, own \in SUBSET Approval :
            ApprovingIs(c, [pc |-> "list", seen |-> status, at |-> now, own |-> own,
                            issue |-> issue, verdict |-> "none",
                            afterRejection |-> RejectionStored])
      <3>1. \A l \in Lifetimes : now + l \in Nat
        BY AccessAssumption, ClockAssumption DEF AccessTypeOK
      <3>2. now \in Nat
        BY ClockAssumption DEF AccessTypeOK
      <3>3. \A by \in Approvers : [id: {c}, by: {by}, decision: Verdicts, at: {now},
                                  until: {now + l : l \in Lifetimes}] \subseteq Approval
        BY <3>1, <3>2 DEF Approval
      <3> QED BY <1>1, <3>3 DEF ReadRequest
    <2> DEFINE new == [pc |-> "list", seen |-> status, at |-> now, own |-> own, issue |-> issue,
                       verdict |-> "none", afterRejection |-> RejectionStored]
    <2>2. RejectionStored \in BOOLEAN /\ now \in Nat
      BY ClockAssumption DEF RejectionStored, AccessTypeOK
    <2>3. /\ new \in Validating /\ new.pc = "list" /\ new.afterRejection = RejectionStored
      BY <2>2 DEF Validating, AccessTypeOK, Verdicts
    <2>4. UNCHANGED <<now, status, approvals, grants, privileges, review>>
      BY <1>1 DEF ReadRequest
    <2>5. RejectionStored' <=> RejectionStored
      BY <2>4 DEF RejectionStored
    <2> HIDE DEF new
    <2>6. new \in Approving /\ ApprovingIs(c, new)
      BY <2>1, <2>3, ShapesAreCalls DEF new
    <2> QED BY <2>3, <2>4, <2>5, <2>6, CallMoves DEF AccessTypeOK
  <1>2. CASE ListApprovals(c)
    <2>1. r.pc = "list" /\ r \in Validating
      BY <1>2, CallShapes DEF ListApprovals
    <2>2. UNCHANGED <<now, status, approvals, grants, privileges, review>>
      BY <1>2 DEF ListApprovals
    <2> DEFINE v == Verdict(approvals \cup r.own, r.at)
               new == [r EXCEPT !.verdict = v]
    <2>3. v \in Verdicts \cup {"none"}
      BY VerdictType
    <2>4. RejectionStored => v = "rejected"
      BY RejectedVerdict DEF RejectionStored
    <2> HIDE DEF v
    <2>5. new \in Validating /\ new.verdict = v /\ new.afterRejection = r.afterRejection
      BY <2>1, <2>3 DEF Validating
    <2>6. r.afterRejection => RejectionStored /\ RejectionStored'
      BY <2>1, <2>2 DEF CallsRespectRejection, RejectionStored
    <2>7. CASE ApprovingEnds(c)
      BY <2>2, <2>7, CallStops DEF AccessTypeOK
    <2>8. CASE GoesOn(c, new, {"store", "status"})
      <3> HIDE DEF new
      <3> QED BY <2>2, <2>4, <2>5, <2>6, <2>8, GoesOnMoves DEF AccessTypeOK
    <2> QED BY <1>2, <2>7, <2>8 DEF ListApprovals, v
  <1>3. CASE StoreApproval(c)
    <2>1. r.pc = "store" /\ r \in Validating
      BY <1>3, CallShapes DEF StoreApproval
    <2>2. UNCHANGED <<now, status, grants, privileges, review>>
      BY <1>3 DEF StoreApproval
    <2>3. PICK a \in r.own :
            \/ approvals' = approvals \cup {a}
               /\ GoesOn(c, [r EXCEPT !.own = @ \ {a}], {"store", "status"})
            \/ approvals' \in {approvals, approvals \cup {a}} /\ ApprovingEnds(c)
      BY <1>3 DEF StoreApproval
    <2>4. approvals \subseteq approvals' /\ approvals' \subseteq Approval
      BY <2>1, <2>3 DEF AccessTypeOK, Validating
    <2>5. r.afterRejection => RejectionStored' /\ r.verdict # "approved"
      BY <2>1, <2>4 DEF CallsRespectRejection, RejectionStored
    <2> DEFINE new == [r EXCEPT !.own = @ \ {a}]
    <2>6. new \in Validating /\ new.verdict = r.verdict /\ new.afterRejection = r.afterRejection
      BY <2>1 DEF Validating
    <2>7. GoesOn(c, new, {"store", "status"}) \/ ApprovingEnds(c)
      BY <2>3
    <2> HIDE DEF new
    <2> QED BY <2>2, <2>4, <2>5, <2>6, <2>7, GoesOnMoves, CallStops DEF AccessTypeOK
  <1>4. CASE UpdateStatus(c)
    <2>1. r.pc = "status" /\ r \in Validating
      BY <1>4, CallShapes DEF UpdateStatus
    <2>2. UNCHANGED <<now, approvals, grants, privileges, review>>
      BY <1>4 DEF UpdateStatus
    <2>3. r.afterRejection => RejectionStored' /\ r.verdict # "approved"
      BY <2>1, <2>2 DEF CallsRespectRejection, RejectionStored
    <2>4. status' \in Statuses
      BY <1>4, <2>1 DEF UpdateStatus, CallsRespectRejection, AccessTypeOK, Verdicts, Statuses
    <2>5. GoesOn(c, r, {}) \/ ApprovingEnds(c)
      BY <1>4 DEF UpdateStatus
    <2> QED BY <2>1, <2>2, <2>3, <2>4, <2>5, GoesOnMoves, CallStops DEF AccessTypeOK
  <1> QED BY <1>1, <1>2, <1>3, <1>4

\* The steps that issue a privilege keep the access invariant.
LEMMA PrivilegeSteps ==
    ASSUME AccessInv, NEW c \in Requesters,
           ReadForPrivilege(c) \/ ListEvidence(c) \/ StorePrivilege(c)
    PROVE  AccessInv'
  <1> USE DEF AccessInv
  <1>1. CASE ReadForPrivilege(c)
    <2> DEFINE new == [pc |-> "jitList", afterRejection |-> RejectionStored]
    <2>1. UNCHANGED <<now, status, approvals, grants, privileges, review>> /\ ApprovingIs(c, new)
      BY <1>1 DEF ReadForPrivilege
    <2>2. RejectionStored \in BOOLEAN /\ (RejectionStored' <=> RejectionStored)
      BY <2>1 DEF RejectionStored
    <2>3. new \in Elevating /\ new.pc = "jitList" /\ new.afterRejection = RejectionStored
      BY <2>2 DEF Elevating
    <2> HIDE DEF new
    <2>4. new \in Approving
      BY <2>3, ShapesAreCalls
    <2> QED BY <2>1, <2>2, <2>3, <2>4, CallMoves DEF AccessTypeOK
  <1>2. CASE ListEvidence(c)
    <2>1. approving[c].pc = "jitList" /\ approving[c] \in Elevating
      BY <1>2, CallShapes DEF ListEvidence
    <2>2. UNCHANGED <<now, status, approvals, grants, privileges, review>>
      BY <1>2 DEF ListEvidence
    <2> DEFINE new == [approving[c] EXCEPT !.pc = "jit"]
    <2>3. /\ new \in Elevating /\ new.pc = "jit"
          /\ new.afterRejection = approving[c].afterRejection
      BY <2>1 DEF Elevating
    <2>4. ASSUME Evidence(approvals, now) PROVE ~approving[c].afterRejection
      <3>1. ~RejectionStored
        BY <2>4, RejectedVerdict DEF Evidence, RejectionStored
      <3> QED BY <2>1, <3>1 DEF CallsRespectRejection
    <2>5. CASE Evidence(approvals, now) /\ ApprovingIs(c, new)
      <3> HIDE DEF new
      <3>1. new \in Approving
        BY <2>3, ShapesAreCalls
      <3> QED BY <2>2, <2>3, <2>4, <2>5, <3>1, CallMoves DEF AccessTypeOK
    <2>6. CASE ApprovingEnds(c)
      BY <2>2, <2>6, CallStops DEF AccessTypeOK
    <2> QED BY <1>2, <2>5, <2>6 DEF ListEvidence
  <1>3. CASE StorePrivilege(c)
    <2>1. approving[c].pc = "jit" /\ approving[c] \in Elevating
      BY <1>3, CallShapes DEF StorePrivilege
    <2>2. UNCHANGED <<now, status, approvals, grants, review>> /\ ApprovingEnds(c)
      BY <1>3 DEF StorePrivilege
    <2> DEFINE new == [id |-> c, afterRejection |-> approving[c].afterRejection]
    <2>3. privileges' \subseteq privileges \cup {new}
      BY <1>3 DEF StorePrivilege
    <2>4. new \in [id: Requesters, afterRejection: BOOLEAN] /\ ~new.afterRejection
      BY <2>1 DEF Elevating, CallsRespectRejection
    <2> HIDE DEF new
    <2>5. /\ approving' \in [Requesters -> Approving] /\ approving'[c].pc = "done"
          /\ \A d \in Requesters : d # c => approving'[d] = approving[d]
      <3>1. [pc |-> "done"] \in Approving
        BY DEF Approving
      <3> QED BY <2>2, <3>1 DEF ApprovingEnds, ApprovingIs, AccessTypeOK
    <2>6. AccessTypeOK'
      BY <2>2, <2>3, <2>4, <2>5 DEF AccessTypeOK
    <2>7. CallsRespectRejection'
      BY <2>2, <2>5 DEF CallsRespectRejection, RejectionStored
    <2>8. NothingAfterRejection'
      BY <2>2, <2>3, <2>4 DEF NothingAfterRejection
    <2> QED BY <2>2, <2>6, <2>7, <2>8 DEF MemberGrantedOnce, ReviewsProgress
  <1> QED BY <1>1, <1>2, <1>3

\* The grants that one call adds: a member that had none gets one.
LEMMA EnsureStep ==
    ASSUME AccessInv, NEW c \in Requesters, EnsureGrants(c)
    PROVE  AccessInv'
  <1> USE DEF AccessInv
  <1>1. approving[c].pc = "grant" /\ approving[c] \in Validating
    BY CallShapes DEF EnsureGrants
  <1>2. UNCHANGED <<now, status, approvals, privileges, review>> /\ ApprovingEnds(c)
    BY DEF EnsureGrants
  <1>3. ~approving[c].afterRejection
    BY <1>1 DEF CallsRespectRejection, Validating
  <1>4. CASE UNCHANGED grants
    BY <1>2, <1>4, CallStops DEF AccessTypeOK
  <1> DEFINE made(m) == [id |-> c, member |-> m, revoked |-> FALSE,
                         afterRejection |-> approving[c].afterRejection]
  <1>5. CASE grants' = grants \cup {made(m) : m \in Members \ Incumbents}
    <2>1. \A m \in Members : /\ made(m) \in AccessGrant /\ made(m).member = m
                             /\ ~made(m).afterRejection /\ NameOf(made(m)) = <<c, m>>
      <3>1. approving[c].afterRejection = FALSE
        BY <1>1, <1>3 DEF Validating
      <3> QED BY <3>1 DEF AccessGrant, NameOf
    <2> HIDE DEF made
    <2>2. \A g \in grants' : g \in grants \/ \E m \in Members \ Incumbents : g = made(m)
      BY <1>5
    <2>3. /\ approving' \in [Requesters -> Approving] /\ approving'[c].pc = "done"
          /\ \A d \in Requesters : d # c => approving'[d] = approving[d]
      <3>1. [pc |-> "done"] \in Approving
        BY DEF Approving
      <3> QED BY <1>2, <3>1 DEF ApprovingEnds, ApprovingIs, AccessTypeOK
    <2>4. AccessTypeOK'
      BY <1>2, <2>1, <2>2, <2>3 DEF AccessTypeOK
    <2>5. CallsRespectRejection'
      BY <1>2, <2>3 DEF CallsRespectRejection, RejectionStored
    <2>6. NothingAfterRejection'
      BY <1>2, <2>1, <2>2 DEF NothingAfterRejection
    <2>7. MemberGrantedOnce'
      BY <2>1, <2>2 DEF MemberGrantedOnce, Incumbents
    <2>8. ReviewsProgress'
      <3>1. ASSUME NEW v \in Reviews, NEW m \in Members \ Incumbents
            PROVE  NameOf(made(m)) \notin review[v].listed
        <4>1. ASSUME NEW g \in grants PROVE NameOf(g) # <<c, m>>
          BY DEF Incumbents, NameOf
        <4> QED BY <2>1, <4>1 DEF ReviewsProgress
      <3>2. grants \subseteq grants'
        BY <1>5
      <3>3. ASSUME NEW v \in Reviews
            PROVE  review[v].listed \subseteq {NameOf(g) : g \in grants'}
        BY <3>2 DEF ReviewsProgress
      <3>4. ASSUME NEW v \in Reviews, review[v].pc \in {"revoke", "recorded"}, NEW g \in grants',
                   NameOf(g) \in review[v].listed \ review[v].todo
            PROVE  g.revoked
        BY <2>2, <3>1, <3>4 DEF ReviewsProgress
      <3> QED BY <1>2, <3>3, <3>4 DEF ReviewsProgress
    <2> QED BY <2>4, <2>5, <2>6, <2>7, <2>8
  <1> QED BY <1>4, <1>5 DEF EnsureGrants

\* Revoking changes nothing of a grant but that it is revoked.
LEMMA RevokedGrants ==
    ASSUME AccessTypeOK, NEW names
    PROVE  /\ \A h \in Revoked(names) : \E g \in grants :
                /\ h \in AccessGrant /\ h.member = g.member /\ NameOf(h) = NameOf(g)
                /\ h.afterRejection = g.afterRejection
                /\ g.revoked \/ NameOf(g) \in names => h.revoked
                /\ h = IF NameOf(g) \in names THEN [g EXCEPT !.revoked = TRUE] ELSE g
           /\ {NameOf(h) : h \in Revoked(names)} = {NameOf(g) : g \in grants}
  <1>1. ASSUME NEW g \in grants
        PROVE  LET h == IF NameOf(g) \in names THEN [g EXCEPT !.revoked = TRUE] ELSE g IN
               /\ h \in AccessGrant /\ h.member = g.member /\ NameOf(h) = NameOf(g)
               /\ h.afterRejection = g.afterRejection
               /\ g.revoked \/ NameOf(g) \in names => h.revoked
    <2>1. g \in AccessGrant
      BY DEF AccessTypeOK
    <2> QED BY <2>1 DEF AccessGrant, NameOf
  <1>2. Revoked(names) = {IF NameOf(g) \in names THEN [g EXCEPT !.revoked = TRUE] ELSE g : g \in grants}
    BY DEF Revoked
  <1>3. \A h \in Revoked(names) : \E g \in grants :
                /\ h \in AccessGrant /\ h.member = g.member /\ NameOf(h) = NameOf(g)
                /\ h.afterRejection = g.afterRejection
                /\ g.revoked \/ NameOf(g) \in names => h.revoked
                /\ h = IF NameOf(g) \in names THEN [g EXCEPT !.revoked = TRUE] ELSE g
    BY <1>1, <1>2
  <1>4. \A g \in grants : \E h \in Revoked(names) : NameOf(h) = NameOf(g)
    BY <1>1, <1>2
  <1> QED BY <1>3, <1>4

\* The invariant but for the reviews survives a revocation.
LEMMA RevocationKeeps ==
    ASSUME AccessInv, NEW names, grants' = Revoked(names),
           UNCHANGED <<now, status, approvals, privileges, approving>>,
           review' \in [Reviews -> Review],
           \A v \in Reviews :
              /\ review'[v].listed = review[v].listed
              /\ review'[v].pc \in {"revoke", "recorded"} =>
                    /\ review[v].pc = review'[v].pc
                    /\ review[v].todo \subseteq review'[v].todo \cup names
              /\ review'[v].pc = "recorded" => review'[v].todo = {}
    PROVE  AccessInv'
  <1> USE DEF AccessInv
  <1>1. AccessTypeOK'
    BY RevokedGrants DEF AccessTypeOK
  <1>2. CallsRespectRejection'
    BY DEF CallsRespectRejection, RejectionStored
  <1>3. NothingAfterRejection'
    BY RevokedGrants DEF NothingAfterRejection
  <1>4. MemberGrantedOnce'
    <2>1. ASSUME NEW h \in grants', NEW i \in grants', h.member = i.member PROVE h = i
      <3>1. PICK g \in grants : /\ h.member = g.member
              /\ h = IF NameOf(g) \in names THEN [g EXCEPT !.revoked = TRUE] ELSE g
        BY RevokedGrants
      <3>2. PICK f \in grants : /\ i.member = f.member
              /\ i = IF NameOf(f) \in names THEN [f EXCEPT !.revoked = TRUE] ELSE f
        BY RevokedGrants
      <3>3. f = g
        BY <2>1, <3>1, <3>2 DEF MemberGrantedOnce
      <3> QED BY <3>1, <3>2, <3>3
    <2> QED BY <2>1 DEF MemberGrantedOnce
  <1>5. ReviewsProgress'
    <2>1. ASSUME NEW v \in Reviews, review'[v].pc \in {"revoke", "recorded"}, NEW h \in grants',
                 NameOf(h) \in review'[v].listed \ review'[v].todo
          PROVE  h.revoked
      <3>1. PICK g \in grants : /\ NameOf(h) = NameOf(g)
                                /\ g.revoked \/ NameOf(g) \in names => h.revoked
        BY RevokedGrants
      <3> QED BY <2>1, <3>1 DEF ReviewsProgress
    <2>2. {NameOf(h) : h \in grants'} = {NameOf(g) : g \in grants}
      BY RevokedGrants
    <2> QED BY <2>1, <2>2 DEF ReviewsProgress
  <1> QED BY <1>1, <1>2, <1>3, <1>4, <1>5

\* A revocation and the steps of a review keep the access invariant.
LEMMA ReviewSteps ==
    ASSUME AccessInv,
           RevokeGrant \/ \E v \in Reviews : BeginReview(v) \/ ReviewRevokes(v) \/ RecordReview(v)
    PROVE  AccessInv'
  <1> USE DEF AccessInv
  <1>1. CASE RevokeGrant
    <2>1. PICK names : grants' = Revoked(names)
      BY <1>1 DEF RevokeGrant
    <2>2. UNCHANGED <<now, status, approvals, privileges, approving, review>>
      BY <1>1 DEF RevokeGrant
    <2> QED BY <2>1, <2>2, RevocationKeeps DEF AccessTypeOK, ReviewsProgress
  <1>2. ASSUME NEW v \in Reviews, BeginReview(v) PROVE AccessInv'
    <2>0. PICK filter \in SUBSET Members :
            LET found == {NameOf(g) : g \in {x \in grants : ~x.revoked /\ (filter = {} \/ x.member \in filter)}}
            IN  review' = [review EXCEPT ![v] = [pc |-> "revoke", listed |-> found, todo |-> found]]
      BY <1>2 DEF BeginReview
    <2> DEFINE active == {NameOf(g) : g \in {x \in grants : ~x.revoked /\ (filter = {} \/ x.member \in filter)}}
               new == [pc |-> "revoke", listed |-> active, todo |-> active]
    <2>1. active \subseteq Requesters \X Members /\ active \subseteq {NameOf(g) : g \in grants}
      BY DEF AccessTypeOK, AccessGrant, NameOf
    <2>2. new \in Review /\ new.listed = active /\ new.todo = active /\ new.pc = "revoke"
      BY <2>1 DEF Review
    <2>3. review' = [review EXCEPT ![v] = new] /\ UNCHANGED <<now, status, approvals, grants, privileges, approving>>
      BY <1>2, <2>0 DEF BeginReview
    <2> HIDE DEF new, active
    <2>4. AccessTypeOK'
      BY <2>2, <2>3 DEF AccessTypeOK
    <2>5. ReviewsProgress'
      BY <2>1, <2>2, <2>3 DEF ReviewsProgress, AccessTypeOK
    <2> QED
      BY <2>3, <2>4, <2>5
      DEF CallsRespectRejection, RejectionStored, NothingAfterRejection, MemberGrantedOnce
  <1>3. ASSUME NEW v \in Reviews, ReviewRevokes(v) PROVE AccessInv'
    <2>1. UNCHANGED <<now, status, approvals, privileges, approving>> /\ review[v].pc = "revoke"
      BY <1>3 DEF ReviewRevokes
    <2>2. review[v] \in Review
      BY DEF AccessTypeOK
    <2>3. PICK n \in review[v].todo :
            \/ grants' = Revoked({n}) /\ review' = [review EXCEPT ![v].todo = @ \ {n}]
            \/ grants' \in {grants, Revoked({n})} /\ review' = [review EXCEPT ![v].pc = "failed"]
      BY <1>3 DEF ReviewRevokes
    <2>4. CASE grants' = Revoked({n}) /\ review' = [review EXCEPT ![v].todo = @ \ {n}]
      <3> DEFINE new == [review[v] EXCEPT !.todo = @ \ {n}]
      <3>1. /\ new \in Review /\ new.pc = review[v].pc /\ new.listed = review[v].listed
            /\ new.todo = review[v].todo \ {n}
        BY <2>2 DEF Review
      <3>2. review' = [review EXCEPT ![v] = new]
        BY <2>4
      <3> HIDE DEF new
      <3>3. review' \in [Reviews -> Review] /\ review'[v] = new
        BY <3>1, <3>2 DEF AccessTypeOK
      <3>4. \A w \in Reviews : w # v => review'[w] = review[w]
        BY <3>2 DEF AccessTypeOK
      <3>5. ASSUME NEW w \in Reviews
            PROVE  /\ review'[w].listed = review[w].listed /\ review[w].pc = review'[w].pc
                   /\ review[w].todo \subseteq review'[w].todo \cup {n}
                   /\ review'[w].pc = "recorded" => review'[w].todo = {}
        BY <2>1, <3>1, <3>3, <3>4 DEF ReviewsProgress
      <3> QED BY <2>1, <2>4, <3>3, <3>5, RevocationKeeps
    <2>5. CASE grants' \in {grants, Revoked({n})} /\ review' = [review EXCEPT ![v].pc = "failed"]
      <3> DEFINE new == [review[v] EXCEPT !.pc = "failed"]
      <3>1. new \in Review /\ new.pc = "failed" /\ new.listed = review[v].listed
        BY <2>2 DEF Review
      <3>2. review' = [review EXCEPT ![v] = new]
        BY <2>5
      <3> HIDE DEF new
      <3>3. CASE grants' = Revoked({n})
        BY <2>1, <3>1, <3>2, <3>3, RevocationKeeps DEF AccessTypeOK, ReviewsProgress
      <3>4. CASE grants' = grants
        BY <2>1, <3>1, <3>2, <3>4
        DEF AccessTypeOK, ReviewsProgress, CallsRespectRejection, RejectionStored,
            NothingAfterRejection, MemberGrantedOnce
      <3> QED BY <2>5, <3>3, <3>4
    <2> QED BY <2>3, <2>4, <2>5
  <1>4. ASSUME NEW v \in Reviews, RecordReview(v) PROVE AccessInv'
    <2>1. UNCHANGED <<now, status, approvals, grants, privileges, approving>> /\ ReviewReady(v)
      BY <1>4 DEF RecordReview
    <2>2. PICK step \in {"recorded", "failed"} : review' = [review EXCEPT ![v].pc = step]
      BY <1>4 DEF RecordReview
    <2> DEFINE new == [review[v] EXCEPT !.pc = step]
    <2>3. /\ new \in Review /\ new.pc = step /\ new.listed = review[v].listed
          /\ new.todo = review[v].todo
      BY DEF AccessTypeOK, Review
    <2>4. review' = [review EXCEPT ![v] = new]
      BY <2>2
    <2> HIDE DEF new
    <2>5. ReviewsProgress'
      BY <2>1, <2>3, <2>4 DEF ReviewsProgress, AccessTypeOK, ReviewReady
    <2> QED
      BY <2>1, <2>3, <2>4, <2>5
      DEF AccessTypeOK, CallsRespectRejection, RejectionStored, NothingAfterRejection, MemberGrantedOnce
  <1> QED BY <1>1, <1>2, <1>3, <1>4

\* The inductive invariant of access requests: where grants and privileges
\* come from, and what a recorded review has revoked (routes/access.rs, review.rs).
THEOREM AccessInvariant == AccessSpec => []AccessInv
  <1>1. ASSUME AccessInv, [AccessNext]_accessVars PROVE AccessInv'
    <2>1. CASE Tick /\ UNCHANGED <<status, approvals, grants, privileges, approving, review>>
      BY <1>1, <2>1, ClockAssumption
      DEF Tick, AccessInv, AccessTypeOK, CallsRespectRejection, RejectionStored,
          NothingAfterRejection, MemberGrantedOnce, ReviewsProgress
    <2>2. CASE UNCHANGED accessVars
      BY <1>1, <2>2
      DEF accessVars, AccessInv, AccessTypeOK, CallsRespectRejection, RejectionStored,
          NothingAfterRejection, MemberGrantedOnce, ReviewsProgress
    <2> QED
      BY <1>1, <2>1, <2>2, ValidationSteps, PrivilegeSteps, EnsureStep, ReviewSteps DEF AccessNext
  <1> QED BY <1>1, AccessStart, PTL DEF AccessSpec

\* routes/access.rs, routes/review.rs: a refusal and a recorded review stand,
\* and nothing revoked is granted again, however the calls overlap.
THEOREM RefusalFinal == AccessSpec => []RefusalStands
  <1>1. AccessInv => RefusalStands
    BY DEF AccessInv, RefusalStands, NothingAfterRejection, MemberGrantedOnce, ReviewsProgress
  <1> QED BY <1>1, AccessInvariant, PTL

-----------------------------------------------------------------------------
(* Numbers *)

\* Min of a set of naturals that is not empty is in the set.
LEMMA MinIsElement ==
    ASSUME NEW T, T \subseteq Nat, T # {}
    PROVE  Min(T) \in T
  BY LeastNumber DEF Min

-----------------------------------------------------------------------------
(* DecisionCache.  An entry remembers what its decision was made from; its  *)
(* key fixes the registration's name and the keyed material, and its expiry *)
(* the moment and the lifetime.  A revision in a key is of a realm whose    *)
(* bundle is stored, and bundles are never removed: a request with its own  *)
(* realm's revision finds that bundle however late it loads the engine.     *)

\* decide takes a forbid rule first, a step-up rule next, an allow rule last,
\* and none only without a match.
LEMMA DecisiveRule ==
    ASSUME NEW rules \in Seq(Rule), NEW matching \in SUBSET (DOMAIN rules)
    PROVE  LET i == Decisive(rules, matching)
               types == {rules[j].type : j \in matching}
           IN  /\ types = {} => i = 0
               /\ types # {} => /\ i \in matching
                                /\ rules[i].type \in types
                                /\ "forbid" \in types => rules[i].type = "forbid"
                                /\ "forbid" \notin types /\ "step_up" \in types =>
                                      rules[i].type = "step_up"
  <1> DEFINE of(k) == {i \in matching : rules[i].type = KindOrder[k]}
             first == {k \in DOMAIN KindOrder : of(k) # {} /\ \A l \in 1..(k - 1) : of(l) = {}}
             types == {rules[j].type : j \in matching}
             i == Decisive(rules, matching)
  <1>1. DOMAIN KindOrder = 1..3 /\ KindOrder[1] = "forbid" /\ KindOrder[2] = "step_up"
        /\ KindOrder[3] = "allow"
    BY DEF KindOrder
  <1>2. matching \subseteq Nat /\ \A j \in matching : rules[j].type \in {"forbid", "step_up", "allow"}
    <2>1. \A j \in DOMAIN rules : j \in Nat /\ rules[j] \in Rule
      OBVIOUS
    <2> QED BY <2>1 DEF Rule
  <1>3. i = IF first = {} THEN 0 ELSE Min(UNION {of(k) : k \in first})
    BY DEF Decisive
  <1>4. \A k \in 1..3 : of(k) = {} <=> KindOrder[k] \notin types
    OBVIOUS
  <1> HIDE DEF i
  <1>5. ASSUME NEW k \in 1..3, first = {k}
        PROVE  i \in matching /\ rules[i].type = KindOrder[k]
    <2>1. UNION {of(l) : l \in first} = of(k)
      BY <1>5
    <2>2. of(k) # {} /\ of(k) \subseteq Nat
      BY <1>2, <1>5
    <2>3. i = Min(of(k))
      BY <1>3, <1>5, <2>1
    <2>4. i \in of(k)
      BY <2>2, <2>3, MinIsElement
    <2> QED BY <2>4
  <1>6. CASE "forbid" \in types
    <2>1. first = {1}
      BY <1>1, <1>4, <1>6
    <2> QED BY <1>1, <1>5, <1>6, <2>1 DEF i
  <1>7. CASE "forbid" \notin types /\ "step_up" \in types
    <2>1. of(1) = {} /\ of(2) # {}
      BY <1>1, <1>4, <1>7
    <2>2. first = {2}
      BY <1>1, <2>1
    <2> QED BY <1>1, <1>5, <1>7, <2>2 DEF i
  <1>8. CASE "forbid" \notin types /\ "step_up" \notin types /\ "allow" \in types
    <2>1. of(1) = {} /\ of(2) = {} /\ of(3) # {}
      BY <1>1, <1>4, <1>8
    <2>2. first = {3}
      BY <1>1, <2>1
    <2> QED BY <1>1, <1>5, <1>8, <2>2 DEF i
  <1>9. CASE types = {}
    <2>1. first = {}
      BY <1>1, <1>9
    <2> QED BY <1>3, <1>9, <2>1 DEF i
  <1>10. types \subseteq {"forbid", "step_up", "allow"}
    BY <1>2
  <1> QED BY <1>6, <1>7, <1>8, <1>9, <1>10

Keyed(key, reg, in) == \E r \in Realms : key = <<r, reg[2], in[1]>>
CacheKeys ==
    {DecisionKey(r, reg, in) : r \in Realms \cup {NoRevision}, reg \in Registrations, in \in Inputs}
Answers == [decision: {"refused", "fail_open"}] \cup [decision: Decision, origin: Origin]
Checking ==
    [pc: {"load", "decide", "answered", "cached"}, endpoint: {"decision", "authzen"}, at: Nat,
     process: Processes, reg: Registrations, input: Inputs, key: CacheKeys, bundled: BOOLEAN,
     answer: Answers]
IdleCheck == [pc |-> "idle", answer |-> NoDecision]

\* An entry is a justified decision, kept for its lifetime under its own key.
EntryIsSound(e) ==
    /\ IsEntry(e) /\ e.answer \in Answers /\ Justified(e.answer)
    /\ Keyed(e.key, e.answer.origin.reg, e.answer.origin.input)
    /\ e.key[1] = e.answer.origin.reg[1] => e.answer.origin.bundled
    /\ e.until = e.answer.origin.at + LifetimeOf(e.answer.origin.reg, e.answer.decision)

\* A check has no answer before it decides, and looks up its own key.
CheckIsSound(ck) ==
    /\ ck.key = <<>> \/ Keyed(ck.key, ck.reg, ck.input)
    /\ ck.pc \in {"load", "decide"} => ck.answer = NoDecision
    /\ ck.key # <<>> /\ ck.key[1] = ck.reg[1] /\ ck.pc = "decide" => ck.bundled

\* The revision in the key of a check is of a stored bundle.
RevisionIsStored(ck) == ck.key # <<>> => ck.key[1] \in bundled

\* What AnswersAreOfThePolicy says of one check, and more: a cached answer is
\* of a registration of the same name.
AnswerIsSound(ck) ==
    ck.answer.decision \in Decision =>
        /\ Justified(ck.answer)
        /\ ck.pc = "answered" => ck.answer.origin.reg = ck.reg /\ ck.answer.origin.input = ck.input
        /\ ck.pc = "cached" =>
              /\ ck.answer.origin.reg[2] = ck.reg[2] /\ ck.answer.origin.input[1] = ck.input[1]
              /\ ck.at < ck.answer.origin.at
                            + LifetimeOf(ck.answer.origin.reg, ck.answer.decision)
              /\ ck.key[1] = ck.answer.origin.reg[1] => ck.answer.origin.bundled

DecisionInv ==
    /\ now \in 0..MaxTime
    /\ bundled \subseteq Realms /\ policySlot \in [Processes -> bundled \cup {NoRevision}]
    /\ \A e, f \in cached : e.place = f.place /\ e.key = f.key => e = f
    /\ \A e \in cached : EntryIsSound(e)
    /\ pepCheck \in [PepChecks -> Checking \cup {IdleCheck}]
    /\ \A c \in PepChecks : /\ pepCheck[c].pc # "idle" => /\ CheckIsSound(pepCheck[c])
                                                       /\ RevisionIsStored(pepCheck[c])
                            /\ AnswerIsSound(pepCheck[c])

\* A request that is not answered has none of the answers.
LEMMA NotYetDecided ==
    /\ NoDecision \in Answers /\ NoDecision.decision \notin Decision
    /\ "refused" \notin Decision /\ "fail_open" \notin Decision
  BY DEF NoDecision, Answers, Decision

\* The answer to an error is none of the decisions.
LEMMA ErrorShape ==
    ASSUME NEW endpoint, NEW reg
    PROVE  ErrorAnswer(endpoint, reg) \in Answers /\ ErrorAnswer(endpoint, reg).decision \notin Decision
  BY DEF ErrorAnswer, Answers, Decision

\* The decision invariant holds at the start.
LEMMA DecisionStart == ASSUME DecisionInit PROVE DecisionInv
  <1>1. IdleCheck.pc = "idle" /\ IdleCheck.answer = NoDecision
    BY DEF IdleCheck
  <1>2. \A c \in PepChecks : pepCheck[c] = IdleCheck
    BY DEF DecisionInit, IdleCheck
  <1>3. pepCheck \in [PepChecks -> Checking \cup {IdleCheck}]
    BY DEF DecisionInit, IdleCheck
  <1>4. \A c \in PepChecks : pepCheck[c].pc = "idle" /\ AnswerIsSound(pepCheck[c])
    BY <1>1, <1>2, NotYetDecided DEF AnswerIsSound
  <1>5. /\ now \in 0..MaxTime /\ bundled \subseteq Realms /\ cached = {}
        /\ policySlot \in [Processes -> bundled \cup {NoRevision}]
    BY ClockAssumption DEF DecisionInit
  <1> QED BY <1>3, <1>4, <1>5 DEF DecisionInv

\* A request is of a registration of some realm.
LEMMA RequestShape ==
    ASSUME NEW req \in Requests
    PROVE  req[1] \in Registrations /\ req[2] \in Inputs
  BY DecisionAssumption

\* A cache key is empty or carries the registration and the keyed part of
\* the input.
LEMMA KeyShape ==
    ASSUME NEW rev \in Realms \cup {NoRevision}, NEW reg \in Registrations, NEW in \in Inputs
    PROVE  LET key == DecisionKey(rev, reg, in) IN
           /\ key \in CacheKeys /\ (key = <<>> \/ Keyed(key, reg, in))
           /\ key # <<>> => rev # NoRevision /\ key[1] = rev
  <1>1. DecisionKey(rev, reg, in) \in CacheKeys
    BY DEF CacheKeys
  <1>2. rev # NoRevision => DecisionKey(rev, reg, in) = <<rev, reg[2], in[1]>> /\ rev \in Realms
    BY DEF DecisionKey
  <1>3. rev = NoRevision => DecisionKey(rev, reg, in) = <<>>
    BY DEF DecisionKey
  <1> QED BY <1>1, <1>2, <1>3 DEF Keyed

\* A step that leaves the caches alone and gives check c a sound state.
LEMMA CheckMoves ==
    ASSUME DecisionInv, NEW c \in PepChecks, NEW new \in Checking,
           pepCheck' = [pepCheck EXCEPT ![c] = new], UNCHANGED <<now, bundled, cached>>,
           policySlot' \in [Processes -> bundled \cup {NoRevision}],
           CheckIsSound(new), RevisionIsStored(new), AnswerIsSound(new)
    PROVE  DecisionInv'
  <1> USE DEF DecisionInv
  <1>1. /\ pepCheck' \in [PepChecks -> Checking \cup {IdleCheck}] /\ pepCheck'[c] = new
        /\ \A d \in PepChecks : d # c => pepCheck'[d] = pepCheck[d]
    OBVIOUS
  <1>2. \A d \in PepChecks :
          /\ pepCheck'[d].pc # "idle" => CheckIsSound(pepCheck'[d]) /\ RevisionIsStored(pepCheck'[d])
          /\ AnswerIsSound(pepCheck'[d])
    BY <1>1
  <1> QED BY <1>1, <1>2 DEF RevisionIsStored

\* The record of a check as Asked makes it, under a key of its own.
LEMMA AskedShape ==
    ASSUME DecisionInv, NEW endpoint \in {"decision", "authzen"}, NEW p \in Processes,
           NEW req \in Requests, NEW key \in CacheKeys, key = <<>> \/ Keyed(key, req[1], req[2]),
           key # <<>> => key[1] \in bundled
    PROVE  LET query == Asked(endpoint, p, req, key) IN
           /\ query \in Checking /\ CheckIsSound(query) /\ AnswerIsSound(query)
           /\ RevisionIsStored(query)
           /\ query.pc = "load" /\ query.key = key /\ query.at = now
           /\ query.reg = req[1] /\ query.input = req[2]
  <1> DEFINE query == Asked(endpoint, p, req, key)
  <1>1. now \in Nat
    BY ClockAssumption DEF DecisionInv
  <1>2. req[1] \in Registrations /\ req[2] \in Inputs
    BY RequestShape
  <1>3. query \in Checking
    BY <1>1, <1>2, NotYetDecided DEF Asked, Checking
  <1>4. /\ query.pc = "load" /\ query.key = key /\ query.at = now /\ query.answer = NoDecision
        /\ query.reg = req[1] /\ query.input = req[2]
    BY DEF Asked
  <1> HIDE DEF query
  <1>5. CheckIsSound(query) /\ AnswerIsSound(query) /\ RevisionIsStored(query)
    BY <1>4, NotYetDecided DEF CheckIsSound, AnswerIsSound, RevisionIsStored
  <1> QED BY <1>3, <1>4, <1>5 DEF query

\* A lookup, or an evaluation without the cache, keeps the decision invariant.
LEMMA LookUpStep ==
    ASSUME DecisionInv, NEW c \in PepChecks, LookUp(c) \/ Evaluate(c)
    PROVE  DecisionInv'
  <1>1. UNCHANGED <<now, bundled, policySlot, cached>>
    BY DEF LookUp, Evaluate
  <1>2. policySlot' \in [Processes -> bundled \cup {NoRevision}]
    BY <1>1 DEF DecisionInv
  <1>3. <<>> \in CacheKeys \/ Requests = {}
    <2>1. ASSUME NEW req \in Requests PROVE <<>> \in CacheKeys
      <3>1. DecisionKey(NoRevision, req[1], req[2]) = <<>>
        BY DEF DecisionKey
      <3> QED BY <3>1, RequestShape DEF CacheKeys
    <2> QED BY <2>1
  <1>4. CASE Evaluate(c)
    <2>1. PICK p \in Processes, req \in Requests :
            pepCheck' = [pepCheck EXCEPT ![c] = Asked("authzen", p, req, <<>>)]
      BY <1>4 DEF Evaluate
    <2>2. Asked("authzen", p, req, <<>>) \in Checking /\ CheckIsSound(Asked("authzen", p, req, <<>>))
          /\ AnswerIsSound(Asked("authzen", p, req, <<>>))
          /\ RevisionIsStored(Asked("authzen", p, req, <<>>))
      BY <1>3, AskedShape
    <2> QED BY <1>1, <1>2, <2>1, <2>2, CheckMoves
  <1>5. CASE LookUp(c)
    <2>1. PICK p \in Processes, req \in Requests :
            LET query == Asked("decision", p, req, DecisionKey(policySlot[p], req[1], req[2])) IN
            \/ pepCheck' = [pepCheck EXCEPT ![c] = query]
            \/ \E e \in Cached(p, query.key) :
                  pepCheck' = [pepCheck EXCEPT ![c] =
                                  [query EXCEPT !.pc = "cached", !.answer = e.answer]]
            \/ pepCheck' = [pepCheck EXCEPT ![c] =
                    [query EXCEPT !.pc = "answered", !.answer = ErrorAnswer("decision", req[1])]]
      BY <1>5 DEF LookUp
    <2> DEFINE key == DecisionKey(policySlot[p], req[1], req[2])
               query == Asked("decision", p, req, key)
    <2>2. /\ key \in CacheKeys /\ (key = <<>> \/ Keyed(key, req[1], req[2]))
          /\ key # <<>> => key[1] \in bundled
      <3>1. policySlot[p] \in bundled \cup {NoRevision} /\ bundled \subseteq Realms
        BY DEF DecisionInv
      <3> QED BY <3>1, RequestShape, KeyShape
    <2> HIDE DEF key
    <2>3. /\ query \in Checking /\ CheckIsSound(query) /\ AnswerIsSound(query)
          /\ RevisionIsStored(query)
          /\ query.pc = "load" /\ query.key = key /\ query.at = now
          /\ query.reg = req[1] /\ query.input = req[2]
      BY <2>2, AskedShape
    <2> HIDE DEF query
    <2>4. CASE pepCheck' = [pepCheck EXCEPT ![c] = query]
      BY <1>1, <1>2, <2>3, <2>4, CheckMoves
    <2>5. ASSUME NEW e \in Cached(p, key),
                 pepCheck' = [pepCheck EXCEPT ![c] =
                                 [query EXCEPT !.pc = "cached", !.answer = e.answer]]
          PROVE  DecisionInv'
      <3>1. e \in cached /\ e.key = key /\ e.until > now /\ key # <<>>
        BY <2>5 DEF Cached, LiveAt
      <3>2. EntryIsSound(e)
        BY <3>1 DEF DecisionInv
      <3> DEFINE o == e.answer.origin
                 new == [query EXCEPT !.pc = "cached", !.answer = e.answer]
      <3>3. e.answer \in Answers
        BY <3>2 DEF EntryIsSound
      <3>4. /\ new \in Checking /\ new.pc = "cached" /\ new.answer = e.answer /\ new.key = key
            /\ new.at = now /\ new.reg = req[1] /\ new.input = req[2]
        BY <2>3, <3>3 DEF Checking
      <3> HIDE DEF new
      <3>5. CheckIsSound(new) /\ RevisionIsStored(new)
        BY <2>2, <3>4 DEF CheckIsSound, RevisionIsStored
      <3>6. o.reg[2] = req[1][2] /\ o.input[1] = req[2][1]
        BY <2>2, <3>1, <3>2 DEF Keyed, EntryIsSound
      <3>7. AnswerIsSound(new)
        <4>1. now < o.at + LifetimeOf(o.reg, e.answer.decision)
          BY <3>1, <3>2 DEF EntryIsSound
        <4>2. key[1] = o.reg[1] => o.bundled
          BY <3>1, <3>2 DEF EntryIsSound
        <4> QED BY <3>2, <3>4, <3>6, <4>1, <4>2 DEF AnswerIsSound, EntryIsSound
      <3> QED BY <1>1, <1>2, <2>5, <3>4, <3>5, <3>7, CheckMoves DEF new
    <2> DEFINE failed == [query EXCEPT !.pc = "answered", !.answer = ErrorAnswer("decision", req[1])]
    <2>6. CASE pepCheck' = [pepCheck EXCEPT ![c] = failed]
      <3>1. /\ failed \in Checking /\ failed.pc = "answered" /\ failed.key = key
            /\ failed.reg = req[1] /\ failed.input = req[2]
            /\ failed.answer = ErrorAnswer("decision", req[1])
        BY <2>3, ErrorShape DEF Checking
      <3> HIDE DEF failed
      <3>2. CheckIsSound(failed) /\ RevisionIsStored(failed) /\ AnswerIsSound(failed)
        BY <2>2, <3>1, ErrorShape DEF CheckIsSound, RevisionIsStored, AnswerIsSound
      <3> QED BY <1>1, <1>2, <2>6, <3>1, <3>2, CheckMoves
    <2> QED BY <2>1, <2>3, <2>4, <2>5, <2>6 DEF query, key
  <1> QED BY <1>4, <1>5

\* Loading the engine, and the failures, keep the decision invariant.
LEMMA LoadStep ==
    ASSUME DecisionInv, NEW c \in PepChecks, LoadEngine(c) \/ LoadFails(c) \/ ObligationFails(c)
    PROVE  DecisionInv'
  <1> DEFINE ck == pepCheck[c]
  <1>1. UNCHANGED <<now, bundled, cached>> /\ ck.pc \in {"load", "decide"}
    BY DEF LoadEngine, LoadFails, ObligationFails
  <1>2. ck \in Checking /\ CheckIsSound(ck) /\ RevisionIsStored(ck) /\ ck.answer = NoDecision
    BY <1>1 DEF DecisionInv, IdleCheck, CheckIsSound
  <1>3. ck.reg[1] \in Realms
    BY <1>2, DecisionAssumption DEF Checking
  <1>4. policySlot' \in [Processes -> bundled \cup {NoRevision}]
    BY <1>3 DEF LoadEngine, LoadFails, ObligationFails, DecisionInv
  <1>5. CASE LoadEngine(c)
    <2> DEFINE b == policySlot[ck.process] = ck.reg[1] \/ ck.reg[1] \in bundled
               new == [ck EXCEPT !.pc = "decide", !.bundled = b]
    <2>1. b \in BOOLEAN
      OBVIOUS
    <2>2. pepCheck' = [pepCheck EXCEPT ![c] = new]
      BY <1>5 DEF LoadEngine
    <2> HIDE DEF b
    <2>3. /\ new \in Checking /\ new.pc = "decide" /\ new.answer = NoDecision
          /\ new.key = ck.key /\ new.reg = ck.reg /\ new.input = ck.input /\ new.bundled = b
      BY <1>2, <2>1 DEF Checking
    <2> HIDE DEF new
    <2>4. ck.key # <<>> /\ ck.key[1] = ck.reg[1] => b
      BY <1>2 DEF RevisionIsStored, b
    <2>5. CheckIsSound(new) /\ RevisionIsStored(new) /\ AnswerIsSound(new)
      BY <1>2, <2>3, <2>4, NotYetDecided DEF CheckIsSound, RevisionIsStored, AnswerIsSound
    <2> QED BY <1>1, <1>4, <2>2, <2>3, <2>5, CheckMoves DEF new
  <1>6. ASSUME NEW ans \in Answers, ans.decision \notin Decision,
               pepCheck' = [pepCheck EXCEPT ![c] = [ck EXCEPT !.pc = "answered", !.answer = ans]]
        PROVE  DecisionInv'
    <2> DEFINE new == [ck EXCEPT !.pc = "answered", !.answer = ans]
    <2>1. /\ new \in Checking /\ new.pc = "answered" /\ new.answer = ans
          /\ new.key = ck.key /\ new.reg = ck.reg /\ new.input = ck.input
      BY <1>2, <1>6 DEF Checking
    <2> HIDE DEF new
    <2>2. CheckIsSound(new) /\ RevisionIsStored(new) /\ AnswerIsSound(new)
      BY <1>2, <1>6, <2>1 DEF CheckIsSound, RevisionIsStored, AnswerIsSound
    <2> QED BY <1>1, <1>4, <1>6, <2>1, <2>2, CheckMoves DEF new
  <1>7. CASE LoadFails(c)
    BY <1>6, <1>7, ErrorShape DEF LoadFails
  <1>8. CASE ObligationFails(c)
    <2>1. pepCheck' = [pepCheck EXCEPT ![c] = [ck EXCEPT !.pc = "answered"]]
      BY <1>8 DEF ObligationFails
    <2>2. [ck EXCEPT !.pc = "answered"] = [ck EXCEPT !.pc = "answered", !.answer = NoDecision]
      BY <1>2 DEF Checking
    <2> QED BY <1>6, <2>1, <2>2, NotYetDecided
  <1> QED BY <1>5, <1>7, <1>8

\* The engine's decision is what the policy says.
LEMMA DecisionIsJustified ==
    ASSUME NEW reg \in Registrations, NEW in \in Inputs, NEW b \in BOOLEAN,
           NEW matching \in SUBSET (DOMAIN RulesOf(reg[1], b)), NEW t \in Nat,
           NEW answer,
           answer = [decision |-> LET i == Decisive(RulesOf(reg[1], b), matching) IN
                                  IF i = 0 THEN DefaultOf(reg[1], b)
                                  ELSE DecisionOfKind[RulesOf(reg[1], b)[i].type],
                     origin |-> [reg |-> reg, input |-> in, bundled |-> b,
                                 matching |-> matching, at |-> t]]
    PROVE  /\ answer \in [decision: Decision, origin: Origin] /\ Justified(answer)
           /\ answer.origin.reg = reg /\ answer.origin.input = in /\ answer.origin.at = t
           /\ answer.origin.bundled = b
  <1> DEFINE rules == RulesOf(reg[1], b)
             i == Decisive(rules, matching)
             types == {rules[j].type : j \in matching}
             o == answer.origin
  <1>1. reg[1] \in Realms
    BY DecisionAssumption
  <1>2. rules \in Seq(Rule) /\ DefaultOf(reg[1], b) \in Decision
    BY <1>1, BundleAssumption DEF RulesOf, DefaultOf
  <1>3. /\ types = {} => i = 0
        /\ types # {} => /\ i \in matching
                         /\ rules[i].type \in types
                         /\ "forbid" \in types => rules[i].type = "forbid"
                         /\ "forbid" \notin types /\ "step_up" \in types => rules[i].type = "step_up"
    BY <1>2, DecisiveRule
  <1>4. \A j \in DOMAIN rules : j \in Nat \ {0} /\ rules[j].type \in {"forbid", "step_up", "allow"}
    <2> HIDE DEF rules
    <2>1. \A j \in DOMAIN rules : j \in Nat \ {0} /\ rules[j] \in Rule
      BY <1>2
    <2> QED BY <2>1 DEF Rule
  <1>5. /\ DecisionOfKind["forbid"] = "deny" /\ DecisionOfKind["step_up"] = "step_up"
        /\ DecisionOfKind["allow"] = "allow"
    BY DEF DecisionOfKind
  <1>6. /\ o = [reg |-> reg, input |-> in, bundled |-> b, matching |-> matching, at |-> t]
        /\ answer.decision = IF i = 0 THEN DefaultOf(reg[1], b) ELSE DecisionOfKind[rules[i].type]
    OBVIOUS
  <1>7. o.reg = reg /\ o.input = in /\ o.bundled = b /\ o.matching = matching /\ o.at = t
    BY <1>6
  <1>8. i = 0 \/ (types # {} /\ i \in DOMAIN rules)
    BY <1>3
  <1> HIDE DEF i, rules
  <1>9. answer.decision \in Decision
    BY <1>2, <1>4, <1>5, <1>6, <1>8 DEF Decision
  <1>10. o \in Origin
    BY <1>4, <1>6 DEF Origin, rules
  <1>11. answer \in [decision: Decision, origin: Origin]
    BY <1>9, <1>10
  <1>12. /\ "forbid" \in types => answer.decision = "deny"
         /\ types = {"allow"} => answer.decision = "allow"
         /\ types = {} => answer.decision = DefaultOf(reg[1], b)
         /\ "forbid" \notin types /\ types # {"allow"} /\ types # {} => answer.decision = "step_up"
    <2>1. types # {} => i # 0 /\ answer.decision = DecisionOfKind[rules[i].type]
      BY <1>3, <1>4, <1>6 DEF rules
    <2>2. types \subseteq {"forbid", "step_up", "allow"}
      BY <1>4 DEF rules
    <2>3. "forbid" \notin types /\ types # {"allow"} /\ types # {} => "step_up" \in types
      BY <2>2
    <2>4. types = {} => answer.decision = DefaultOf(reg[1], b)
      BY <1>3, <1>6
    <2> HIDE DEF types
    <2> QED BY <1>3, <1>5, <2>1, <2>3, <2>4
  <1>13. Justified(answer)
    <2>1. types = {RulesOf(o.reg[1], o.bundled)[j].type : j \in o.matching}
      BY <1>7 DEF rules
    <2> QED BY <1>7, <1>12, <2>1 DEF Justified
  <1> QED BY <1>7, <1>11, <1>13

\* What is stored is sound, and takes the place of what was there.
LEMMA StoredIsSound ==
    ASSUME DecisionInv, NEW p \in Processes, NEW key, NEW answer, NEW ttl \in Nat,
           answer \in [decision: Decision, origin: Origin], Justified(answer),
           Keyed(key, answer.origin.reg, answer.origin.input),
           key[1] = answer.origin.reg[1] => answer.origin.bundled, answer.origin.at = now, ttl = LifetimeOf(answer.origin.reg, answer.decision)
    PROVE  /\ \A e \in Stored(p, key, answer, ttl) : EntryIsSound(e)
           /\ \A e, f \in Stored(p, key, answer, ttl) : e.place = f.place /\ e.key = f.key => e = f
  <1> DEFINE made(place) == [place |-> place, key |-> key, answer |-> answer, until |-> now + ttl]
  <1>1. \A e \in Stored(p, key, answer, ttl) :
          \/ e \in cached /\ ~(e.key = key /\ e.place \in {p, Shared})
          \/ \E place \in {p, Shared} : e = made(place)
    BY DEF Stored
  <1>2. now \in Nat
    BY ClockAssumption DEF DecisionInv
  <1>3. ASSUME NEW place \in {p, Shared}
        PROVE  /\ EntryIsSound(made(place)) /\ made(place).place = place /\ made(place).key = key
    <2>1. /\ made(place).place = place /\ made(place).key = key /\ made(place).answer = answer
          /\ made(place).until = now + ttl /\ DOMAIN made(place) = {"place", "key", "answer", "until"}
      OBVIOUS
    <2>2. answer \in Answers /\ answer.decision \in Decision /\ answer.origin \in Origin
      BY DEF Answers
    <2>3. place \in Places
      BY DEF Places
    <2> HIDE DEF made
    <2>4. IsEntry(made(place))
      BY <1>2, <2>1, <2>2, <2>3 DEF IsEntry
    <2> QED BY <2>1, <2>2, <2>4 DEF EntryIsSound
  <1> HIDE DEF made
  <1>4. \A e \in Stored(p, key, answer, ttl) : EntryIsSound(e)
    BY <1>1, <1>3 DEF DecisionInv
  <1>5. ASSUME NEW e \in Stored(p, key, answer, ttl), NEW f \in Stored(p, key, answer, ttl),
               e.place = f.place, e.key = f.key
        PROVE  e = f
    BY <1>1, <1>3, <1>5 DEF DecisionInv
  <1> QED BY <1>4, <1>5

\* Deciding and storing the decision keep the decision invariant.
LEMMA DecideStep ==
    ASSUME DecisionInv, NEW c \in PepChecks, Decide(c)
    PROVE  DecisionInv'
  <1> DEFINE ck == pepCheck[c]
             rules == RulesOf(ck.reg[1], ck.bundled)
  <1>1. ck.pc = "decide" /\ UNCHANGED <<now, bundled, policySlot>>
    BY DEF Decide
  <1>2. ck \in Checking /\ CheckIsSound(ck) /\ RevisionIsStored(ck)
    BY <1>1 DEF DecisionInv, IdleCheck
  <1>3. ck.reg \in Registrations /\ ck.input \in Inputs /\ ck.bundled \in BOOLEAN /\ ck.process \in Processes
    BY <1>2 DEF Checking
  <1> DEFINE decided(matching) ==
                 LET i == Decisive(rules, matching) IN
                 IF i = 0 THEN DefaultOf(ck.reg[1], ck.bundled) ELSE DecisionOfKind[rules[i].type]
             answered(matching) ==
                 [decision |-> decided(matching),
                  origin |-> [reg |-> ck.reg, input |-> ck.input, bundled |-> ck.bundled,
                              matching |-> matching, at |-> now]]
  <1>4. PICK relations \in [DOMAIN rules -> {"related", "unrelated", "unknown"}] :
          LET answer == answered(Matching(rules, ck.input, relations))
              ttl == LifetimeOf(ck.reg, decided(Matching(rules, ck.input, relations)))
          IN  /\ pepCheck' = [pepCheck EXCEPT ![c].pc = "answered", ![c].answer = answer]
              /\ \/ cached' = cached
                 \/ ck.key # <<>> /\ cached' = Stored(ck.process, ck.key, answer, ttl)
    BY DEF Decide
  <1> DEFINE matching == Matching(rules, ck.input, relations)
  <1>5. matching \in SUBSET (DOMAIN rules)
    BY DEF Matching
  <1> HIDE DEF matching
  <1> DEFINE answer == answered(matching)
             ttl == LifetimeOf(ck.reg, answer.decision)
  <1>6. now \in Nat
    BY ClockAssumption DEF DecisionInv
  <1>7. /\ answer \in [decision: Decision, origin: Origin] /\ Justified(answer)
        /\ answer.origin.reg = ck.reg /\ answer.origin.input = ck.input /\ answer.origin.at = now
        /\ answer.origin.bundled = ck.bundled
    BY <1>3, <1>5, <1>6, DecisionIsJustified
  <1>8. answer.decision = decided(matching)
    OBVIOUS
  <1> HIDE DEF answered, decided
  <1>9. ttl \in Nat
    BY <1>3, DecisionAssumption DEF LifetimeOf
  <1>10. ck.key # <<>> => /\ Keyed(ck.key, ck.reg, ck.input)
                          /\ ck.key[1] = ck.reg[1] => ck.bundled
    BY <1>1, <1>2 DEF CheckIsSound
  <1> DEFINE new == [ck EXCEPT !.pc = "answered", !.answer = answer]
  <1>11. /\ pepCheck' = [pepCheck EXCEPT ![c] = new]
         /\ cached' = cached \/ (ck.key # <<>> /\ cached' = Stored(ck.process, ck.key, answer, ttl))
    BY <1>4, <1>8 DEF matching
  <1> HIDE DEF answer, ttl
  <1>12. /\ new \in Checking /\ new.pc = "answered" /\ new.answer = answer
         /\ new.key = ck.key /\ new.reg = ck.reg /\ new.input = ck.input
    <2>1. answer \in Answers
      BY <1>7 DEF Answers
    <2> QED BY <1>2, <2>1 DEF Checking
  <1> HIDE DEF new
  <1>13. CheckIsSound(new) /\ RevisionIsStored(new) /\ AnswerIsSound(new)
    BY <1>2, <1>7, <1>12 DEF CheckIsSound, RevisionIsStored, AnswerIsSound
  <1>14. /\ \A e \in cached' : EntryIsSound(e)
         /\ \A e, f \in cached' : e.place = f.place /\ e.key = f.key => e = f
    <2>1. CASE cached' = cached
      BY <2>1 DEF DecisionInv
    <2>2. CASE ck.key # <<>> /\ cached' = Stored(ck.process, ck.key, answer, ttl)
      BY <1>3, <1>7, <1>9, <1>10, <2>2, StoredIsSound DEF ttl
    <2> QED BY <1>11, <2>1, <2>2
  <1>15. /\ pepCheck' \in [PepChecks -> Checking \cup {IdleCheck}] /\ pepCheck'[c] = new
         /\ \A d \in PepChecks : d # c => pepCheck'[d] = pepCheck[d]
    <2>1. pepCheck \in [PepChecks -> Checking \cup {IdleCheck}]
      BY DEF DecisionInv
    <2> QED BY <1>11, <1>12, <2>1
  <1>16. \A d \in PepChecks :
           /\ pepCheck'[d].pc # "idle" => CheckIsSound(pepCheck'[d]) /\ RevisionIsStored(pepCheck'[d])
           /\ AnswerIsSound(pepCheck'[d])
    BY <1>13, <1>15 DEF DecisionInv
  <1> QED BY <1>1, <1>14, <1>15, <1>16 DEF DecisionInv, RevisionIsStored

\* The inductive invariant of PEP decisions: every cached decision and every
\* answer is justified by the policy of its origin (pep_decision.rs).
THEOREM DecisionInvariant == DecisionSpec => []DecisionInv
  <1>1. ASSUME DecisionInv, [DecisionNext]_decisionVars PROVE DecisionInv'
    <2>1. CASE SeedBundle
      BY <1>1, <2>1 DEF SeedBundle, DecisionInv, RevisionIsStored
    <2>2. CASE DecisionTick
      BY <1>1, <2>2, ClockAssumption DEF DecisionTick, Tick, DecisionInv, RevisionIsStored
    <2>3. CASE UNCHANGED decisionVars
      BY <1>1, <2>3 DEF decisionVars, DecisionInv, RevisionIsStored
    <2> QED BY <1>1, <2>1, <2>2, <2>3, LookUpStep, LoadStep, DecideStep DEF DecisionNext
  <1> QED BY <1>1, DecisionStart, PTL DEF DecisionSpec

\* pep_decision.rs, native.rs: an answer is what the policy of the realm it was
\* made for says; one from the cache is in time, of the same keyed material, of
\* the request's own registration where the name is unique, and of the bundle
\* where the key has its realm's revision.
THEOREM AnswersJustified == DecisionSpec => []AnswersAreOfThePolicy
  <1>1. ASSUME DecisionInv, NEW c \in PepChecks, pepCheck[c].answer.decision \in Decision
        PROVE  pepCheck[c].reg \in Registrations /\ pepCheck[c].answer.origin.reg \in Registrations
    <2>1. pepCheck[c] \in Checking
      BY <1>1, NotYetDecided DEF DecisionInv, IdleCheck
    <2>2. pepCheck[c].answer \in [decision: Decision, origin: Origin]
      BY <1>1, <2>1, NotYetDecided DEF Checking, Answers
    <2> QED BY <2>1, <2>2 DEF Checking, Origin
  <1>2. DecisionInv => AnswersAreOfThePolicy
    BY <1>1 DEF DecisionInv, AnswerIsSound, AnswersAreOfThePolicy, NameIsUnique
  <1> QED BY <1>2, DecisionInvariant, PTL

-----------------------------------------------------------------------------
(* AccountMail.  A mail is kept by the issuer that was admitted for it, with *)
(* the time its request read; a mail that was redeemed is consumed.          *)

MailsKept == {i \in Issuers : mail[i] # NoMail}
HasRedeemed(x) == x.pc \in {"session", "succeeded"}

MailInv ==
    /\ MailTypeOK /\ now \in 0..MaxTime
    /\ IsFiniteSet(MailsKept)
    /\ \A i \in Issuers : mail[i] # NoMail => issuer[i].pc = "sent"
    /\ \A r \in Redeemers :
          HasRedeemed(redeemer[r]) => /\ mail[redeemer[r].of] # NoMail
                                      /\ mail[redeemer[r].of].consumed
    /\ MailsAreLimited

\* Mails keep their kind and time: the budget holds on.
LEMMA BudgetKeeps ==
    ASSUME MailInv,
           \A j \in Issuers :
              /\ mail'[j] # NoMail <=> mail[j] # NoMail
              /\ mail[j] # NoMail => /\ mail'[j].created = mail[j].created
                                     /\ issuer'[j].purpose = issuer[j].purpose
    PROVE  MailsWithinBudget' /\ IsFiniteSet(MailsKept')
  <1>1. MailsKept' = MailsKept
    BY DEF MailsKept
  <1>2. ASSUME NEW p \in Purposes, NEW t \in 0..MaxTime
        PROVE  {i \in Issuers : /\ mail'[i] # NoMail /\ issuer'[i].purpose = p
                                /\ mail'[i].created \in t..(t + IssueWindow - 1)}
               = {i \in Issuers : /\ mail[i] # NoMail /\ issuer[i].purpose = p
                                  /\ mail[i].created \in t..(t + IssueWindow - 1)}
    OBVIOUS
  <1> QED BY <1>1, <1>2 DEF MailInv, MailsAreLimited, MailsWithinBudget

\* A redemption changes its own mail, and succeeds with one that no other
\* redemption has.
LEMMA RedemptionStep ==
    ASSUME MailInv, NEW r \in Redeemers, NEW i \in Issuers, NEW m \in Mail \cup {NoMail},
           m # NoMail <=> mail[i] # NoMail,
           m # NoMail => m.created = mail[i].created /\ (mail[i].consumed => m.consumed),
           mail' = [mail EXCEPT ![i] = m],
           NEW x \in Redeemer, redeemer' = [redeemer EXCEPT ![r] = x],
           HasRedeemed(x) => /\ x.of = i /\ m # NoMail /\ m.consumed
                             /\ \/ ~mail[i].consumed
                                \/ HasRedeemed(redeemer[r]) /\ redeemer[r].of = i,
           UNCHANGED <<now, issuer, writer>>, userRow' \in AccountRow,
           credential' \in CredentialRow, lastReset' \in Redeemers \cup {Original}
    PROVE  MailInv'
  <1>1. /\ mail' \in [Issuers -> Mail \cup {NoMail}] /\ mail'[i] = m
        /\ \A j \in Issuers : j # i => mail'[j] = mail[j]
    BY DEF MailInv, MailTypeOK
  <1>2. /\ redeemer' \in [Redeemers -> Redeemer \cup {Idle}] /\ redeemer'[r] = x
        /\ \A q \in Redeemers : q # r => redeemer'[q] = redeemer[q]
    BY DEF MailInv, MailTypeOK
  <1>3. MailTypeOK'
    BY <1>1, <1>2 DEF MailInv, MailTypeOK
  <1>4. MailsWithinBudget' /\ IsFiniteSet(MailsKept')
    BY <1>1, BudgetKeeps
  <1>5. ASSUME NEW q \in Redeemers, HasRedeemed(redeemer[q])
        PROVE  /\ redeemer[q].of \in Issuers /\ mail[redeemer[q].of] # NoMail
               /\ mail[redeemer[q].of].consumed
    <2>1. redeemer[q] \in Redeemer \cup {Idle}
      BY DEF MailInv, MailTypeOK
    <2> QED BY <1>5, <2>1 DEF MailInv, HasRedeemed, Redeemer, Idle
  <1>6. ASSUME NEW q \in Redeemers, HasRedeemed(redeemer'[q])
        PROVE  /\ mail'[redeemer'[q].of] # NoMail
               /\ mail'[redeemer'[q].of].consumed
    <2>1. CASE q = r
      BY <1>1, <1>2, <1>6, <2>1
    <2>2. CASE q # r
      BY <1>1, <1>2, <1>5, <1>6, <2>2
    <2> QED BY <2>1, <2>2
  <1>7. OneUsePerMail'
    <2> SUFFICES ASSUME NEW q \in Redeemers, NEW s \in Redeemers,
                        HasRedeemed(redeemer'[q]), HasRedeemed(redeemer'[s]),
                        redeemer'[q].of = redeemer'[s].of, q # s
                 PROVE  FALSE
      BY DEF OneUsePerMail, HasRedeemed
    <2>1. \A y, z \in Redeemers :
            HasRedeemed(redeemer[y]) /\ HasRedeemed(redeemer[z]) /\ redeemer[y].of = redeemer[z].of
            => y = z
      BY DEF MailInv, MailsAreLimited, OneUsePerMail, HasRedeemed
    <2>2. CASE q # r /\ s # r
      BY <1>2, <2>1, <2>2
    <2>3. CASE q = r
      BY <1>2, <1>5, <2>1, <2>3
    <2>4. CASE s = r
      BY <1>2, <1>5, <2>1, <2>4
    <2> QED BY <2>2, <2>3, <2>4
  <1>8. \A j \in Issuers : mail'[j] # NoMail => issuer'[j].pc = "sent"
    BY <1>1 DEF MailInv
  <1> QED BY <1>3, <1>4, <1>6, <1>7, <1>8 DEF MailInv, MailsAreLimited

\* The redeemers' requests, from the read of the mail to the answer.
LEMMA RedemptionSteps ==
    ASSUME MailInv, NEW r \in Redeemers,
           \/ \E i \in Issuers, right \in BOOLEAN : ReadMail(r, i, right)
           \/ Confirm(r) \/ RedeemLink(r) \/ CreateSession(r) \/ Replace(r)
    PROVE  MailInv'
  <1>0. /\ redeemer[r] \in Redeemer \cup {Idle} /\ now \in 0..MaxTime
        /\ mail \in [Issuers -> Mail \cup {NoMail}] /\ userRow \in AccountRow
        /\ credential \in CredentialRow /\ lastReset \in Redeemers \cup {Original}
    BY DEF MailInv, MailTypeOK
  <1>1. PICK no \in Redeemer : no = [pc |-> "refused"] /\ ~HasRedeemed(no)
    <2>1. [pc |-> "refused"] \in [pc: {"refused"}]
      OBVIOUS
    <2>2. [pc |-> "refused"] \in Redeemer
      BY <2>1 DEF Redeemer
    <2>3. ~HasRedeemed([pc |-> "refused"])
      BY DEF HasRedeemed
    <2> QED BY <2>2, <2>3
  <1>2. ASSUME NEW i \in Issuers PROVE mail = [mail EXCEPT ![i] = mail[i]] /\ mail[i] \in Mail \cup {NoMail}
    BY <1>0
  <1>3. ASSUME NEW i \in Issuers, Refused(r),
               UNCHANGED <<now, userRow, credential, mail, issuer, writer, lastReset>>
        PROVE  MailInv'
    BY <1>0, <1>1, <1>2, <1>3, RedemptionStep DEF Refused
  <1>4. ASSUME NEW i \in Issuers, NEW right \in BOOLEAN, ReadMail(r, i, right) PROVE MailInv'
    <2>1. PICK x \in Redeemer :
            x = [pc |-> "ready", of |-> i, right |-> right, at |-> now] /\ ~HasRedeemed(x)
      <3>1. [pc |-> "ready", of |-> i, right |-> right, at |-> now]
              \in [pc: {"ready"}, of: Issuers, right: BOOLEAN, at: 0..MaxTime]
        BY <1>0
      <3>2. [pc |-> "ready", of |-> i, right |-> right, at |-> now] \in Redeemer
        BY <3>1 DEF Redeemer
      <3>3. ~HasRedeemed([pc |-> "ready", of |-> i, right |-> right, at |-> now])
        BY DEF HasRedeemed
      <3> QED BY <3>2, <3>3
    <2>2. UNCHANGED <<now, userRow, credential, mail, issuer, writer, lastReset>>
      BY <1>4 DEF ReadMail
    <2>3. CASE Refused(r)
      BY <1>3, <2>2, <2>3
    <2>4. CASE redeemer' = [redeemer EXCEPT ![r] = x]
      <3>1. /\ mail' = [mail EXCEPT ![i] = mail[i]] /\ mail[i] \in Mail \cup {NoMail}
            /\ userRow' \in AccountRow /\ credential' \in CredentialRow
            /\ lastReset' \in Redeemers \cup {Original}
        BY <1>0, <1>2, <2>2
      <3> QED BY <2>1, <2>2, <2>4, <3>1, RedemptionStep
    <2> QED BY <1>4, <2>1, <2>3, <2>4 DEF ReadMail
  <1>5. ASSUME redeemer[r].pc \in {"ready", "session"}
        PROVE  /\ redeemer[r].of \in Issuers
               /\ \A step \in {"session", "succeeded"} :
                     /\ [pc |-> step, of |-> redeemer[r].of] \in Redeemer
                     /\ HasRedeemed([pc |-> step, of |-> redeemer[r].of])
    <2>1. redeemer[r].of \in Issuers
      BY <1>0, <1>5 DEF Redeemer, Idle
    <2>2. ASSUME NEW step \in {"session", "succeeded"}
          PROVE  /\ [pc |-> step, of |-> redeemer[r].of] \in Redeemer
                 /\ HasRedeemed([pc |-> step, of |-> redeemer[r].of])
      <3>1. [pc |-> step, of |-> redeemer[r].of] \in [pc: {"session", "succeeded"}, of: Issuers]
        BY <2>1
      <3> QED BY <3>1 DEF Redeemer, HasRedeemed
    <2> QED BY <2>1, <2>2
  \* A redemption that takes an unconsumed mail: tried, and consumed if it answers.
  <1>6. ASSUME redeemer[r].pc = "ready", NEW i \in Issuers, i = redeemer[r].of,
               mail[i] # NoMail, ~mail[i].consumed, NEW m \in Mail, mail' = [mail EXCEPT ![i] = m],
               m.created = mail[i].created,
               Refused(r) \/ (\E step \in {"session", "succeeded"} : Redeemed(r, step) /\ m.consumed),
               UNCHANGED <<now, issuer, writer>>, userRow' \in AccountRow,
               credential' \in CredentialRow, lastReset' \in Redeemers \cup {Original}
        PROVE  MailInv'
    <2>1. m # NoMail
      BY NoMailAssumption
    <2>2. CASE Refused(r)
      BY <1>1, <1>6, <2>1, <2>2, RedemptionStep DEF Refused
    <2>3. ASSUME NEW step \in {"session", "succeeded"}, Redeemed(r, step), m.consumed
          PROVE  MailInv'
      <3>1. PICK x \in Redeemer :
              x = [pc |-> step, of |-> i] /\ HasRedeemed(x) /\ x.of = i
        BY <1>5, <1>6
      <3> QED BY <1>6, <2>1, <2>3, <3>1, RedemptionStep DEF Redeemed
    <2> QED BY <1>6, <2>2, <2>3
  <1>7. ASSUME NEW i \in Issuers, NEW t, Usable(i, t)
        PROVE  /\ mail[i] \in Mail /\ mail[i] # NoMail /\ ~mail[i].consumed
               /\ \A right \in BOOLEAN :
                     /\ Tried(i, right) \in Mail /\ Tried(i, right).created = mail[i].created
                     /\ Tried(i, right).consumed = right
    <2>1. mail[i] \in Mail /\ mail[i] # NoMail /\ ~mail[i].consumed
      BY <1>0, <1>7 DEF Usable
    <2>2. PICK old \in Mail : old = mail[i]
      BY <2>1
    <2>3. ASSUME NEW right \in BOOLEAN
          PROVE  /\ Tried(i, right) \in Mail /\ Tried(i, right).created = mail[i].created
                 /\ Tried(i, right).consumed = right
      <3>1. PICK n \in Nat : n = old.tries + 1
        BY DEF Mail
      <3>2. Tried(i, right) = [old EXCEPT !.tries = n, !.consumed = right]
        BY <2>2, <3>1 DEF Tried
      <3>3. [old EXCEPT !.tries = n, !.consumed = right] \in Mail
        BY DEF Mail
      <3>4. [old EXCEPT !.tries = n, !.consumed = right].created = old.created
        BY DEF Mail
      <3>5. [old EXCEPT !.tries = n, !.consumed = right].consumed = right
        BY Zenon DEF Mail
      <3> QED BY <2>2, <3>2, <3>3, <3>4, <3>5
    <2> QED BY <2>1, <2>3
  <1>8. CASE Confirm(r)
    <2>1. PICK i \in Issuers, right \in BOOLEAN :
            /\ i = redeemer[r].of /\ right = redeemer[r].right /\ redeemer[r].pc = "ready"
      BY <1>0, <1>8 DEF Confirm, Redeemer, Idle
    <2>2. UNCHANGED <<now, credential, issuer, writer, lastReset>>
      BY <1>8 DEF Confirm
    <2>3. CASE Refused(r) /\ UNCHANGED <<mail, userRow>>
      BY <1>3, <2>2, <2>3
    <2>4. ASSUME NEW t, Usable(i, t), mail' = [mail EXCEPT ![i] = Tried(i, right)],
                 userRow' = [userRow EXCEPT !.verified = @ \/ right],
                 IF right THEN Redeemed(r, "succeeded") ELSE Refused(r)
          PROVE  MailInv'
      <3>1. userRow' \in AccountRow
        BY <1>0, <2>4 DEF AccountRow
      <3>2. PICK m \in Mail : m = Tried(i, right) /\ m.created = mail[i].created /\ m.consumed = right
        BY <1>7, <2>4
      <3> QED BY <1>0, <1>6, <1>7, <2>1, <2>2, <2>4, <3>1, <3>2
    <2> QED BY <1>8, <2>1, <2>3, <2>4 DEF Confirm
  <1>9. CASE RedeemLink(r)
    <2>1. PICK i \in Issuers, right \in BOOLEAN :
            /\ i = redeemer[r].of /\ right = redeemer[r].right /\ redeemer[r].pc = "ready"
      BY <1>0, <1>9 DEF RedeemLink, Redeemer, Idle
    <2>2. UNCHANGED <<now, userRow, credential, issuer, writer, lastReset>>
      BY <1>9 DEF RedeemLink
    <2>3. CASE Refused(r) /\ UNCHANGED mail
      BY <1>3, <2>2, <2>3
    <2>4. ASSUME NEW t, Usable(i, t), mail' = [mail EXCEPT ![i] = Tried(i, right)],
                 IF right THEN Redeemed(r, "session") ELSE Refused(r)
          PROVE  MailInv'
      <3>1. PICK m \in Mail : m = Tried(i, right) /\ m.created = mail[i].created /\ m.consumed = right
        BY <1>7, <2>4
      <3> QED BY <1>0, <1>6, <1>7, <2>1, <2>2, <2>4, <3>1
    <2> QED BY <1>9, <2>1, <2>3, <2>4 DEF RedeemLink
  <1>10. CASE Replace(r)
    <2>1. PICK i \in Issuers : i = redeemer[r].of /\ redeemer[r].pc = "ready"
      BY <1>0, <1>10 DEF Replace, Redeemer, Idle
    <2>2. UNCHANGED <<now, userRow, issuer, writer>>
      BY <1>10 DEF Replace
    <2>3. CASE Refused(r) /\ UNCHANGED <<mail, credential, lastReset>>
      BY <1>3, <2>1, <2>2, <2>3
    <2>4. ASSUME NEW t, Usable(i, t), mail' = [mail EXCEPT ![i].consumed = TRUE],
                 credential' = [password |-> r, current |-> TRUE], lastReset' = r,
                 Redeemed(r, "succeeded")
          PROVE  MailInv'
      <3>1. PICK m \in Mail : /\ m = [mail[i] EXCEPT !.consumed = TRUE]
                              /\ m.created = mail[i].created /\ m.consumed
        <4>1. PICK old \in Mail : old = mail[i]
          BY <1>7, <2>4
        <4>2. [old EXCEPT !.consumed = TRUE] \in Mail
          BY DEF Mail
        <4>3. /\ [old EXCEPT !.consumed = TRUE].created = old.created
              /\ [old EXCEPT !.consumed = TRUE].consumed
          BY DEF Mail
        <4> QED BY <4>1, <4>2, <4>3
      <3>2. mail' = [mail EXCEPT ![i] = m]
        BY <2>4, <3>1
      <3>3. credential' \in CredentialRow /\ lastReset' \in Redeemers \cup {Original}
        BY <2>4 DEF CredentialRow
      <3> QED BY <1>0, <1>6, <1>7, <2>1, <2>2, <2>4, <3>1, <3>2, <3>3
    <2> QED BY <1>10, <2>1, <2>3, <2>4 DEF Replace
  <1>11. CASE CreateSession(r)
    <2>1. PICK i \in Issuers : i = redeemer[r].of /\ redeemer[r].pc = "session"
      BY <1>5, <1>11 DEF CreateSession
    <2>2. UNCHANGED <<now, userRow, credential, mail, issuer, writer, lastReset>>
      BY <1>11 DEF CreateSession
    <2>3. CASE Refused(r)
      BY <1>3, <2>2, <2>3
    <2>4. CASE Redeemed(r, "succeeded")
      <3>1. PICK x \in Redeemer :
              x = [pc |-> "succeeded", of |-> i] /\ HasRedeemed(x) /\ x.of = i
        BY <1>5, <2>1
      <3>2. HasRedeemed(redeemer[r]) /\ mail[i] # NoMail /\ mail[i].consumed
        BY <2>1 DEF HasRedeemed, MailInv
      <3> QED BY <1>0, <1>2, <2>1, <2>2, <2>4, <3>1, <3>2, RedemptionStep DEF Redeemed
    <2> QED BY <1>11, <2>3, <2>4 DEF CreateSession
  <1> QED BY <1>4, <1>8, <1>9, <1>10, <1>11

\* A request for a mail is counted with every mail of its window before it
\* is admitted.
LEMMA IssueSteps ==
    ASSUME MailInv, NEW i \in Issuers, (\E p \in Purposes : PrepareMail(i, p)) \/ AdmitMail(i)
    PROVE  MailInv'
  <1>0. /\ issuer \in [Issuers -> Issuer \cup {Idle}] /\ now \in 0..MaxTime
        /\ mail \in [Issuers -> Mail \cup {NoMail}] /\ userRow \in AccountRow
        /\ UNCHANGED <<now, userRow, credential, redeemer, writer, lastReset>>
        /\ IssueWindow \in Nat /\ MaxIssues \in Nat /\ MaxTime \in Nat
    BY MailAssumption, ClockAssumption DEF MailInv, MailTypeOK, PrepareMail, AdmitMail
  <1>1. \A r \in Redeemers : HasRedeemed(redeemer[r]) => redeemer[r].of \in Issuers
    <2>1. \A r \in Redeemers : redeemer[r] \in Redeemer \cup {Idle}
      BY DEF MailInv, MailTypeOK
    <2> QED BY <2>1 DEF HasRedeemed, Redeemer, Idle
  \* The request moves and no mail is kept.
  <1>2. ASSUME NEW x \in Issuer, issuer' = [issuer EXCEPT ![i] = x], UNCHANGED mail,
               mail[i] = NoMail
        PROVE  MailInv'
    <2>1. /\ issuer' \in [Issuers -> Issuer \cup {Idle}] /\ issuer'[i] = x
          /\ \A j \in Issuers : j # i => issuer'[j] = issuer[j]
      BY <1>0, <1>2
    <2>2. MailsWithinBudget' /\ IsFiniteSet(MailsKept')
      BY <1>2, <2>1, BudgetKeeps
    <2>3. MailTypeOK'
      BY <1>0, <1>2, <2>1 DEF MailInv, MailTypeOK
    <2>4. OneUsePerMail'
      BY <1>0 DEF MailInv, MailsAreLimited, OneUsePerMail
    <2>5. \A j \in Issuers : mail'[j] # NoMail => issuer'[j].pc = "sent"
      BY <1>2, <2>1 DEF MailInv
    <2> QED BY <1>0, <1>2, <2>2, <2>3, <2>4, <2>5 DEF MailInv, MailsAreLimited
  <1>3. ASSUME NEW p \in Purposes, PrepareMail(i, p) PROVE MailInv'
    <2>1. issuer[i].pc # "sent" /\ UNCHANGED mail
      BY <1>3 DEF PrepareMail, Idle
    <2>2. mail[i] = NoMail
      BY <2>1 DEF MailInv
    <2>3. PICK step \in {"admit", "sent", "suppressed"} :
            step = IF p = "link" /\ ~userRow.verified THEN "suppressed" ELSE "admit"
      OBVIOUS
    <2>4. PICK x \in Issuer :
            x = [purpose |-> p, address |-> userRow.email, created |-> now, pc |-> step]
      BY <1>0 DEF Issuer, AccountRow
    <2> QED BY <1>2, <1>3, <2>1, <2>2, <2>3, <2>4 DEF PrepareMail
  <1>4. CASE AdmitMail(i)
    <2>1. issuer[i] \in Issuer /\ issuer[i].pc = "admit" /\ mail[i] = NoMail
      BY <1>0, <1>4 DEF AdmitMail, Idle, MailInv
    <2>2. PICK p \in Purposes, c \in 0..MaxTime :
            p = issuer[i].purpose /\ c = issuer[i].created
      BY <2>1 DEF Issuer
    <2>3. CASE IssuerGoes(i, "suppressed") /\ UNCHANGED mail
      <3>1. PICK x \in Issuer : x = [issuer[i] EXCEPT !.pc = "suppressed"]
        BY <2>1 DEF Issuer
      <3>2. issuer' = [issuer EXCEPT ![i] = x]
        BY <1>0, <2>3, <3>1 DEF IssuerGoes
      <3> QED BY <1>2, <2>1, <2>3, <3>1, <3>2
    <2>4. CASE /\ Cardinality(Counted(issuer[i].purpose, issuer[i].created)) < MaxIssues
               /\ mail' = [mail EXCEPT ![i] = [address |-> issuer[i].address,
                       created |-> issuer[i].created, tries |-> 0, consumed |-> FALSE]]
               /\ IssuerGoes(i, "sent")
      <3>1. PICK x \in Issuer : x = [issuer[i] EXCEPT !.pc = "sent"] /\ x.purpose = p /\ x.pc = "sent"
        <4>1. [issuer[i] EXCEPT !.pc = "sent"] \in Issuer
          BY <2>1 DEF Issuer
        <4>2. /\ [issuer[i] EXCEPT !.pc = "sent"].purpose = issuer[i].purpose
              /\ [issuer[i] EXCEPT !.pc = "sent"].pc = "sent"
          BY <2>1 DEF Issuer
        <4> QED BY <2>2, <4>1, <4>2
      <3>2. /\ issuer' \in [Issuers -> Issuer \cup {Idle}] /\ issuer'[i] = x
            /\ \A j \in Issuers : j # i => issuer'[j] = issuer[j]
        BY <1>0, <2>4, <3>1 DEF IssuerGoes
      <3>3. PICK m \in Mail :
              /\ m = [address |-> issuer[i].address, created |-> issuer[i].created,
                      tries |-> 0, consumed |-> FALSE]
              /\ m.created = c
        <4>1. PICK a \in Addresses : a = issuer[i].address
          BY <2>1 DEF Issuer
        <4>2. [address |-> a, created |-> c, tries |-> 0, consumed |-> FALSE] \in Mail
          BY DEF Mail
        <4> QED BY <2>2, <4>1, <4>2
      <3>4. /\ mail' \in [Issuers -> Mail \cup {NoMail}] /\ mail'[i] = m
            /\ \A j \in Issuers : j # i => mail'[j] = mail[j]
        BY <1>0, <2>4, <3>3
      <3>5. m # NoMail
        BY NoMailAssumption
      <3>6. MailTypeOK'
        BY <1>0, <3>2, <3>4 DEF MailInv, MailTypeOK
      <3>7. IsFiniteSet(MailsKept')
        <4>1. MailsKept' = MailsKept \cup {i}
          BY <3>4, <3>5 DEF MailsKept
        <4> QED BY <4>1, FS_AddElement DEF MailInv
      <3>8. ASSUME NEW r \in Redeemers, HasRedeemed(redeemer[r])
            PROVE  mail[redeemer[r].of] # NoMail /\ mail'[redeemer[r].of] = mail[redeemer[r].of]
        BY <1>1, <2>1, <3>4, <3>8 DEF MailInv
      <3>9. MailsWithinBudget'
        <4> SUFFICES ASSUME NEW q \in Purposes, NEW t \in 0..MaxTime
                     PROVE  Cardinality({j \in Issuers :
                                /\ mail'[j] # NoMail /\ issuer'[j].purpose = q
                                /\ mail'[j].created \in t..(t + IssueWindow - 1)}) <= MaxIssues
          BY DEF MailsWithinBudget
        <4> DEFINE before == {j \in Issuers : /\ mail[j] # NoMail /\ issuer[j].purpose = q
                                              /\ mail[j].created \in t..(t + IssueWindow - 1)}
                   after == {j \in Issuers : /\ mail'[j] # NoMail /\ issuer'[j].purpose = q
                                             /\ mail'[j].created \in t..(t + IssueWindow - 1)}
        <4>1. before \subseteq MailsKept /\ i \notin before
          BY <2>1 DEF MailsKept
        <4>2. IsFiniteSet(before) /\ Cardinality(before) \in Nat /\ Cardinality(before) <= MaxIssues
          BY <4>1, FS_Subset, FS_CardinalityType DEF MailInv, MailsAreLimited, MailsWithinBudget
        <4>3. CASE q = p /\ c \in t..(t + IssueWindow - 1)
          <5>1. before \subseteq Counted(p, c)
            <6> SUFFICES ASSUME NEW j \in before PROVE j \in Counted(p, c)
              OBVIOUS
            <6>1. mail[j] \in Mail
              BY <1>0
            <6>2. mail[j].created \in Nat /\ mail[j].created >= t /\ c <= t + IssueWindow - 1
                  /\ c \in Nat /\ t \in Nat
              BY <1>0, <4>3, <6>1 DEF Mail
            <6>3. mail[j].created > c - IssueWindow
              BY <1>0, <6>2
            <6> QED BY <4>3, <6>3 DEF Counted
          <5>2. IsFiniteSet(Counted(p, c))
            <6>1. Counted(p, c) \subseteq MailsKept
              BY DEF Counted, MailsKept
            <6> QED BY <6>1, FS_Subset DEF MailInv
          <5>3. Cardinality(before) <= Cardinality(Counted(p, c)) /\ Cardinality(Counted(p, c)) \in Nat
            BY <5>1, <5>2, FS_Subset, FS_CardinalityType
          <5>4. after = before \cup {i}
            BY <2>1, <3>1, <3>2, <3>3, <3>4, <3>5, <4>3
          <5>5. Cardinality(after) = Cardinality(before) + 1
            BY <4>1, <4>2, <5>4, FS_AddElement
          <5> QED BY <1>0, <2>2, <2>4, <4>2, <5>3, <5>5
        <4>4. CASE ~(q = p /\ c \in t..(t + IssueWindow - 1))
          <5>1. after = before
            BY <2>1, <3>1, <3>2, <3>3, <3>4, <4>4
          <5> QED BY <4>2, <5>1
        <4> QED BY <4>3, <4>4
      <3>10. OneUsePerMail'
        BY <1>0 DEF MailInv, MailsAreLimited, OneUsePerMail
      <3>11. \A j \in Issuers : mail'[j] # NoMail => issuer'[j].pc = "sent"
        BY <3>1, <3>2, <3>4 DEF MailInv
      <3> QED BY <1>0, <3>6, <3>7, <3>8, <3>9, <3>10, <3>11 DEF MailInv, MailsAreLimited
    <2> QED BY <1>4, <2>3, <2>4 DEF AdmitMail
  <1> QED BY <1>3, <1>4

\* Logins, updates and the clock leave the mails alone.
LEMMA WriterSteps ==
    ASSUME MailInv,
           \/ \E w \in Writers : ReadAccount(w) \/ ReadCredential(w) \/ Rehash(w) \/ WriteAccount(w)
           \/ MailTick
    PROVE  MailInv'
  <1>1. /\ UNCHANGED <<mail, issuer, redeemer, lastReset>> /\ now' \in 0..MaxTime
        /\ userRow \in AccountRow /\ credential \in CredentialRow
        /\ writer \in [Writers -> Writer \cup {Idle}]
    <2>1. ASSUME NEW w \in Writers, ReadAccount(w) \/ ReadCredential(w) \/ Rehash(w) \/ WriteAccount(w)
          PROVE  UNCHANGED <<now, mail, issuer, redeemer, lastReset>>
      BY <2>1 DEF ReadAccount, ReadCredential, Rehash, WriteAccount
    <2>2. CASE MailTick
      BY <2>2, ClockAssumption DEF MailInv, MailTypeOK, MailTick, Tick
    <2> QED BY <2>1, <2>2 DEF MailInv, MailTypeOK
  <1>2. [pc |-> "done"] \in Writer
    <2>1. [pc |-> "done"] \in [pc: {"done"}]
      OBVIOUS
    <2> QED BY <2>1 DEF Writer
  <1> DEFINE Busy == {"credential", "rehash", "fail", "clear", "update"}
             Active == [pc: Busy, password: Redeemers \cup {Original}, copy: AccountRow]
  <1>3. Active \subseteq Writer
    BY DEF Writer
  <1>4. ASSUME NEW w \in Writers, writer[w].pc \in Busy
        PROVE  /\ writer[w] \in Active
               /\ writer[w].password \in Redeemers \cup {Original} /\ writer[w].copy \in AccountRow
               /\ \A step \in Busy : [writer[w] EXCEPT !.pc = step] \in Active
    <2>1. writer[w] \in Active
      BY <1>1, <1>4 DEF Writer, Idle
    <2> QED BY <2>1
  <1>5. ASSUME NEW w \in Writers, writer[w].pc \in Busy, NEW step \in Busy \cup {"done"}, WriterGoes(w, step)
        PROVE  writer' \in [Writers -> Writer \cup {Idle}]
    <2>1. CASE step = "done"
      BY <1>1, <1>2, <1>5, <2>1 DEF WriterGoes
    <2>2. CASE step # "done"
      <3>1. PICK x \in Writer : x = [writer[w] EXCEPT !.pc = step]
        BY <1>3, <1>4, <1>5, <2>2
      <3>2. writer' = [writer EXCEPT ![w] = x]
        BY <1>1, <1>5, <2>2, <3>1 DEF WriterGoes
      <3> QED BY <1>1, <3>2
    <2> QED BY <2>1, <2>2
  <1>6. /\ userRow' \in AccountRow /\ credential' \in CredentialRow
        /\ writer' \in [Writers -> Writer \cup {Idle}]
    <2>1. ASSUME NEW w \in Writers, ReadAccount(w)
          PROVE  writer' \in [Writers -> Writer \cup {Idle}] /\ UNCHANGED <<userRow, credential>>
      <3>1. PICK step \in {"credential", "update"} :
              writer' = [writer EXCEPT ![w] = [pc |-> step, password |-> Original, copy |-> userRow]]
        BY <2>1 DEF ReadAccount
      <3>2. [pc |-> step, password |-> Original, copy |-> userRow] \in Active
        BY <1>1
      <3>3. UNCHANGED <<userRow, credential>>
        BY <2>1 DEF ReadAccount
      <3> QED BY <1>1, <1>3, <3>1, <3>2, <3>3
    <2>2. ASSUME NEW w \in Writers, ReadCredential(w)
          PROVE  writer' \in [Writers -> Writer \cup {Idle}] /\ UNCHANGED <<userRow, credential>>
      <3>1. writer[w].pc \in Busy /\ UNCHANGED <<userRow, credential>>
        BY <2>2 DEF ReadCredential
      <3>2. CASE \E step \in Busy \cup {"done"} : WriterGoes(w, step)
        BY <1>5, <3>1, <3>2
      <3>3. CASE writer' = [writer EXCEPT ![w] = [@ EXCEPT !.pc = "rehash",
                                                       !.password = credential.password]]
        <4>1. PICK x \in Writer : x = [writer[w] EXCEPT !.pc = "rehash", !.password = credential.password]
          <5>1. credential.password \in Redeemers \cup {Original}
            BY <1>1 DEF CredentialRow
          <5>2. [writer[w] EXCEPT !.pc = "rehash", !.password = credential.password] \in Active
            BY <1>4, <3>1, <5>1
          <5> QED BY <1>3, <5>2
        <4>2. writer' = [writer EXCEPT ![w] = x]
          BY <1>1, <3>3, <4>1
        <4> QED BY <1>1, <3>1, <4>2
      <3> QED BY <2>2, <3>2, <3>3 DEF ReadCredential, Verified
    <2>3. ASSUME NEW w \in Writers, Rehash(w)
          PROVE  /\ writer' \in [Writers -> Writer \cup {Idle}]
                 /\ credential' \in CredentialRow /\ UNCHANGED userRow
      <3>1. writer[w].pc \in Busy /\ Verified(w) \in Busy \cup {"done"} /\ WriterGoes(w, Verified(w))
            /\ UNCHANGED userRow
        BY <2>3 DEF Rehash, Verified
      <3>2. credential' \in CredentialRow
        BY <1>4, <2>3, <3>1 DEF Rehash, CredentialRow
      <3> QED BY <1>5, <3>1, <3>2
    <2>4. ASSUME NEW w \in Writers, WriteAccount(w)
          PROVE  /\ writer' \in [Writers -> Writer \cup {Idle}]
                 /\ userRow' \in AccountRow /\ UNCHANGED credential
      <3>1. writer[w].pc \in Busy /\ WriterGoes(w, "done") /\ UNCHANGED credential
        BY <2>4 DEF WriteAccount
      <3>2. userRow' \in AccountRow
        BY <1>4, <2>4, <3>1 DEF WriteAccount, AccountRow
      <3> QED BY <1>5, <3>1, <3>2
    <2>5. CASE MailTick
      BY <1>1, <2>5 DEF MailTick
    <2> QED BY <1>1, <2>1, <2>2, <2>3, <2>4, <2>5
  <1>7. MailTypeOK'
    BY <1>1, <1>6 DEF MailInv, MailTypeOK
  <1>8. MailsWithinBudget' /\ IsFiniteSet(MailsKept')
    BY <1>1, BudgetKeeps
  <1>9. OneUsePerMail'
    BY <1>1 DEF MailInv, MailsAreLimited, OneUsePerMail
  <1> QED BY <1>1, <1>7, <1>8, <1>9 DEF MailInv, MailsAreLimited

\* The mail invariant holds at the start.
LEMMA MailStart == ASSUME MailInit PROVE MailInv
  <1>1. MailsKept = {} /\ IsFiniteSet(MailsKept)
    BY FS_EmptySet DEF MailInit, MailsKept
  <1>2. MailTypeOK /\ now \in 0..MaxTime
    <2>1. userRow \in AccountRow
      BY DEF MailInit, AccountRow
    <2>2. credential \in CredentialRow
      BY DEF MailInit, CredentialRow
    <2> QED BY <2>1, <2>2, ClockAssumption DEF MailInit, MailTypeOK
  <1>3. MailsWithinBudget
    <2>1. ASSUME NEW p \in Purposes, NEW t \in 0..MaxTime
          PROVE  {i \in Issuers : /\ mail[i] # NoMail /\ issuer[i].purpose = p
                                  /\ mail[i].created \in t..(t + IssueWindow - 1)} = {}
      BY DEF MailInit
    <2>2. ASSUME NEW p \in Purposes, NEW t \in 0..MaxTime
          PROVE  Cardinality({i \in Issuers :
                     /\ mail[i] # NoMail /\ issuer[i].purpose = p
                     /\ mail[i].created \in t..(t + IssueWindow - 1)}) <= MaxIssues
      <3>1. Cardinality({}) = 0 /\ 0 <= MaxIssues
        BY FS_EmptySet, MailAssumption
      <3> QED BY <2>1, <3>1
    <2> QED BY <2>2 DEF MailsWithinBudget
  <1>4. \A r \in Redeemers : redeemer[r].pc = "idle"
    BY DEF MailInit, Idle
  <1> QED BY <1>1, <1>2, <1>3, <1>4 DEF MailInv, MailInit, MailsAreLimited, OneUsePerMail, HasRedeemed

\* The inductive invariant of an account's mails.
THEOREM MailInvariant == MailSpec => []MailInv
  <1>1. ASSUME MailInv, [MailNext]_mailVars PROVE MailInv'
    <2>1. CASE UNCHANGED mailVars
      BY <1>1, <2>1 DEF mailVars, MailInv, MailTypeOK, MailsKept, MailsAreLimited,
                        MailsWithinBudget, OneUsePerMail
    <2> QED BY <1>1, <2>1, IssueSteps, RedemptionSteps, WriterSteps DEF MailNext
  <1> QED BY <1>1, MailStart, PTL DEF MailSpec

\* ciam.rs: no window holds more mails of a kind than its budget, in whatever
\* order the requests are admitted, and a mail is used at most once.
THEOREM MailsLimited == MailSpec => [](MailTypeOK /\ MailsAreLimited)
  <1>1. MailInv => MailTypeOK /\ MailsAreLimited
    BY DEF MailInv
  <1> QED BY <1>1, MailInvariant, PTL

-----------------------------------------------------------------------------
(* RelationCheck.  The queue is in the order of depth, so a userset is first *)
(* listed at the least depth it is queued with: what the tuples stored all   *)
(* the while relate to a listed userset is listed or queued no deeper.       *)

ReachAfter(R, f, d) ==
    IF d = 0 THEN {Root}
    ELSE f[d - 1] \cup {v \in Usersets : \E u \in f[d - 1] : <<u, v>> \in R}
IsReach(R, n, f) == f = [d \in 0..n |-> ReachAfter(R, f, d)]

\* A reach function is what its equation says, at every depth.
LEMMA ReachUnfolds ==
    ASSUME NEW R, NEW n, NEW f, IsReach(R, n, f)
    PROVE  \A d \in 0..n : f[d] = ReachAfter(R, f, d)
  <1>1. \A d \in 0..n : [k \in 0..n |-> ReachAfter(R, f, k)][d] = ReachAfter(R, f, d)
    OBVIOUS
  <1> QED BY <1>1 DEF IsReach

\* The recursive function that follows the tuples exists.
LEMMA ReachExists ==
    ASSUME NEW R, NEW n \in Nat
    PROVE  \E f : IsReach(R, n, f)
  <1> DEFINE T == {k \in Nat : ~ \E f : IsReach(R, k, f)}
  <1> SUFFICES ASSUME T # {} PROVE FALSE
    OBVIOUS
  <1>1. PICK x \in T : \A y \in T : x <= y
    BY LeastNumber
  <1>2. x # 0
    <2> DEFINE m == [d \in 0..0 |-> {Root}]
    <2>1. \A d \in 0..0 : m[d] = ReachAfter(R, m, d)
      BY DEF ReachAfter
    <2>2. IsReach(R, 0, m)
      BY <2>1 DEF IsReach
    <2> QED BY <1>1, <2>2
  <1>3. x \in Nat /\ x - 1 \in Nat /\ x - 1 \notin T
    BY <1>1, <1>2
  <1>4. PICK m : IsReach(R, x - 1, m)
    BY <1>3
  <1> DEFINE last == m[x - 1] \cup {v \in Usersets : \E u \in m[x - 1] : <<u, v>> \in R}
             w == [d \in 0..x |-> IF d = x THEN last ELSE m[d]]
  <1>5. \A d \in 0..(x - 1) : w[d] = m[d] /\ m[d] = ReachAfter(R, m, d)
    <2>1. \A d \in 0..(x - 1) : d \in 0..x /\ d # x
      BY <1>3
    <2>2. \A d \in 0..(x - 1) : w[d] = m[d]
      BY <2>1
    <2> QED BY <1>4, <2>2, ReachUnfolds
  <1>6. w[x] = last
    BY <1>3
  <1>7. ASSUME NEW d \in 0..x PROVE w[d] = ReachAfter(R, w, d)
    <2>1. CASE d = 0
      <3>1. 0 \in 0..(x - 1)
        BY <1>2, <1>3
      <3> HIDE DEF w
      <3> QED BY <1>5, <2>1, <3>1 DEF ReachAfter
    <2>2. CASE d # 0
      <3>1. d - 1 \in 0..(x - 1) /\ w[d - 1] = m[d - 1]
        BY <1>3, <1>5, <2>2
      <3> HIDE DEF w
      <3>2. CASE d = x
        BY <1>6, <2>2, <3>1, <3>2 DEF ReachAfter
      <3>3. CASE d # x
        <4>1. d \in 0..(x - 1)
          BY <1>3, <3>3
        <4> QED BY <1>5, <2>2, <3>1, <4>1 DEF ReachAfter
      <3> QED BY <3>2, <3>3
    <2> QED BY <2>1, <2>2
  <1>8. w = [d \in 0..x |-> ReachAfter(R, w, d)]
    <2>1. w = [d \in 0..x |-> w[d]]
      OBVIOUS
    <2> HIDE DEF w
    <2> QED BY <1>7, <2>1
  <1> QED BY <1>1, <1>8 DEF IsReach

\* Related, by the function its definition computes.
LEMMA RelatedReach ==
    ASSUME NEW R
    PROVE  \E f : /\ IsReach(R, MaxDepth, f)
                  /\ Related(R) <=> \E u \in f[MaxDepth] : <<u, Subject>> \in R
  <1> DEFINE reach[d \in 0..MaxDepth] ==
               IF d = 0 THEN {Root}
               ELSE reach[d - 1] \cup {v \in Usersets : \E u \in reach[d - 1] : <<u, v>> \in R}
             reaches(g) == g = [d \in 0..MaxDepth |->
               IF d = 0 THEN {Root}
               ELSE g[d - 1] \cup {v \in Usersets : \E u \in g[d - 1] : <<u, v>> \in R}]
  <1>1. PICK w : reaches(w)
    <2>1. PICK h : IsReach(R, MaxDepth, h)
      BY RelationAssumption, ReachExists
    <2> QED BY <2>1 DEF IsReach, ReachAfter
  <1>2. reach = CHOOSE g : reaches(g)
    BY DEF reach
  <1>3. reaches(reach)
    <2> HIDE DEF reach, reaches
    <2> QED BY <1>1, <1>2
  <1>4. Related(R) <=> \E u \in reach[MaxDepth] : <<u, Subject>> \in R
    BY DEF Related
  <1> HIDE DEF reach
  <1> QED BY <1>3, <1>4 DEF IsReach, ReachAfter

\* More tuples and more depth reach more.
LEMMA ReachGrows ==
    ASSUME NEW R, NEW Q, R \subseteq Q, NEW f, IsReach(R, MaxDepth, f),
           NEW g, IsReach(Q, MaxDepth, g), NEW k \in 0..MaxDepth
    PROVE  f[k] \subseteq g[k]
  <1> DEFINE T == {d \in Nat : d <= MaxDepth /\ ~(f[d] \subseteq g[d])}
  <1>0. MaxDepth \in Nat
    BY RelationAssumption
  <1> SUFFICES ASSUME T # {} PROVE FALSE
    BY <1>0
  <1>1. PICK x \in T : \A y \in T : x <= y
    BY LeastNumber
  <1>2. x \in 0..MaxDepth /\ f[x] = ReachAfter(R, f, x) /\ g[x] = ReachAfter(Q, g, x)
    BY <1>0, <1>1, ReachUnfolds
  <1>3. x # 0
    BY <1>1, <1>2 DEF ReachAfter
  <1>4. x - 1 \in Nat /\ x - 1 <= MaxDepth /\ ~(x <= x - 1)
    BY <1>0, <1>2, <1>3
  <1>5. f[x - 1] \subseteq g[x - 1]
    BY <1>1, <1>4
  <1>6. f[x] \subseteq g[x]
    BY <1>2, <1>3, <1>5 DEF ReachAfter
  <1> QED BY <1>1, <1>6

\* What is reached at a depth is reached at MaxDepth.
LEMMA ReachDeepens ==
    ASSUME NEW R, NEW f, IsReach(R, MaxDepth, f), NEW k \in 0..MaxDepth
    PROVE  f[k] \subseteq f[MaxDepth]
  <1> DEFINE T == {d \in Nat : k + d <= MaxDepth /\ ~(f[k] \subseteq f[k + d])}
  <1>0. MaxDepth \in Nat /\ k \in Nat
    BY RelationAssumption
  <1>1. ASSUME T # {} PROVE FALSE
    <2>1. PICK x \in T : \A y \in T : x <= y
      BY <1>1, LeastNumber
    <2>2. x # 0 /\ x \in Nat /\ k + x <= MaxDepth
      BY <1>0, <2>1
    <2>3. /\ x - 1 \in Nat /\ k + (x - 1) <= MaxDepth /\ ~(x <= x - 1)
          /\ k + x \in 0..MaxDepth /\ k + x # 0 /\ (k + x) - 1 = k + (x - 1)
      BY <1>0, <2>2
    <2>4. f[k] \subseteq f[k + (x - 1)]
      BY <2>1, <2>3
    <2>5. f[k + x] = ReachAfter(R, f, k + x)
      BY <2>3, ReachUnfolds
    <2>6. f[k + (x - 1)] \subseteq f[k + x]
      BY <2>3, <2>5 DEF ReachAfter
    <2> QED BY <2>1, <2>4, <2>6
  <1>2. MaxDepth - k \in Nat /\ k + (MaxDepth - k) = MaxDepth
    BY <1>0
  <1> QED BY <1>1, <1>2

\* One tuple further.
LEMMA ReachStep ==
    ASSUME NEW R, NEW f, IsReach(R, MaxDepth, f), NEW k \in Nat, k + 1 <= MaxDepth,
           NEW u \in f[k], NEW v \in Usersets, <<u, v>> \in R
    PROVE  v \in f[k + 1]
  <1>1. k + 1 \in 0..MaxDepth /\ k + 1 # 0 /\ (k + 1) - 1 = k
    BY RelationAssumption
  <1>2. f[k + 1] = ReachAfter(R, f, k + 1)
    BY <1>1, ReachUnfolds
  <1> QED BY <1>1, <1>2 DEF ReachAfter

\* v is listed no deeper than d, or will be, or is too deep.
Owed(q, L, dep, v, d) ==
    \/ d > MaxDepth
    \/ v \in L /\ dep[v] <= d
    \/ \E i \in DOMAIN q : q[i].userset = v /\ q[i].depth <= d

\* dep is the depth at which each userset was listed.
Covered(q, L, A, dep) ==
    /\ Owed(q, L, dep, Root, 0)
    /\ \A x \in L :
          /\ <<x, Subject>> \notin A
          /\ \A i \in DOMAIN q : dep[x] <= q[i].depth
          /\ \A v \in Usersets : <<x, v>> \in A => Owed(q, L, dep, v, dep[x] + 1)

InOrder(q) ==
    \A i, j \in DOMAIN q : /\ i < j => q[i].depth <= q[j].depth
                           /\ q[j].depth <= q[i].depth + 1

\* What is queued is related to Root, at its depth.
QueueReached(q, R) ==
    \A f : IsReach(R, MaxDepth, f) =>
        \A i \in DOMAIN q : q[i].depth <= MaxDepth => q[i].userset \in f[q[i].depth]

RelationInv ==
    /\ RelationTypeOK
    /\ walking = "idle" => listed = {}
    /\ walking = "walk" => /\ alwaysStored \subseteq tuples /\ tuples \subseteq everStored
                           /\ InOrder(worklist) /\ QueueReached(worklist, everStored)
    /\ walking \in {"walk", "no"} =>
          \E dep \in [listed -> 0..MaxDepth] : Covered(worklist, listed, alwaysStored, dep)
    /\ walking = "no" => worklist = <<>>
    /\ walking = "yes" => Related(everStored)

\* At the end of a walk nothing is owed: every userset within the depth was
\* listed without the subject.
LEMMA CoveredIsUnrelated ==
    ASSUME NEW L, NEW A, NEW dep \in [L -> 0..MaxDepth], Covered(<<>>, L, A, dep)
    PROVE  ~Related(A)
  <1>0. MaxDepth \in Nat
    BY RelationAssumption
  <1>1. PICK f : /\ IsReach(A, MaxDepth, f)
                 /\ Related(A) <=> \E u \in f[MaxDepth] : <<u, Subject>> \in A
    BY RelatedReach
  <1> DEFINE T == {d \in Nat : d <= MaxDepth /\ ~ \A v \in f[d] : v \in L /\ dep[v] <= d}
  <1>2. T = {}
    <2> SUFFICES ASSUME T # {} PROVE FALSE
      OBVIOUS
    <2>1. PICK x \in T : \A y \in T : x <= y
      BY LeastNumber
    <2>2. x \in 0..MaxDepth /\ x \in Nat /\ f[x] = ReachAfter(A, f, x)
      BY <1>0, <1>1, <2>1, ReachUnfolds
    <2>3. PICK v \in f[x] : ~(v \in L /\ dep[v] <= x)
      BY <2>1
    <2>4. ASSUME NEW u, NEW d \in Nat, d <= MaxDepth, Owed(<<>>, L, dep, u, d)
          PROVE  u \in L /\ dep[u] <= d
      BY <1>0, <2>4 DEF Owed
    <2>5. CASE x = 0
      <3>1. v = Root
        BY <2>2, <2>3, <2>5 DEF ReachAfter
      <3>2. Owed(<<>>, L, dep, Root, 0)
        BY DEF Covered
      <3>3. Root \in L /\ dep[Root] <= 0
        BY <1>0, <2>4, <3>2
      <3> QED BY <2>3, <2>5, <3>1, <3>3
    <2>6. CASE x # 0
      <3>1. x - 1 \in Nat /\ x - 1 <= MaxDepth /\ ~(x <= x - 1)
        BY <1>0, <2>2, <2>6
      <3>2. \A u \in f[x - 1] : u \in L /\ dep[u] <= x - 1
        BY <2>1, <3>1
      <3>3. CASE v \in f[x - 1]
        <4>1. v \in L /\ dep[v] <= x - 1 /\ dep[v] \in 0..MaxDepth
          BY <3>2, <3>3
        <4>2. dep[v] <= x
          BY <1>0, <2>2, <4>1
        <4> QED BY <2>3, <4>1, <4>2
      <3>4. CASE v \notin f[x - 1]
        <4>1. v \in Usersets /\ \E u \in f[x - 1] : <<u, v>> \in A
          BY <2>2, <2>3, <2>6, <3>4 DEF ReachAfter
        <4>2. PICK u \in f[x - 1] : <<u, v>> \in A
          BY <4>1
        <4>3. u \in L /\ dep[u] <= x - 1 /\ dep[u] \in 0..MaxDepth
          BY <3>2, <4>2
        <4>4. Owed(<<>>, L, dep, v, dep[u] + 1)
          BY <4>1, <4>2, <4>3 DEF Covered
        <4>5. dep[u] + 1 \in Nat /\ dep[u] + 1 <= x /\ dep[u] + 1 <= MaxDepth
          BY <1>0, <2>2, <3>1, <4>3
        <4>6. v \in L /\ dep[v] <= dep[u] + 1
          BY <2>4, <4>4, <4>5
        <4>7. dep[v] \in 0..MaxDepth
          BY <4>6
        <4>8. dep[v] <= x
          BY <1>0, <2>2, <4>5, <4>6, <4>7
        <4> QED BY <2>3, <4>6, <4>8
      <3> QED BY <3>3, <3>4
    <2> QED BY <2>5, <2>6
  <1>3. \A v \in f[MaxDepth] : v \in L
    BY <1>0, <1>2
  <1> QED BY <1>1, <1>3 DEF Covered

\* The usersets of a tuple list, in any order, are all of them.
LEMMA OrderIsComplete ==
    ASSUME NEW S \in SUBSET Usersets, NEW order \in SetToSeqs(S)
    PROVE  /\ order \in [1..Cardinality(S) -> S] /\ Cardinality(S) \in Nat
           /\ \A v \in S : \E k \in DOMAIN order : order[k] = v
  <1>1. IsFiniteSet(S) /\ Cardinality(S) \in Nat
    BY RelationAssumption, FS_Subset, FS_CardinalityType
  <1>2. /\ order \in [1..Cardinality(S) -> S]
        /\ \A i, j \in 1..Cardinality(S) : i # j => order[i] # order[j]
    BY DEF SetToSeqs
  <1>3. ASSUME NEW v \in S, \A k \in 1..Cardinality(S) : order[k] # v PROVE FALSE
    <2>1. order \in [1..Cardinality(S) -> S \ {v}]
      BY <1>2, <1>3
    <2>2. IsFiniteSet(S \ {v}) /\ Cardinality(S \ {v}) = Cardinality(S) - 1
      BY <1>1, <1>3, FS_RemoveElement
    <2>3. IsFiniteSet(1..Cardinality(S)) /\ Cardinality(1..Cardinality(S)) = Cardinality(S)
      <3>1. 1 <= Cardinality(S)
        BY <1>1, <1>3, FS_EmptySet
      <3>2. /\ IsFiniteSet(1..Cardinality(S))
            /\ Cardinality(1..Cardinality(S)) =
                 IF 1 > Cardinality(S) THEN 0 ELSE Cardinality(S) - 1 + 1
        BY <1>1, FS_Interval
      <3> QED BY <1>1, <3>1, <3>2
    <2>4. Cardinality(S \ {v}) < Cardinality(1..Cardinality(S))
      BY <1>1, <2>2, <2>3
    <2>5. \E x, y \in 1..Cardinality(S) : x # y /\ order[x] = order[y]
      <3>1. PICK D, V : D = 1..Cardinality(S) /\ V = S \ {v}
        OBVIOUS
      <3>2. /\ IsFiniteSet(D) /\ IsFiniteSet(V) /\ Cardinality(V) < Cardinality(D)
            /\ order \in [D -> V]
        BY <2>1, <2>2, <2>3, <2>4, <3>1
      <3>3. \E x, y \in D : x # y /\ order[x] = order[y]
        BY <3>2, FS_PigeonHole
      <3> QED BY <3>1, <3>3
    <2> QED BY <1>2, <2>5
  <1> QED BY <1>1, <1>2, <1>3

\* The queue without its first item.
LEMMA QueueTail ==
    ASSUME NEW q \in Seq(Item), q # <<>>
    PROVE  /\ Head(q) \in Item /\ 1 \in DOMAIN q /\ q[1] = Head(q)
           /\ Tail(q) \in Seq(Item)
           /\ \A i \in DOMAIN Tail(q) : i \in Nat /\ i + 1 \in DOMAIN q /\ Tail(q)[i] = q[i + 1]
           /\ \A j \in DOMAIN q : j # 1 => j - 1 \in DOMAIN Tail(q) /\ Tail(q)[j - 1] = q[j]
           /\ \A j \in DOMAIN q : j \in Nat /\ 1 <= j /\ q[j] \in Item
  <1>1. /\ Tail(q) \in Seq(Item) /\ Len(Tail(q)) = Len(q) - 1 /\ Head(q) \in Item
        /\ \A i \in 1..Len(Tail(q)) : Tail(q)[i] = q[i + 1]
    BY HeadTailProperties
  <1>2. /\ DOMAIN q = 1..Len(q) /\ Len(q) \in Nat \ {0} /\ DOMAIN Tail(q) = 1..Len(Tail(q))
    BY <1>1, EmptySeq, LenProperties
  <1>3. \A i \in DOMAIN Tail(q) : i \in Nat /\ i + 1 \in DOMAIN q /\ Tail(q)[i] = q[i + 1]
    BY <1>1, <1>2
  <1>4. ASSUME NEW j \in DOMAIN q, j # 1
        PROVE  j - 1 \in DOMAIN Tail(q) /\ Tail(q)[j - 1] = q[j]
    <2>1. j - 1 \in 1..Len(Tail(q)) /\ (j - 1) + 1 = j
      BY <1>1, <1>2, <1>4
    <2> QED BY <1>1, <1>2, <2>1
  <1>5. \A j \in DOMAIN q : j \in Nat /\ 1 <= j /\ q[j] \in Item
    BY <1>2, ElementOfSeq
  <1>6. 1 \in DOMAIN q /\ q[1] = Head(q)
    BY <1>2
  <1> QED BY <1>1, <1>3, <1>4, <1>5, <1>6

\* What is owed is still owed when an item is skipped.
LEMMA SkipStep ==
    ASSUME RelationInv, SkipItem
    PROVE  RelationInv'
  <1>1. /\ walking = "walk" /\ worklist # <<>> /\ worklist' = Tail(worklist)
        /\ UNCHANGED <<tuples, walking, listed, alwaysStored, everStored, editCount>>
        /\ Skipped(Head(worklist)) /\ worklist \in Seq(Item)
    BY DEF RelationInv, RelationTypeOK, SkipItem
  <1>2. PICK q \in Seq(Item), t \in Seq(Item) :
          q = worklist /\ t = Tail(q) /\ t = worklist' /\ q # <<>>
    BY <1>1, QueueTail
  <1>3. /\ q[1] \in Item /\ 1 \in DOMAIN q /\ q[1] = Head(q)
        /\ \A i \in DOMAIN t : i \in Nat /\ i + 1 \in DOMAIN q /\ t[i] = q[i + 1]
        /\ \A j \in DOMAIN q : j # 1 => j - 1 \in DOMAIN t /\ t[j - 1] = q[j]
        /\ \A j \in DOMAIN q : j \in Nat /\ 1 <= j /\ q[j] \in Item
    BY <1>2, QueueTail
  <1>4. \A j \in DOMAIN q : q[j].depth \in Nat
    BY <1>3 DEF Item
  <1>5. InOrder(t)
    <2>1. InOrder(q)
      BY <1>1, <1>2 DEF RelationInv
    <2> SUFFICES ASSUME NEW i \in DOMAIN t, NEW j \in DOMAIN t
                 PROVE  /\ i < j => t[i].depth <= t[j].depth
                        /\ t[j].depth <= t[i].depth + 1
      BY DEF InOrder
    <2>2. /\ i + 1 \in DOMAIN q /\ j + 1 \in DOMAIN q /\ t[i] = q[i + 1] /\ t[j] = q[j + 1]
          /\ i < j => i + 1 < j + 1
      BY <1>3
    <2> QED BY <2>1, <2>2 DEF InOrder
  <1>6. QueueReached(t, everStored)
    <2>1. QueueReached(q, everStored)
      BY <1>1, <1>2 DEF RelationInv
    <2> QED BY <1>3, <2>1 DEF QueueReached
  <1>7. PICK dep \in [listed -> 0..MaxDepth] : Covered(q, listed, alwaysStored, dep)
    BY <1>1, <1>2 DEF RelationInv
  <1>8. ASSUME NEW v, NEW d \in Nat, Owed(q, listed, dep, v, d)
        PROVE  Owed(t, listed, dep, v, d)
    <2>1. CASE d > MaxDepth \/ (v \in listed /\ dep[v] <= d)
      BY <2>1 DEF Owed
    <2>2. ASSUME NEW i \in DOMAIN q, q[i].userset = v, q[i].depth <= d PROVE Owed(t, listed, dep, v, d)
      <3>1. CASE i # 1
        BY <1>3, <2>2, <3>1 DEF Owed
      <3>2. CASE i = 1
        <4>1. CASE q[1].depth > MaxDepth
          BY <1>4, <1>8, <2>2, <3>2, <4>1, RelationAssumption DEF Owed
        <4>2. CASE q[1].userset \in listed
          <5>1. v \in listed /\ dep[v] <= q[1].depth /\ dep[v] \in 0..MaxDepth
            BY <1>3, <1>7, <2>2, <3>2, <4>2 DEF Covered
          <5>2. dep[v] <= d
            BY <1>3, <1>4, <1>8, <2>2, <3>2, <5>1, RelationAssumption
          <5> QED BY <5>1, <5>2 DEF Owed
        <4> QED BY <1>1, <1>2, <1>3, <4>1, <4>2 DEF Skipped
      <3> QED BY <3>1, <3>2
    <2> QED BY <1>8, <2>1, <2>2 DEF Owed
  <1>9. Covered(t, listed, alwaysStored, dep)
    <2>1. Owed(t, listed, dep, Root, 0)
      BY <1>7, <1>8 DEF Covered
    <2>2. ASSUME NEW x \in listed
          PROVE  /\ <<x, Subject>> \notin alwaysStored
                 /\ \A i \in DOMAIN t : dep[x] <= t[i].depth
                 /\ \A v \in Usersets : <<x, v>> \in alwaysStored => Owed(t, listed, dep, v, dep[x] + 1)
      <3>1. dep[x] + 1 \in Nat
        BY RelationAssumption
      <3> QED BY <1>3, <1>7, <1>8, <3>1 DEF Covered
    <2> QED BY <2>1, <2>2 DEF Covered
  <1>10. RelationTypeOK'
    BY <1>1, <1>2 DEF RelationInv, RelationTypeOK
  <1> QED BY <1>1, <1>2, <1>5, <1>6, <1>9, <1>10 DEF RelationInv

\* A listed userset owes the usersets of the tuples stored all the while,
\* and they join the end of the queue, at most one deeper than its first item.
LEMMA ListUsersetStep ==
    ASSUME RelationInv, ListUserset
    PROVE  RelationInv'
  <1>1. /\ walking = "walk" /\ worklist # <<>> /\ ~Skipped(Head(worklist))
        /\ listed' = listed \cup {Head(worklist).userset}
        /\ UNCHANGED <<tuples, alwaysStored, everStored, editCount>>
        /\ worklist \in Seq(Item) /\ alwaysStored \subseteq tuples /\ tuples \subseteq everStored
    BY DEF RelationInv, RelationTypeOK, ListUserset
  <1>2. PICK q \in Seq(Item), t \in Seq(Item) : q = worklist /\ t = Tail(q) /\ q # <<>>
    BY <1>1, QueueTail
  <1>3. /\ q[1] \in Item /\ 1 \in DOMAIN q /\ q[1] = Head(q)
        /\ \A i \in DOMAIN t : i \in Nat /\ i + 1 \in DOMAIN q /\ t[i] = q[i + 1]
        /\ \A j \in DOMAIN q : j # 1 => j - 1 \in DOMAIN t /\ t[j - 1] = q[j]
        /\ \A j \in DOMAIN q : j \in Nat /\ 1 <= j /\ q[j] \in Item
    BY <1>2, QueueTail
  <1>4. PICK u \in Usersets, d \in Nat :
          u = q[1].userset /\ d = q[1].depth /\ d <= MaxDepth /\ u \notin listed
    BY <1>1, <1>2, <1>3, RelationAssumption DEF Skipped, Item
  <1>5. InOrder(q) /\ QueueReached(q, everStored)
    BY <1>1, <1>2 DEF RelationInv
  <1>6. CASE <<u, Subject>> \in tuples
    <2>1. walking' = "yes" /\ worklist' = <<>>
      BY <1>2, <1>3, <1>4, <1>6 DEF ListUserset
    <2>2. PICK f : /\ IsReach(everStored, MaxDepth, f)
                   /\ Related(everStored) <=> \E w \in f[MaxDepth] : <<w, Subject>> \in everStored
      BY RelatedReach
    <2>3. u \in f[d]
      BY <1>3, <1>4, <1>5, <2>2 DEF QueueReached
    <2>4. d \in 0..MaxDepth
      BY <1>4, RelationAssumption
    <2>5. u \in f[MaxDepth]
      BY <2>2, <2>3, <2>4, ReachDeepens
    <2>6. Related(everStored')
      BY <1>1, <1>6, <2>2, <2>5
    <2>7. RelationTypeOK'
      BY <1>1, <1>2, <1>3, <1>4, <2>1 DEF RelationInv, RelationTypeOK
    <2> QED BY <2>1, <2>6, <2>7 DEF RelationInv
  <1>7. CASE <<u, Subject>> \notin tuples
    <2>1. UNCHANGED walking /\ \E order \in SetToSeqs(Inner(u)) :
            worklist' = t \o [k \in DOMAIN order |-> [userset |-> order[k], depth |-> d + 1]]
      BY <1>2, <1>3, <1>4, <1>7 DEF ListUserset, Pushed
    <2>2. PICK order \in SetToSeqs(Inner(u)) :
            worklist' = t \o [k \in DOMAIN order |-> [userset |-> order[k], depth |-> d + 1]]
      BY <2>1
    <2>3. PICK n \in Nat : /\ n = Cardinality(Inner(u)) /\ order \in [1..n -> Inner(u)]
                           /\ \A v \in Inner(u) : \E k \in DOMAIN order : order[k] = v
      BY OrderIsComplete DEF Inner
    <2>4. PICK e \in Seq(Item) :
            /\ e = [k \in DOMAIN order |-> [userset |-> order[k], depth |-> d + 1]]
            /\ DOMAIN e = 1..n /\ Len(e) = n
            /\ \A k \in 1..n : e[k].userset = order[k] /\ e[k].depth = d + 1
      <3> DEFINE s == [k \in 1..n |-> [userset |-> order[k], depth |-> d + 1]]
      <3>1. \A k \in 1..n : [userset |-> order[k], depth |-> d + 1] \in Item
        <4>1. PICK b \in Nat : b = d + 1
          OBVIOUS
        <4>2. \A w \in Usersets : [userset |-> w, depth |-> b] \in Item
          BY DEF Item
        <4>3. \A k \in 1..n : order[k] \in Usersets
          BY <2>3 DEF Inner
        <4> QED BY <4>1, <4>2, <4>3
      <3>2. s \in Seq(Item)
        BY <2>3, <3>1, IsASeq
      <3>3. DOMAIN order = 1..n
        BY <2>3
      <3>4. \A k \in 1..n : s[k].userset = order[k] /\ s[k].depth = d + 1
        OBVIOUS
      <3>5. Len(s) = n
        BY <2>3, <3>2
      <3>6. DOMAIN s = 1..n
        OBVIOUS
      <3> QED BY <3>2, <3>3, <3>4, <3>5, <3>6
    <2>5. PICK p \in Seq(Item) : p = t \o e /\ p = worklist'
      BY <2>2, <2>4, ConcatProperties
    <2>6. PICK l \in Nat : l = Len(t) /\ DOMAIN t = 1..l
      BY LenProperties
    <2>7. /\ \A i \in DOMAIN p : \/ i \in DOMAIN t /\ p[i] = t[i]
                                 \/ i > l /\ i - l \in 1..n /\ p[i] = e[i - l]
          /\ \A i \in DOMAIN t : i \in DOMAIN p /\ p[i] = t[i]
          /\ \A k \in 1..n : l + k \in DOMAIN p /\ p[l + k] = e[k]
          /\ \A i \in DOMAIN p : i \in Nat
      <3>1. /\ DOMAIN p = 1..(l + n)
            /\ \A i \in 1..(l + n) : p[i] = IF i <= l THEN t[i] ELSE e[i - l]
        BY <2>4, <2>5, <2>6, ConcatProperties, LenProperties
      <3>2. ASSUME NEW k \in 1..n PROVE l + k \in 1..(l + n) /\ ~(l + k <= l) /\ (l + k) - l = k
        OBVIOUS
      <3>3. ASSUME NEW k \in 1..n PROVE l + k \in DOMAIN p /\ p[l + k] = e[k]
        BY <3>1, <3>2
      <3> QED BY <2>6, <3>1, <3>3
    <2>8. ASSUME NEW i \in DOMAIN t
          PROVE  t[i].depth \in Nat /\ d <= t[i].depth /\ t[i].depth <= d + 1
      <3>1. i + 1 \in DOMAIN q /\ t[i] = q[i + 1] /\ 1 < i + 1 /\ q[i + 1] \in Item
        BY <1>3, <2>6
      <3>2. q[1].depth <= q[i + 1].depth /\ q[i + 1].depth <= q[1].depth + 1
        BY <1>3, <1>5, <3>1 DEF InOrder
      <3> QED BY <1>4, <3>1, <3>2 DEF Item
    <2>9. ASSUME NEW i \in DOMAIN p
          PROVE  p[i].depth \in Nat /\ d <= p[i].depth /\ p[i].depth <= d + 1
      <3>1. CASE i \in DOMAIN t /\ p[i] = t[i]
        BY <2>8, <3>1
      <3>2. CASE i > l /\ i - l \in 1..n /\ p[i] = e[i - l]
        BY <2>4, <3>2
      <3> QED BY <2>7, <3>1, <3>2
    <2>10. InOrder(p)
      <3> SUFFICES ASSUME NEW i \in DOMAIN p, NEW j \in DOMAIN p
                   PROVE  /\ i < j => p[i].depth <= p[j].depth
                          /\ p[j].depth <= p[i].depth + 1
        BY DEF InOrder
      <3>1. p[j].depth <= p[i].depth + 1
        BY <2>9
      <3>2. ASSUME i < j PROVE p[i].depth <= p[j].depth
        <4>1. CASE j > l /\ j - l \in 1..n /\ p[j] = e[j - l]
          BY <2>4, <2>9, <4>1
        <4>2. CASE j \in DOMAIN t /\ p[j] = t[j]
          <5>1. i \in DOMAIN t /\ p[i] = t[i]
            BY <2>6, <2>7, <3>2, <4>2
          <5>2. /\ i + 1 \in DOMAIN q /\ j + 1 \in DOMAIN q /\ t[i] = q[i + 1] /\ t[j] = q[j + 1]
                /\ i + 1 < j + 1
            BY <1>3, <3>2, <4>2, <5>1
          <5> QED BY <1>5, <4>2, <5>1, <5>2 DEF InOrder
        <4> QED BY <2>7, <4>1, <4>2
      <3> QED BY <3>1, <3>2
    <2>11. QueueReached(p, everStored)
      <3> SUFFICES ASSUME NEW f, IsReach(everStored, MaxDepth, f), NEW i \in DOMAIN p,
                          p[i].depth <= MaxDepth
                   PROVE  p[i].userset \in f[p[i].depth]
        BY DEF QueueReached
      <3>1. CASE i \in DOMAIN t /\ p[i] = t[i]
        BY <1>3, <1>5, <3>1 DEF QueueReached
      <3>2. CASE i > l /\ i - l \in 1..n /\ p[i] = e[i - l]
        <4>1. PICK v \in Usersets : v = p[i].userset /\ <<u, v>> \in everStored
          BY <1>1, <2>3, <2>4, <3>2 DEF Inner
        <4>2. p[i].depth = d + 1
          BY <2>4, <3>2
        <4>3. u \in f[d]
          BY <1>3, <1>4, <1>5 DEF QueueReached
        <4> QED BY <4>1, <4>2, <4>3, ReachStep
      <3> QED BY <2>7, <3>1, <3>2
    <2>12. PICK dep \in [listed -> 0..MaxDepth] : Covered(q, listed, alwaysStored, dep)
      BY <1>1, <1>2 DEF RelationInv
    <2>13. PICK L : L = listed' /\ L = listed \cup {u}
      BY <1>1, <1>2, <1>3, <1>4
    <2> DEFINE new == [x \in L |-> IF x = u THEN d ELSE dep[x]]
    <2>14. /\ new \in [L -> 0..MaxDepth] /\ new[u] = d
           /\ \A x \in listed : new[x] = dep[x] /\ x # u /\ x \in L
      BY <1>4, <2>12, <2>13, RelationAssumption
    <2> HIDE DEF new
    <2>15. ASSUME NEW v, NEW b \in Nat, Owed(q, listed, dep, v, b)
           PROVE  Owed(p, L, new, v, b)
      <3>1. CASE b > MaxDepth \/ (v \in listed /\ dep[v] <= b)
        BY <2>14, <3>1 DEF Owed
      <3>2. ASSUME NEW i \in DOMAIN q, q[i].userset = v, q[i].depth <= b PROVE Owed(p, L, new, v, b)
        <4>1. CASE i # 1
          <5>1. i - 1 \in DOMAIN p /\ p[i - 1] = q[i]
            BY <1>3, <2>7, <4>1
          <5> QED BY <3>2, <5>1 DEF Owed
        <4>2. CASE i = 1
          BY <1>4, <2>13, <2>14, <3>2, <4>2 DEF Owed
        <4> QED BY <4>1, <4>2
      <3> QED BY <2>15, <3>1, <3>2 DEF Owed
    <2>16. Covered(p, L, alwaysStored, new)
      <3>1. Owed(p, L, new, Root, 0)
        BY <2>12, <2>15 DEF Covered
      <3>2. ASSUME NEW x \in listed
            PROVE  /\ <<x, Subject>> \notin alwaysStored
                   /\ \A i \in DOMAIN p : new[x] <= p[i].depth
                   /\ \A v \in Usersets : <<x, v>> \in alwaysStored => Owed(p, L, new, v, new[x] + 1)
        <4>1. dep[x] \in Nat /\ dep[x] + 1 \in Nat /\ new[x] = dep[x]
          BY <2>14, RelationAssumption
        <4>2. dep[x] <= d
          BY <1>3, <1>4, <2>12 DEF Covered
        <4>3. \A i \in DOMAIN p : dep[x] <= p[i].depth
          BY <2>9, <4>1, <4>2
        <4> QED BY <2>12, <2>15, <4>1, <4>3 DEF Covered
      <3>3. /\ <<u, Subject>> \notin alwaysStored
            /\ \A i \in DOMAIN p : new[u] <= p[i].depth
        BY <1>1, <1>7, <2>9, <2>14
      <3>4. ASSUME NEW v \in Usersets, <<u, v>> \in alwaysStored
            PROVE  Owed(p, L, new, v, new[u] + 1)
        <4>1. PICK k \in 1..n : order[k] = v
          BY <1>1, <2>3, <3>4 DEF Inner
        <4>2. l + k \in DOMAIN p /\ p[l + k].userset = v /\ p[l + k].depth = d + 1
          <5>1. e[k].userset = order[k] /\ e[k].depth = d + 1
            BY <2>4
          <5>2. l + k \in DOMAIN p /\ p[l + k] = e[k]
            BY <2>7
          <5> QED BY <4>1, <5>1, <5>2
        <4> QED BY <2>14, <4>2 DEF Owed
      <3> QED BY <2>13, <3>1, <3>2, <3>3, <3>4 DEF Covered
    <2>17. RelationTypeOK'
      BY <1>1, <1>2, <1>3, <1>4, <2>1, <2>5 DEF RelationInv, RelationTypeOK
    <2> QED BY <1>1, <2>1, <2>5, <2>10, <2>11, <2>13, <2>14, <2>16, <2>17 DEF RelationInv
  <1> QED BY <1>6, <1>7

\* Fewer tuples stored all the while owe less.
LEMMA CoveredShrinks ==
    ASSUME NEW q, NEW L, NEW A, NEW B \in SUBSET A, NEW dep, Covered(q, L, A, dep)
    PROVE  Covered(q, L, B, dep)
  BY DEF Covered

\* The writers.
LEMMA EditSteps ==
    ASSUME RelationInv, WriteTuple \/ DeleteTuple
    PROVE  RelationInv'
  <1>1. /\ UNCHANGED <<walking, worklist, listed>> /\ editCount' \in 0..MaxEdits
        /\ tuples' \subseteq Relations
        /\ alwaysStored' \subseteq alwaysStored /\ everStored \subseteq everStored'
        /\ everStored' \subseteq Relations
    BY RelationAssumption DEF WriteTuple, DeleteTuple, walkVars, RelationInv, RelationTypeOK
  <1>2. walking # "walk" => UNCHANGED <<alwaysStored, everStored>>
    BY DEF WriteTuple, DeleteTuple
  <1>3. walking = "walk" => alwaysStored' \subseteq tuples' /\ tuples' \subseteq everStored'
    BY DEF WriteTuple, DeleteTuple, RelationInv
  <1>4. ASSUME walking = "walk" PROVE QueueReached(worklist, everStored')
    <2> SUFFICES ASSUME NEW g, IsReach(everStored', MaxDepth, g), NEW i \in DOMAIN worklist,
                        worklist[i].depth <= MaxDepth
                 PROVE  worklist[i].userset \in g[worklist[i].depth]
      BY DEF QueueReached
    <2>1. PICK f : IsReach(everStored, MaxDepth, f)
      BY RelationAssumption, ReachExists
    <2>2. worklist[i].userset \in f[worklist[i].depth]
      BY <1>4, <2>1 DEF RelationInv, QueueReached
    <2>3. worklist[i] \in Item
      BY ElementOfSeq, LenProperties DEF RelationInv, RelationTypeOK
    <2>4. worklist[i].depth \in 0..MaxDepth
      BY <2>3, RelationAssumption DEF Item
    <2> QED BY <1>1, <2>1, <2>2, <2>4, ReachGrows
  <1>5. ASSUME walking \in {"walk", "no"}
        PROVE  \E dep \in [listed -> 0..MaxDepth] : Covered(worklist, listed, alwaysStored', dep)
    <2>1. PICK dep \in [listed -> 0..MaxDepth] : Covered(worklist, listed, alwaysStored, dep)
      BY <1>5 DEF RelationInv
    <2> QED BY <1>1, <2>1, CoveredShrinks
  <1>6. RelationTypeOK'
    BY <1>1 DEF RelationInv, RelationTypeOK
  <1> QED BY <1>1, <1>2, <1>3, <1>4, <1>5, <1>6 DEF RelationInv

\* The walk begins at Root.
LEMMA BeginStep ==
    ASSUME RelationInv, BeginWalk
    PROVE  RelationInv'
  <1>1. PICK q \in Seq(Item) :
          /\ q = worklist' /\ DOMAIN q = {1} /\ q[1].userset = Root /\ q[1].depth = 0
    <2>1. PICK r \in Item : r = [userset |-> Root, depth |-> 0] /\ r.userset = Root /\ r.depth = 0
      <3>1. [userset |-> Root, depth |-> 0] \in Item
        BY RelationAssumption DEF Item
      <3> QED BY <3>1
    <2>2. <<r>> \in Seq(Item) /\ DOMAIN <<r>> = {1} /\ <<r>>[1] = r
      OBVIOUS
    <2> QED BY <2>1, <2>2 DEF BeginWalk
  <1>2. /\ walking' = "walk" /\ listed' = {} /\ alwaysStored' = tuples /\ everStored' = tuples
        /\ UNCHANGED <<tuples, editCount>>
    BY DEF BeginWalk, RelationInv
  <1>3. RelationTypeOK'
    BY <1>1, <1>2 DEF RelationInv, RelationTypeOK
  <1>4. InOrder(q)
    BY <1>1 DEF InOrder
  <1>5. QueueReached(q, tuples)
    <2> SUFFICES ASSUME NEW f, IsReach(tuples, MaxDepth, f), NEW i \in DOMAIN q
                 PROVE  q[i].userset \in f[q[i].depth]
      BY DEF QueueReached
    <2>1. f[0] = ReachAfter(tuples, f, 0)
      BY RelationAssumption, ReachUnfolds
    <2> QED BY <1>1, <2>1 DEF ReachAfter
  <1>6. \E dep \in [{} -> 0..MaxDepth] : Covered(q, {}, tuples, dep)
    <2>1. PICK dep : dep \in [{} -> 0..MaxDepth]
      <3>1. [x \in {} |-> 0] \in [{} -> 0..MaxDepth]
        OBVIOUS
      <3> QED BY <3>1
    <2>2. Owed(q, {}, dep, Root, 0)
      BY <1>1 DEF Owed
    <2>3. Covered(q, {}, tuples, dep)
      BY <2>2 DEF Covered
    <2> QED BY <2>1, <2>3
  <1> QED BY <1>1, <1>2, <1>3, <1>4, <1>5, <1>6 DEF RelationInv

\* The inductive invariant of a check.
THEOREM RelationInvariant == RelationSpec => []RelationInv
  <1>1. ASSUME RelationInit PROVE RelationInv
    BY <1>1, RelationAssumption DEF RelationInit, RelationInv, RelationTypeOK
  <1>2. ASSUME RelationInv, [RelationNext]_relationVars PROVE RelationInv'
    <2>1. CASE ListFails
      BY <1>2, <2>1 DEF ListFails, RelationInv, RelationTypeOK
    <2>2. CASE WalkEnds
      BY <1>2, <2>2 DEF WalkEnds, RelationInv, RelationTypeOK
    <2>3. CASE UNCHANGED relationVars
      BY <1>2, <2>3 DEF relationVars, walkVars, RelationInv, RelationTypeOK
    <2> QED BY <1>2, <2>1, <2>2, <2>3, BeginStep, SkipStep, ListUsersetStep,
                 EditSteps DEF RelationNext
  <1> QED BY <1>1, <1>2, PTL DEF RelationSpec

\* rebac.rs: a check that overlaps with writers says yes only on tuples stored
\* while it ran, and no only if the tuples stored all the while do not relate
\* the subject within the depth.
THEOREM CheckBounded == RelationSpec => [](RelationTypeOK /\ CheckFollowsTuples)
  <1>1. RelationInv => RelationTypeOK /\ CheckFollowsTuples
    BY CoveredIsUnrelated DEF RelationInv, CheckFollowsTuples
  <1> QED BY <1>1, RelationInvariant, PTL

-----------------------------------------------------------------------------
(* MCServices.  A behaviour of one part is a behaviour of that part's own   *)
(* specification, so what is proved of each component holds of the run      *)
(* that composes them.                                                      *)

\* The part of a behaviour is chosen at the start.
LEMMA ServicesPartStays == [ServicesNext]_servicesVars => UNCHANGED part
  BY DEF ServicesNext, servicesVars

\* What runs in a part is that component: its initial states and its steps.
THEOREM ServicesParts ==
    /\ ServicesSpec => (part = "polled" => PolledSpec)
    /\ ServicesSpec => (part = "audit" => AuditSpec)
    /\ ServicesSpec => (part = "siem" => SiemSpec)
    /\ ServicesSpec => (part = "replay" => ReplaySpec)
    /\ ServicesSpec => (part = "mail" => MailSpec)
    /\ ServicesSpec => (part = "access" => AccessSpec)
    /\ ServicesSpec => (part = "decision" => DecisionSpec)
    /\ ServicesSpec => (part = "relation" => RelationSpec)
  <1>1. ServicesSpec => (part = "polled" => PolledSpec)
    <2>1. ServicesInit => PolledInit
      BY DEF ServicesInit
    <2>2. part = "polled" /\ [ServicesNext]_servicesVars
          => [PolledNext]_polledVars /\ (part = "polled")'
      BY DEF ServicesNext, servicesVars, polledVars, PolledRest, rows, setup, callVars, approvalVars, history
    <2> QED BY <2>1, <2>2, PTL DEF ServicesSpec, PolledSpec
  <1>2. ServicesSpec => (part = "audit" => AuditSpec)
    <2>1. ServicesInit => AuditInit
      BY DEF ServicesInit
    <2>2. part = "audit" /\ [ServicesNext]_servicesVars
          => [AuditNext]_auditVars /\ (part = "audit")'
      BY DEF ServicesNext, servicesVars, auditVars, AuditRest
    <2> QED BY <2>1, <2>2, PTL DEF ServicesSpec, AuditSpec
  <1>3. ServicesSpec => (part = "siem" => SiemSpec)
    <2>1. ServicesInit => SiemInit
      BY DEF ServicesInit
    <2>2. part = "siem" /\ [ServicesNext]_servicesVars
          => [SiemNext]_siemVars /\ (part = "siem")'
      BY DEF ServicesNext, servicesVars, siemVars, SiemRest
    <2> QED BY <2>1, <2>2, PTL DEF ServicesSpec, SiemSpec
  <1>4. ServicesSpec => (part = "replay" => ReplaySpec)
    <2>1. ServicesInit => ReplayInit
      BY DEF ServicesInit
    <2>2. part = "replay" /\ [ServicesNext]_servicesVars
          => [ReplayNext]_replayVars /\ (part = "replay")'
      BY DEF ServicesNext, servicesVars, replayVars, ReplayRest
    <2> QED BY <2>1, <2>2, PTL DEF ServicesSpec, ReplaySpec
  <1>5. ServicesSpec => (part = "mail" => MailSpec)
    <2>1. ServicesInit => MailInit
      BY DEF ServicesInit
    <2>2. part = "mail" /\ [ServicesNext]_servicesVars
          => [MailNext]_mailVars /\ (part = "mail")'
      BY DEF ServicesNext, servicesVars, mailVars, MailRest
    <2> QED BY <2>1, <2>2, PTL DEF ServicesSpec, MailSpec
  <1>6. ServicesSpec => (part = "access" => AccessSpec)
    <2>1. ServicesInit => AccessInit
      BY DEF ServicesInit
    <2>2. part = "access" /\ [ServicesNext]_servicesVars
          => [AccessNext]_accessVars /\ (part = "access")'
      BY DEF ServicesNext, servicesVars, accessVars, AccessRest
    <2> QED BY <2>1, <2>2, PTL DEF ServicesSpec, AccessSpec
  <1>7. ServicesSpec => (part = "decision" => DecisionSpec)
    <2>1. ServicesInit => DecisionInit
      BY DEF ServicesInit
    <2>2. part = "decision" /\ [ServicesNext]_servicesVars
          => [DecisionNext]_decisionVars /\ (part = "decision")'
      BY DEF ServicesNext, servicesVars, decisionVars, DecisionRest
    <2> QED BY <2>1, <2>2, PTL DEF ServicesSpec, DecisionSpec
  <1>8. ServicesSpec => (part = "relation" => RelationSpec)
    <2>1. ServicesInit => RelationInit
      BY DEF ServicesInit
    <2>2. part = "relation" /\ [ServicesNext]_servicesVars
          => [RelationNext]_relationVars /\ (part = "relation")'
      BY DEF ServicesNext, servicesVars, relationVars, RelationRest
    <2> QED BY <2>1, <2>2, PTL DEF ServicesSpec, RelationSpec
  <1> QED BY <1>1, <1>2, <1>3, <1>4, <1>5, <1>6, <1>7, <1>8

\* Every state of a composed behaviour of these services is well typed, for
\* all values of the constants: each part keeps its own type invariant.
THEOREM ServicesTypeCorrect == ServicesSpec => []ServicesTypeOK
  <1>1. ServicesSpec => [](part = "polled" => PolledTypeOK)
    <2>1. (part = "polled")' /\ [ServicesNext]_servicesVars => part = "polled"
      BY ServicesPartStays
    <2>2. PolledSpec => []PolledTypeOK
      BY PolledTypeCorrect, PTL
    <2> QED BY <2>1, <2>2, ServicesParts, PTL DEF ServicesSpec
  <1>2. ServicesSpec => [](part = "audit" => AuditTypeOK)
    <2>1. (part = "audit")' /\ [ServicesNext]_servicesVars => part = "audit"
      BY ServicesPartStays
    <2>2. AuditSpec => []AuditTypeOK
      BY ChainsVerify, PTL
    <2> QED BY <2>1, <2>2, ServicesParts, PTL DEF ServicesSpec
  <1>3. ServicesSpec => [](part = "siem" => SiemTypeOK)
    <2>1. (part = "siem")' /\ [ServicesNext]_servicesVars => part = "siem"
      BY ServicesPartStays
    <2>2. SiemSpec => []SiemTypeOK
      BY NothingDropped, PTL
    <2> QED BY <2>1, <2>2, ServicesParts, PTL DEF ServicesSpec
  <1>4. ServicesSpec => [](part = "replay" => ReplayTypeOK)
    <2>1. (part = "replay")' /\ [ServicesNext]_servicesVars => part = "replay"
      BY ServicesPartStays
    <2>2. ReplayInv => ReplayTypeOK
      BY DEF ReplayInv
    <2>3. ReplaySpec => []ReplayTypeOK
      BY <2>2, ReplayInvariant, PTL
    <2> QED BY <2>1, <2>3, ServicesParts, PTL DEF ServicesSpec
  <1>5. ServicesSpec => [](part = "mail" => MailTypeOK)
    <2>1. (part = "mail")' /\ [ServicesNext]_servicesVars => part = "mail"
      BY ServicesPartStays
    <2>2. MailSpec => []MailTypeOK
      BY MailsLimited, PTL
    <2> QED BY <2>1, <2>2, ServicesParts, PTL DEF ServicesSpec
  <1>6. ServicesSpec => [](part = "access" => AccessTypeOK)
    <2>1. (part = "access")' /\ [ServicesNext]_servicesVars => part = "access"
      BY ServicesPartStays
    <2>2. AccessInv => AccessTypeOK
      BY DEF AccessInv
    <2>3. AccessSpec => []AccessTypeOK
      BY <2>2, AccessInvariant, PTL
    <2> QED BY <2>1, <2>3, ServicesParts, PTL DEF ServicesSpec
  <1>7. ServicesSpec => [](part = "decision" => DecisionTypeOK)
    <2>1. (part = "decision")' /\ [ServicesNext]_servicesVars => part = "decision"
      BY ServicesPartStays
    <2>2. DecisionInv => DecisionTypeOK
      <3> SUFFICES ASSUME DecisionInv PROVE DecisionTypeOK
        OBVIOUS
      <3>1. \A e \in cached : IsEntry(e)
        BY DEF DecisionInv, EntryIsSound
      <3>2. ASSUME NEW c \in PepChecks
            PROVE  /\ pepCheck[c].pc \in {"idle", "load", "decide", "answered", "cached"}
                   /\ pepCheck[c].pc # "idle" =>
                         pepCheck[c].reg \in Registrations /\ pepCheck[c].input \in Inputs
        BY <3>2 DEF DecisionInv, Checking, IdleCheck
      <3> QED BY <3>1, <3>2 DEF DecisionInv, DecisionTypeOK
    <2>3. DecisionSpec => []DecisionTypeOK
      BY <2>2, DecisionInvariant, PTL
    <2> QED BY <2>1, <2>3, ServicesParts, PTL DEF ServicesSpec
  <1>8. ServicesSpec => [](part = "relation" => RelationTypeOK)
    <2>1. (part = "relation")' /\ [ServicesNext]_servicesVars => part = "relation"
      BY ServicesPartStays
    <2>2. RelationSpec => []RelationTypeOK
      BY CheckBounded, PTL
    <2> QED BY <2>1, <2>2, ServicesParts, PTL DEF ServicesSpec
  <1>9. (/\ part = "polled" => PolledTypeOK
         /\ part = "audit" => AuditTypeOK
         /\ part = "siem" => SiemTypeOK
         /\ part = "replay" => ReplayTypeOK
         /\ part = "mail" => MailTypeOK
         /\ part = "access" => AccessTypeOK
         /\ part = "decision" => DecisionTypeOK
         /\ part = "relation" => RelationTypeOK) => ServicesTypeOK
    BY DEF ServicesTypeOK
  <1> QED BY <1>1, <1>2, <1>3, <1>4, <1>5, <1>6, <1>7, <1>8, <1>9, PTL
=============================================================================
