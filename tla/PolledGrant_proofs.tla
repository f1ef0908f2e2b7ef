------------------------- MODULE PolledGrant_proofs -------------------------
(***************************************************************************)
(* Proofs about PolledGrant for any number of grants, calls, approvals and *)
(* users, both flows, both repositories, any lifetimes and bounds.         *)
(***************************************************************************)
EXTENDS PolledGrant, TLAPS

(***************************************************************************)
(* The inductive invariant.  A token call works from a snapshot, so what   *)
(* it may do is carried from the row to the snapshot (RowsApproved,        *)
(* SeenApproved) and from the checks of an approval to the row             *)
(* (ApprovalsChecked).                                                     *)
(***************************************************************************)
Deciding == {"user", "consume", "family", "access", "client"}
Claimed == {"family", "access", "client"}
UnderWay == {"session", "user", "approve"}

\* What a working call presents, and what a working approval asks for.
PolledShape ==
    /\ \A k \in Calls : pc[k] \in Deciding \cup {"poll"} \/ k \in issued => asked[k] \in Grants
    /\ \A a \in Approvals : apc[a] \in UnderWay => ask[a] \in Ask
    /\ \A a \in strayed : apc[a] \in UnderWay

\* A grant with an owner is consumed for good.
OwnedIsConsumed ==
    \A g \in Grants : owner[g] # NoCall => grant[g].consumed /\ grant[g].row # "none"

\* The owner of a grant is past its claim, and a call past its claim and not
\* yet answered owns what it presents.
OwnerIsPastClaim ==
    \A g \in Grants, k \in Calls : owner[g] = k => pc[k] \in Claimed \cup {"done"}
ClaimantOwns == \A k \in Calls : pc[k] \in Claimed => owner[asked[k]] = k
IssuedIsLate == \A k \in issued : pc[k] \in {"client", "done"}

PolledClaims == OwnedIsConsumed /\ OwnerIsPastClaim /\ ClaimantOwns /\ IssuedIsLate

\* A user of the realm who approved g in a session of their own.
Approver(g, u) == <<g, u>> \in approved /\ u \in RealmUsers

\* Both checks of an approval hold of one that is about to be recorded.  They
\* are made in a different order in the two flows.
ApprovalChecked(a) ==
    /\ SubjectIsSession(ask[a].user, ask[a].by)
    /\ a \in strayed => ask[a].by \notin liveSessions
    /\ apc[a] = "approve" \/ (flow = "device" /\ apc[a] = "user") => a \notin strayed
    /\ apc[a] = "approve" => ask[a].by = ask[a].user /\ ask[a].user \in RealmUsers

ApprovalsChecked == \A a \in Approvals : apc[a] \in UnderWay => ApprovalChecked(a)

RowsApproved == \A g \in Grants : ~Pending(grant[g]) => Approver(g, grant[g].user)

\* The snapshot a call decides from was an approved row.
SeenApproved ==
    \A k \in Calls : pc[k] \in Deciding \/ k \in issued => Approver(asked[k], seen[k].user)

PolledApprovals == ApprovalsChecked /\ RowsApproved /\ SeenApproved /\ barred = {}

PolledInv == PolledTypeOK /\ PolledShape /\ PolledClaims /\ PolledApprovals

-----------------------------------------------------------------------------
(* Type correctness *)

\* The invariant holds at the start.
LEMMA PolledStart == ASSUME PolledInit PROVE PolledInv
  <1> USE DEF PolledInit, NoGrantRow
  <1>1. PolledTypeOK
    BY PolledSetupAssumption, PolledNumberAssumption, PolledNameAssumption, ClockAssumption
    DEF PolledTypeOK, Grant, Steps, ApprovalSteps, NoAsk
  <1>2. PolledShape
    BY DEF PolledShape, Deciding, UnderWay
  <1>3. PolledClaims
    BY PolledNameAssumption
    DEF PolledClaims, OwnedIsConsumed, OwnerIsPastClaim, ClaimantOwns, IssuedIsLate, Claimed
  <1>4. PolledApprovals
    BY DEF PolledApprovals, ApprovalsChecked, RowsApproved, SeenApproved, Deciding, UnderWay, Pending
  <1> QED BY <1>1, <1>2, <1>3, <1>4 DEF PolledInv

\* The row after a poll is a row.
LEMMA PolledRow ==
    ASSUME PolledTypeOK, NEW k \in Calls, asked[k] \in Grants
    PROVE  Polled(k) \in Grant
  <1>1. seen[k].interval \in Nat /\ seen[k].interval + SlowDown \in Nat
    BY PolledNumberAssumption DEF PolledTypeOK, Grant
  <1>2. NextInterval(k) \in Nat
    BY <1>1, PolledNumberAssumption DEF NextInterval
  <1>3. at[k] \in Nat
    BY ClockAssumption DEF PolledTypeOK
  <1>4. grant[asked[k]] \in Grant
    BY DEF PolledTypeOK
  <1>5. \A row \in Grant : \A i, t \in Nat :
          [row EXCEPT !.lastPoll = t, !.interval = i] \in Grant
    BY DEF Grant
  <1> QED BY <1>2, <1>3, <1>4, <1>5 DEF Polled

\* A call leaves everything of the other calls as it is, and its own copies
\* are typed.
CallFrame(k) ==
    /\ pc' \in [Calls -> Steps] /\ \A j \in Calls \ {k} : pc'[j] = pc[j]
    /\ asked' \in [Calls -> Grants \cup {NoGrant}] /\ \A j \in Calls \ {k} : asked'[j] = asked[j]
    /\ seen' \in [Calls -> Grant] /\ \A j \in Calls \ {k} : seen'[j] = seen[j]
    /\ at' \in [Calls -> 0..MaxTime]
    /\ faults' \in 0..MaxFaults

\* A call that ends is done, and keeps what it read when it had issued.
CallEnds(k) ==
    /\ CallFrame(k) /\ pc'[k] = "done"
    /\ pc[k] \in {"access", "client"} => asked'[k] = asked[k] /\ seen'[k] = seen[k]

\* The placeholder for a grant that is not stored has its type.
LEMMA NoRowIsGrant == NoGrantRow \in Grant
  BY PolledNameAssumption DEF NoGrantRow, Grant

\* An answer and a failure both end the call and change nothing else.
LEMMA EndingFrame ==
    ASSUME PolledTypeOK, NEW k \in Calls, Answer(k) \/ FailCall(k)
    PROVE  CallEnds(k)
  <1>1. faults' \in 0..MaxFaults
    BY PolledNumberAssumption DEF PolledTypeOK, Answer, FailCall
  <1>2. Ends(k)
    BY DEF Answer, FailCall
  <1>3. "done" \in Steps
    BY DEF Steps
  <1>4. pc' = [pc EXCEPT ![k] = "done"]
    BY <1>2 DEF Ends
  <1>5. CASE pc[k] \in {"access", "client"}
    BY <1>1, <1>2, <1>3, <1>4, <1>5 DEF Ends, copies, PolledTypeOK, CallEnds, CallFrame
  <1>6. CASE pc[k] \notin {"access", "client"}
    BY <1>1, <1>2, <1>3, <1>4, <1>6, NoRowIsGrant, ClockAssumption
    DEF Ends, PolledTypeOK, CallEnds, CallFrame
  <1> QED BY <1>5, <1>6

\* A call's move to its next step changes no other call.
LEMMA GotoFrame ==
    ASSUME PolledTypeOK, NEW k \in Calls, NEW step \in Steps, Goto(k, step)
    PROVE  CallFrame(k) /\ pc'[k] = step /\ UNCHANGED <<asked, seen>>
  BY DEF PolledTypeOK, Goto, copies, CallFrame

-----------------------------------------------------------------------------
(* The steps.  Each lemma is for the actions that change the same state.   *)

\* Starting a grant keeps the invariant.
LEMMA StoreStep ==
    ASSUME PolledInv, NEW g \in Grants, StoreGrant(g)
    PROVE  PolledInv'
  <1> USE DEF PolledInv, StoreGrant
  <1>1. PICK u \in BoundUsers : grant' = [grant EXCEPT ![g] =
             [NoGrantRow EXCEPT !.row = "live", !.user = u, !.expires = now + TTL,
                           !.interval = Interval]]
    OBVIOUS
  <1> DEFINE new == [NoGrantRow EXCEPT !.row = "live", !.user = u, !.expires = now + TTL,
                           !.interval = Interval]
  <1>2. u \in Users \cup {NoUser}
    BY PolledNameAssumption DEF BoundUsers
  <1>3. new \in Grant /\ new.row = "live" /\ Pending(new) /\ ~new.consumed
    <2>1. now + TTL \in Nat
      BY PolledNumberAssumption, ClockAssumption DEF PolledTypeOK
    <2>2. Interval \in Nat
      BY PolledNumberAssumption
    <2>3. new \in Grant /\ new.row = "live" /\ ~new.consumed /\ new.approvedAt = Never /\ new.user = u
      <3>1. new \in Grant
        <4>1. ASSUME NEW row \in Grant, NEW v \in Users \cup {NoUser}, NEW e \in Nat, NEW i \in Nat
              PROVE  [row EXCEPT !.row = "live", !.user = v, !.expires = e, !.interval = i] \in Grant
          BY DEF Grant
        <4> QED BY <1>2, <2>1, <2>2, <4>1, NoRowIsGrant
      <3>2. new.row = "live"
        BY DEF NoGrantRow
      <3>3. ~new.consumed
        BY DEF NoGrantRow
      <3>4. new.approvedAt = Never
        BY DEF NoGrantRow
      <3>5. new.user = u
        BY DEF NoGrantRow
      <3> QED BY <3>1, <3>2, <3>3, <3>4, <3>5
    <2>4. flow = "device" => u = NoUser
      BY DEF BoundUsers
    <2> QED BY <2>3, <2>4 DEF Pending
  <1>4. PolledTypeOK'
    BY <1>1, <1>3 DEF PolledTypeOK, setup, callVars, copies, approvalVars, history
  <1>5. PolledShape'
    BY DEF PolledShape, callVars, copies, approvalVars, history
  <1>6. PolledClaims'
    <2>1. owner[g] = NoCall
      BY DEF PolledClaims, OwnedIsConsumed
    <2> QED
      BY <1>1, <1>3, <2>1
      DEF PolledClaims, OwnedIsConsumed, OwnerIsPastClaim, ClaimantOwns, IssuedIsLate,
          PolledTypeOK, callVars, copies, history
  <1>7. PolledApprovals'
    <2>1. RowsApproved'
      BY <1>1, <1>3 DEF PolledApprovals, RowsApproved, Pending, Approver, PolledTypeOK, setup, history
    <2>2. ApprovalsChecked' /\ SeenApproved' /\ barred' = {}
      BY DEF PolledApprovals, ApprovalsChecked, ApprovalChecked, SubjectIsSession, SeenApproved,
             Approver, setup, callVars, copies, approvalVars, history
    <2> QED BY <2>1, <2>2 DEF PolledApprovals
  <1> QED BY <1>4, <1>5, <1>6, <1>7

\* The facts about calls and rows are out of an approval's reach until it is
\* recorded.
LEMMA CallsStand ==
    ASSUME PolledInv, UNCHANGED <<flow, grant, callVars, owner, issued, approved, barred>>
    PROVE  /\ PolledClaims' /\ RowsApproved' /\ SeenApproved' /\ barred' = {}
           /\ (\A k \in Calls :
                 pc[k] \in Deciding \cup {"poll"} \/ k \in issued => asked[k] \in Grants)'
  BY DEF PolledInv, PolledShape, PolledClaims, OwnedIsConsumed, OwnerIsPastClaim, ClaimantOwns, IssuedIsLate,
         PolledApprovals, RowsApproved, Pending, SeenApproved, Approver, callVars, copies

\* An approval that ends is no longer one to check.
LEMMA ApprovalEndsStep ==
    ASSUME PolledInv, NEW a \in Approvals, ApprovalEnds(a), UNCHANGED <<flow, liveSessions>>
    PROVE  /\ apc' \in [Approvals -> ApprovalSteps] /\ ask' \in [Approvals -> Ask \cup {NoAsk}]
           /\ strayed' \subseteq Approvals /\ ApprovalsChecked'
           /\ (\A b \in Approvals : apc[b] \in UnderWay => ask[b] \in Ask)'
           /\ (\A b \in strayed : apc[b] \in UnderWay)'
  <1> USE DEF PolledInv, PolledTypeOK, ApprovalEnds
  <1>1. \A b \in Approvals \ {a} : apc'[b] = apc[b] /\ ask'[b] = ask[b] /\ (b \in strayed' <=> b \in strayed)
    OBVIOUS
  <1>2. apc'[a] \notin UnderWay
    BY DEF UnderWay
  <1>3. ApprovalsChecked'
    BY <1>1, <1>2 DEF PolledApprovals, ApprovalsChecked, ApprovalChecked, SubjectIsSession
  <1>4. /\ (\A b \in Approvals : apc[b] \in UnderWay => ask[b] \in Ask)'
        /\ (\A b \in strayed : apc[b] \in UnderWay)'
    BY <1>1, <1>2 DEF PolledShape
  <1> QED BY <1>3, <1>4 DEF ApprovalSteps

\* Beginning an approval keeps the invariant.
LEMMA BeginApprovalStep ==
    ASSUME PolledInv, NEW a \in Approvals, NEW g \in Grants, NEW u \in Users, NEW by \in Users,
           BeginApproval(a, g, u, by)
    PROVE  PolledInv'
  <1> USE DEF PolledInv
  <1>1. UNCHANGED <<rows, callVars, faults, owner, issued, approved, barred>>
    BY DEF BeginApproval
  <1>2. UNCHANGED <<flow, backend, now, users, liveSessions, grant>>
    BY <1>1 DEF rows, setup
  <1>3. /\ PolledClaims' /\ RowsApproved' /\ SeenApproved' /\ barred' = {}
        /\ (\A k \in Calls :
              pc[k] \in Deciding \cup {"poll"} \/ k \in issued => asked[k] \in Grants)'
    BY <1>1, <1>2, CallsStand
  <1>4. CASE ApprovalEnds(a)
    BY <1>1, <1>2, <1>3, <1>4, ApprovalEndsStep
    DEF PolledTypeOK, PolledShape, PolledApprovals, callVars, copies
  <1>5. CASE /\ ask' = [ask EXCEPT ![a] = [grant |-> g, user |-> u, by |-> by]]
             /\ apc' = [apc EXCEPT ![a] = IF flow = "device" THEN "session" ELSE "user"]
             /\ strayed' = IF by \notin liveSessions THEN strayed \cup {a} ELSE strayed
    <2>1. ask'[a] \in Ask /\ ask'[a].by = by /\ ask'[a].user = u
      BY <1>5 DEF Ask, PolledTypeOK
    <2>2. /\ apc' \in [Approvals -> ApprovalSteps] /\ ask' \in [Approvals -> Ask \cup {NoAsk}]
          /\ strayed' \subseteq Approvals
      BY <1>5, <2>1 DEF PolledTypeOK, ApprovalSteps
    <2>3. PolledTypeOK'
      BY <1>1, <1>2, <2>2 DEF PolledTypeOK, callVars, copies
    <2>4. \A b \in Approvals \ {a} : apc'[b] = apc[b] /\ ask'[b] = ask[b] /\ (b \in strayed' <=> b \in strayed)
      BY <1>5 DEF PolledTypeOK
    <2>5. PolledShape'
      BY <1>3, <1>5, <2>1, <2>4 DEF PolledShape, UnderWay, PolledTypeOK
    <2>6. a \notin strayed
      BY DEF BeginApproval, PolledShape, UnderWay
    <2>7. ApprovalChecked(a)' /\ apc'[a] \in UnderWay
      <3>1. SubjectIsSession(u, by)'
        BY <1>2 DEF BeginApproval, SubjectIsSession
      <3>2. apc'[a] = IF flow = "device" THEN "session" ELSE "user"
        BY <1>5 DEF PolledTypeOK
      <3>3. a \in strayed' => by \notin liveSessions
        BY <1>5, <2>6
      <3> QED BY <1>2, <2>1, <3>1, <3>2, <3>3 DEF ApprovalChecked, SubjectIsSession, UnderWay
    <2>8. ApprovalsChecked'
      BY <1>2, <2>4, <2>7 DEF PolledApprovals, ApprovalsChecked, ApprovalChecked, SubjectIsSession
    <2> QED BY <1>3, <2>3, <2>5, <2>8 DEF PolledApprovals
  <1> QED BY <1>4, <1>5 DEF BeginApproval

\* The two checks: in either order, the second leaves nothing unchecked.
LEMMA ApprovalCheckStep ==
    ASSUME PolledInv, NEW a \in Approvals, ReadApprovalSession(a) \/ ReadApprover(a)
    PROVE  PolledInv'
  <1> USE DEF PolledInv
  <1>1. UNCHANGED <<rows, callVars, faults, owner, issued, approved, barred>>
    BY DEF ReadApprovalSession, ReadApprover, ApprovalCheck
  <1>2. UNCHANGED <<flow, backend, now, users, liveSessions, grant>>
    BY <1>1 DEF rows, setup
  <1>3. /\ PolledClaims' /\ RowsApproved' /\ SeenApproved' /\ barred' = {}
        /\ (\A k \in Calls :
              pc[k] \in Deciding \cup {"poll"} \/ k \in issued => asked[k] \in Grants)'
    BY <1>1, <1>2, CallsStand
  <1>4. CASE ApprovalEnds(a)
    BY <1>1, <1>2, <1>3, <1>4, ApprovalEndsStep
    DEF PolledTypeOK, PolledShape, PolledApprovals, callVars, copies
  <1>5. ASSUME NEW next \in {"user", "approve", "session"},
               apc' = [apc EXCEPT ![a] = next], UNCHANGED <<ask, strayed>>,
               apc[a] \in UnderWay,
               ApprovalChecked(a) => ApprovalChecked(a)'
        PROVE  PolledInv'
    <2>1. PolledTypeOK'
      BY <1>1, <1>2, <1>5 DEF PolledTypeOK, callVars, copies, ApprovalSteps
    <2>2. \A b \in Approvals \ {a} : apc'[b] = apc[b]
      BY <1>5 DEF PolledTypeOK
    <2>3. apc'[a] \in UnderWay
      BY <1>5 DEF PolledTypeOK, UnderWay
    <2>4. PolledShape'
      BY <1>3, <1>5, <2>2, <2>3 DEF PolledShape, PolledTypeOK
    <2>5. ApprovalsChecked'
      BY <1>2, <1>5, <2>2 DEF PolledApprovals, ApprovalsChecked, ApprovalChecked, SubjectIsSession
    <2> QED BY <1>3, <2>1, <2>4, <2>5 DEF PolledApprovals
  <1>6. CASE ReadApprovalSession(a) /\ ~ApprovalEnds(a)
    <2> DEFINE next == IF flow = "device" THEN "user" ELSE "approve"
    <2>1. SessionAccepted(a) /\ apc' = [apc EXCEPT ![a] = next] /\ UNCHANGED <<ask, strayed>>
      BY <1>6 DEF ReadApprovalSession, ApprovalCheck
    <2>2. apc'[a] = next /\ apc[a] = "session"
      BY <1>6, <2>1 DEF ReadApprovalSession, PolledTypeOK
    <2>3. ApprovalChecked(a) => ApprovalChecked(a)'
      BY <1>2, <2>1, <2>2 DEF ApprovalChecked, SubjectIsSession, SessionAccepted, PolledTypeOK
    <2> QED BY <1>5, <2>1, <2>2, <2>3 DEF UnderWay
  <1>7. CASE ReadApprover(a) /\ ~ApprovalEnds(a)
    <2> DEFINE next == IF flow = "device" THEN "approve" ELSE "session"
    <2>1. ApproverAccepted(a) /\ apc' = [apc EXCEPT ![a] = next] /\ UNCHANGED <<ask, strayed>>
      BY <1>7 DEF ReadApprover, ApprovalCheck
    <2>2. apc'[a] = next /\ apc[a] = "user"
      BY <1>7, <2>1 DEF ReadApprover, PolledTypeOK
    <2>3. ApprovalChecked(a) => ApprovalChecked(a)'
      BY <1>2, <2>1, <2>2 DEF ApprovalChecked, SubjectIsSession, ApproverAccepted, PolledTypeOK
    <2> QED BY <1>5, <2>1, <2>2, <2>3 DEF UnderWay
  <1> QED BY <1>4, <1>6, <1>7

\* The row that an approval writes is approved; a call that decides from an
\* older copy keeps the approval it saw.
LEMMA RecordApprovalStep ==
    ASSUME PolledInv, NEW a \in Approvals, RecordApproval(a)
    PROVE  PolledInv'
  <1> USE DEF PolledInv
  <1>1. /\ UNCHANGED <<flow, backend, now, users, liveSessions, callVars, faults, owner, issued, barred>>
        /\ ApprovalEnds(a) /\ apc[a] = "approve"
    BY DEF RecordApproval, setup
  <1>2. ask[a] \in Ask /\ ApprovalChecked(a)
    BY <1>1 DEF PolledShape, PolledApprovals, ApprovalsChecked, UnderWay
  <1> DEFINE g == ask[a].grant
             u == ask[a].user
  <1>3. g \in Grants /\ u \in Users /\ ask[a].by = u /\ u \in RealmUsers /\ a \notin strayed
    BY <1>1, <1>2 DEF ApprovalChecked, Ask
  <1>4. approved \subseteq approved' /\ approved' \subseteq Grants \X Users
    BY <1>3 DEF RecordApproval, PolledTypeOK
  <1>5. grant' = grant
           \/ /\ grant' = [grant EXCEPT ![g] = [@ EXCEPT !.user = u, !.approvedAt = now]]
              /\ <<g, u>> \in approved'
    BY <1>3 DEF RecordApproval
  <1>6. /\ grant' \in [Grants -> Grant]
        /\ \A h \in Grants : grant'[h].row = grant[h].row /\ grant'[h].consumed = grant[h].consumed
        /\ \A h \in Grants : \/ grant'[h] = grant[h]
                             \/ h = g /\ <<g, u>> \in approved' /\ grant'[h].user = u
    <2>1. \A row \in Grant : /\ [row EXCEPT !.user = u, !.approvedAt = now] \in Grant
                             /\ [row EXCEPT !.user = u, !.approvedAt = now].row = row.row
                             /\ [row EXCEPT !.user = u, !.approvedAt = now].consumed = row.consumed
                             /\ [row EXCEPT !.user = u, !.approvedAt = now].user = u
      <3>1. now \in Nat
        BY ClockAssumption DEF PolledTypeOK
      <3> QED BY <1>3, <3>1 DEF Grant
    <2>2. CASE grant' = grant
      BY <2>2 DEF PolledTypeOK
    <2>3. CASE /\ grant' = [grant EXCEPT ![g] = [@ EXCEPT !.user = u, !.approvedAt = now]]
               /\ <<g, u>> \in approved'
      <3>1. grant[g] \in Grant
        BY <1>3 DEF PolledTypeOK
      <3> DEFINE new == [grant[g] EXCEPT !.user = u, !.approvedAt = now]
      <3>2. /\ new \in Grant /\ new.row = grant[g].row /\ new.consumed = grant[g].consumed
            /\ new.user = u
        BY <2>1, <3>1
      <3>3. grant' = [grant EXCEPT ![g] = new]
        BY <2>3
      <3> HIDE DEF new, g, u
      <3> QED BY <1>3, <2>3, <3>2, <3>3 DEF PolledTypeOK
    <2> QED BY <1>5, <2>2, <2>3
  <1>7. PolledTypeOK'
    BY <1>1, <1>4, <1>6, ApprovalEndsStep DEF PolledTypeOK, callVars, copies
  <1>8. PolledShape'
    BY <1>1, ApprovalEndsStep DEF PolledShape, callVars, copies
  <1>9. PolledClaims'
    BY <1>1, <1>6
    DEF PolledClaims, OwnedIsConsumed, OwnerIsPastClaim, ClaimantOwns, IssuedIsLate, callVars, copies
  <1>10. RowsApproved'
    BY <1>1, <1>3, <1>4, <1>6 DEF PolledApprovals, RowsApproved, Approver, Pending
  <1>11. SeenApproved'
    BY <1>1, <1>4 DEF PolledApprovals, SeenApproved, Approver, callVars, copies
  <1> QED BY <1>1, <1>7, <1>8, <1>9, <1>10, <1>11, ApprovalEndsStep DEF PolledApprovals

\* An approval that fails keeps the invariant.
LEMMA ApprovalFailsStep ==
    ASSUME PolledInv, NEW a \in Approvals, ApprovalFails(a)
    PROVE  PolledInv'
  <1> USE DEF PolledInv, ApprovalFails
  <1>1. UNCHANGED <<flow, backend, now, users, liveSessions, grant>>
    BY DEF rows, setup
  <1>2. faults' \in 0..MaxFaults
    BY PolledNumberAssumption DEF PolledTypeOK
  <1>3. /\ PolledClaims' /\ RowsApproved' /\ SeenApproved' /\ barred' = {}
        /\ (\A k \in Calls :
              pc[k] \in Deciding \cup {"poll"} \/ k \in issued => asked[k] \in Grants)'
    BY <1>1, CallsStand
  <1> QED
    BY <1>1, <1>2, <1>3, ApprovalEndsStep
    DEF PolledTypeOK, PolledShape, PolledApprovals, callVars, copies

\* What a step of call k must give for the invariant: the rows keep their
\* approval, only k may become an owner or issue, and the facts hold of k.
RowsKeep ==
    /\ grant' \in [Grants -> Grant]
    /\ \A h \in Grants :
         /\ grant'[h].row = grant[h].row /\ grant'[h].user = grant[h].user
         /\ grant'[h].approvedAt = grant[h].approvedAt
         /\ grant[h].consumed => grant'[h].consumed

OwnersKeep(k) ==
    /\ owner' \in [Grants -> Calls \cup {NoCall}]
    /\ \A h \in Grants :
         \/ owner'[h] = owner[h]
         \/ owner'[h] = k /\ grant'[h].consumed /\ grant'[h].row # "none"
    /\ \A h \in Grants : owner[h] \in Calls => owner'[h] = owner[h]
    /\ \A h \in Grants : owner'[h] = k => pc'[k] \in Claimed \cup {"done"}
    /\ pc'[k] \in Claimed => owner'[asked'[k]] = k

IssuesKeep(k) ==
    /\ issued \subseteq issued' /\ issued' \subseteq issued \cup {k}
    /\ k \in issued' => pc'[k] \in {"client", "done"}

CopiesGood(k) ==
    /\ pc'[k] \in Deciding \cup {"poll"} \/ k \in issued' => asked'[k] \in Grants
    /\ pc'[k] \in Deciding \/ k \in issued' => Approver(asked'[k], seen'[k].user)

\* A step of a call keeps the invariant if it keeps the rows, the owners and the copies.
LEMMA CallStepKeeps ==
    ASSUME PolledInv, NEW k \in Calls, CallFrame(k), RowsKeep, OwnersKeep(k), IssuesKeep(k),
           CopiesGood(k), barred' = {},
           UNCHANGED <<flow, backend, now, users, liveSessions, apc, ask, approved, strayed>>
    PROVE  PolledInv'
  <1> USE DEF PolledInv
  <1>1. PolledTypeOK'
    BY DEF PolledTypeOK, CallFrame, RowsKeep, OwnersKeep, IssuesKeep
  <1>2. PolledShape'
    BY DEF PolledShape, CallFrame, CopiesGood, IssuesKeep
  <1>3. PolledClaims'
    <2>1. OwnedIsConsumed'
      BY DEF PolledClaims, OwnedIsConsumed, RowsKeep, OwnersKeep
    <2>2. OwnerIsPastClaim'
      BY DEF PolledClaims, OwnerIsPastClaim, OwnersKeep, CallFrame
    <2>3. ClaimantOwns'
      <3>1. ASSUME NEW j \in Calls, j # k, pc'[j] \in Claimed PROVE owner'[asked'[j]] = j
        <4>1. pc'[j] = pc[j] /\ asked'[j] = asked[j]
          BY <3>1 DEF CallFrame
        <4>2. owner[asked[j]] = j /\ asked[j] \in Grants
          BY <3>1, <4>1 DEF PolledClaims, ClaimantOwns, PolledShape, Claimed, Deciding
        <4> QED BY <4>1, <4>2 DEF OwnersKeep
      <3> QED BY <3>1 DEF ClaimantOwns, OwnersKeep
    <2>4. IssuedIsLate'
      BY DEF PolledClaims, IssuedIsLate, IssuesKeep, CallFrame, PolledTypeOK
    <2> QED BY <2>1, <2>2, <2>3, <2>4 DEF PolledClaims
  <1>4. PolledApprovals'
    <2>1. ApprovalsChecked'
      BY DEF PolledApprovals, ApprovalsChecked, ApprovalChecked, SubjectIsSession
    <2>2. RowsApproved'
      BY DEF PolledApprovals, RowsApproved, RowsKeep, Pending, Approver
    <2>3. SeenApproved'
      BY DEF PolledApprovals, SeenApproved, CopiesGood, CallFrame, IssuesKeep, Approver
    <2> QED BY <2>1, <2>2, <2>3 DEF PolledApprovals
  <1> QED BY <1>1, <1>2, <1>3, <1>4

\* A call that ends without touching owners, as most do.
LEMMA EndingStep ==
    ASSUME PolledInv, NEW k \in Calls, Answer(k) \/ FailCall(k), RowsKeep, barred' = {},
           UNCHANGED <<owner, issued>>, pc[k] # "done",
           UNCHANGED <<flow, backend, now, users, liveSessions, apc, ask, approved, strayed>>
    PROVE  PolledInv'
  <1> USE DEF PolledInv
  <1>1. CallEnds(k)
    BY EndingFrame
  <1>2. OwnersKeep(k)
    BY <1>1 DEF CallEnds, OwnersKeep, PolledTypeOK, Claimed
  <1>3. IssuesKeep(k)
    BY <1>1 DEF CallEnds, IssuesKeep
  <1>4. CopiesGood(k)
    <2>1. pc'[k] \notin Deciding \cup {"poll"}
      BY <1>1 DEF CallEnds, Deciding
    <2>2. ASSUME k \in issued PROVE asked'[k] \in Grants /\ Approver(asked'[k], seen'[k].user)
      <3>1. pc[k] = "client"
        BY <2>2 DEF PolledClaims, IssuedIsLate
      <3> QED
        BY <1>1, <2>2, <3>1
        DEF CallEnds, PolledShape, PolledApprovals, SeenApproved, Approver
    <2> QED BY <2>1, <2>2 DEF CopiesGood
  <1> QED BY <1>1, <1>2, <1>3, <1>4, CallStepKeeps DEF CallEnds

\* Rows that do not change keep what is recorded in them.
LEMMA SameRows == ASSUME PolledTypeOK, UNCHANGED grant PROVE RowsKeep
  BY DEF PolledTypeOK, RowsKeep

\* The environment of a call's step.
Around == <<flow, backend, now, users, liveSessions, apc, ask, approved, strayed>>

\* Presenting a device code or auth_req_id keeps the invariant.
LEMMA BeginCallStep ==
    ASSUME PolledInv, NEW k \in Calls, NEW g \in Grants, BeginCall(k, g)
    PROVE  PolledInv'
  <1> USE DEF PolledInv
  <1>1. UNCHANGED Around /\ UNCHANGED <<grant, owner, issued>> /\ pc[k] = "idle"
    BY DEF BeginCall, Around, rows, setup, approvalVars
  <1>2. CASE Answer(k) /\ UNCHANGED barred
    BY <1>1, <1>2, EndingStep, SameRows DEF Around, PolledApprovals
  <1>3. CASE ~(Answer(k) /\ UNCHANGED barred)
    <2> DEFINE row == grant[g]
    <2>1. /\ ~(row.row # "live" \/ GrantExpired(row) \/ row.consumed)
          /\ pc' = [pc EXCEPT ![k] = IF Pending(row) THEN "poll" ELSE "user"]
          /\ asked' = [asked EXCEPT ![k] = g]
          /\ seen' = [seen EXCEPT ![k] = row]
          /\ at' = [at EXCEPT ![k] = now]
          /\ barred' = IF row.row # "live" \/ row.consumed \/ now >= row.expires
                         THEN barred \cup {k} ELSE barred
          /\ UNCHANGED faults
      BY <1>3 DEF BeginCall
    <2>2. row \in Grant /\ row.expires \in Nat /\ now \in Nat
      BY ClockAssumption DEF PolledTypeOK, Grant
    <2>3. barred' = {}
      BY <2>1, <2>2 DEF PolledApprovals, GrantExpired
    <2>4. CallFrame(k) /\ asked'[k] = g /\ seen'[k] = row
      BY <1>1, <2>1, <2>2 DEF CallFrame, PolledTypeOK, Steps
    <2>5. pc'[k] = IF Pending(row) THEN "poll" ELSE "user"
      BY <2>1 DEF PolledTypeOK
    <2>6. k \notin issued /\ \A h \in Grants : owner[h] # k
      BY <1>1 DEF PolledClaims, IssuedIsLate, OwnerIsPastClaim, Claimed
    <2>7. OwnersKeep(k)
      BY <1>1, <2>5, <2>6 DEF OwnersKeep, PolledTypeOK, Claimed
    <2>8. IssuesKeep(k)
      BY <1>1, <2>6 DEF IssuesKeep
    <2>9. CopiesGood(k)
      BY <1>1, <2>4, <2>5, <2>6 DEF CopiesGood, PolledApprovals, RowsApproved, Deciding
    <2> QED BY <1>1, <2>3, <2>4, <2>7, <2>8, <2>9, CallStepKeeps, SameRows DEF Around
  <1> QED BY <1>2, <1>3

\* A poll changes nothing but the poll's own two fields.
LEMMA RecordPollStep ==
    ASSUME PolledInv, NEW k \in Calls, RecordPoll(k)
    PROVE  PolledInv'
  <1> USE DEF PolledInv
  <1>1. /\ UNCHANGED Around /\ UNCHANGED <<owner, issued, barred>>
        /\ pc[k] = "poll" /\ (Answer(k) \/ FailCall(k))
    BY DEF RecordPoll, Around, setup, approvalVars
  <1>2. asked[k] \in Grants
    BY <1>1 DEF PolledShape
  <1>3. Polled(k) \in Grant /\ grant[asked[k]] \in Grant
    BY <1>2, PolledRow DEF PolledTypeOK
  <1>4. /\ Polled(k).row = grant[asked[k]].row /\ Polled(k).user = grant[asked[k]].user
        /\ Polled(k).approvedAt = grant[asked[k]].approvedAt
        /\ Polled(k).consumed = grant[asked[k]].consumed
    BY <1>3 DEF Polled, Grant
  <1>5. grant' = grant \/ grant' = [grant EXCEPT ![asked[k]] = Polled(k)]
    BY DEF RecordPoll
  <1>6. RowsKeep
    BY <1>2, <1>3, <1>4, <1>5 DEF RowsKeep, PolledTypeOK
  <1> QED BY <1>1, <1>6, EndingStep DEF Around, PolledApprovals

\* A step that only moves a call on.
LEMMA GotoStep ==
    ASSUME PolledInv, NEW k \in Calls, NEW step \in {"consume", "family", "access", "client"},
           Goto(k, step), pc[k] \in Deciding, step \in Claimed => pc[k] \in Claimed,
           step = "consume" => pc[k] \notin Claimed,
           UNCHANGED Around, UNCHANGED <<grant, owner, barred>>,
           issued' = IF step = "client" THEN issued \cup {k} ELSE issued,
           pc[k] # "client"
    PROVE  PolledInv'
  <1> USE DEF PolledInv
  <1>1. CallFrame(k) /\ pc'[k] = step /\ UNCHANGED <<asked, seen>>
    BY GotoFrame DEF Steps
  <1>2. k \notin issued
    BY DEF PolledClaims, IssuedIsLate, Deciding
  <1>3. OwnersKeep(k)
    BY <1>1 DEF OwnersKeep, PolledTypeOK, PolledClaims, OwnerIsPastClaim, ClaimantOwns, Claimed, Deciding
  <1>4. IssuesKeep(k)
    BY <1>1, <1>2 DEF IssuesKeep
  <1>5. CopiesGood(k)
    BY <1>1 DEF CopiesGood, PolledShape, PolledApprovals, SeenApproved
  <1> QED BY <1>1, <1>3, <1>4, <1>5, CallStepKeeps, SameRows DEF Around, PolledApprovals

\* Reading the approver's row keeps the invariant.
LEMMA ReadUserStep ==
    ASSUME PolledInv, NEW k \in Calls, ReadUser(k)
    PROVE  PolledInv'
  <1>1. UNCHANGED Around /\ UNCHANGED <<grant, owner, issued, barred>> /\ pc[k] = "user"
    BY DEF ReadUser, Around, rows, setup, approvalVars, history
  <1>2. CASE Answer(k)
    BY <1>1, <1>2, EndingStep, SameRows DEF Around, PolledInv, PolledApprovals
  <1>3. CASE Goto(k, "consume")
    BY <1>1, <1>3, GotoStep DEF Deciding, Claimed
  <1> QED BY <1>2, <1>3 DEF ReadUser

\* A grant is only consumed by a call that owns nothing, when nobody owns it.
LEMMA ConsumeStep ==
    ASSUME PolledInv, NEW k \in Calls, ConsumeGrant(k)
    PROVE  PolledInv'
  <1> USE DEF PolledInv
  <1> DEFINE g == asked[k]
  <1>1. UNCHANGED Around /\ UNCHANGED <<issued, barred>> /\ pc[k] = "consume"
    BY DEF ConsumeGrant, Around, setup, approvalVars
  <1>2. CASE Answer(k) /\ UNCHANGED <<grant, owner>>
    BY <1>1, <1>2, EndingStep, SameRows DEF Around, PolledApprovals
  <1>3. CASE /\ Consumable(grant[g]) /\ grant' = [grant EXCEPT ![g].consumed = TRUE]
             /\ owner' = [owner EXCEPT ![g] = k]
             /\ Goto(k, "family") \/ FailCall(k)
    <2>1. g \in Grants /\ Approver(asked[k], seen[k].user) /\ k \notin issued
      BY <1>1 DEF PolledShape, PolledApprovals, SeenApproved, PolledClaims, IssuedIsLate, Deciding
    <2>2. owner[g] = NoCall
      BY <1>3, <2>1 DEF Consumable, PolledClaims, OwnedIsConsumed
    <2>3. /\ CallFrame(k) /\ pc'[k] \in {"family", "done"}
          /\ pc'[k] = "family" => UNCHANGED <<asked, seen>>
      <3>1. CASE Goto(k, "family")
        BY <3>1, GotoFrame DEF Steps
      <3>2. CASE FailCall(k)
        BY <3>2, EndingFrame DEF CallEnds
      <3> QED BY <1>3, <3>1, <3>2
    <2>4. grant[g] \in Grant
      BY <2>1 DEF PolledTypeOK
    <2>5. \A row \in Grant : /\ [row EXCEPT !.consumed = TRUE] \in Grant
                             /\ [row EXCEPT !.consumed = TRUE].row = row.row
                             /\ [row EXCEPT !.consumed = TRUE].user = row.user
                             /\ [row EXCEPT !.consumed = TRUE].approvedAt = row.approvedAt
                             /\ [row EXCEPT !.consumed = TRUE].consumed = TRUE
      BY DEF Grant
    <2> DEFINE new == [grant[g] EXCEPT !.consumed = TRUE]
    <2>6. /\ new \in Grant /\ new.row = grant[g].row /\ new.user = grant[g].user
          /\ new.approvedAt = grant[g].approvedAt /\ new.consumed
      BY <2>4, <2>5
    <2>7. grant' = [grant EXCEPT ![g] = new]
      BY <1>3
    <2>8. RowsKeep /\ grant'[g].consumed /\ grant'[g].row # "none"
      <3> HIDE DEF new
      <3> QED BY <1>3, <2>1, <2>6, <2>7 DEF RowsKeep, PolledTypeOK, Consumable
    <2>9. OwnersKeep(k)
      BY <1>3, <2>1, <2>2, <2>3, <2>8, PolledNameAssumption DEF OwnersKeep, PolledTypeOK, Claimed
    <2>10. IssuesKeep(k)
      BY <1>1, <2>1 DEF IssuesKeep
    <2>11. CopiesGood(k)
      BY <1>1, <2>1, <2>3 DEF CopiesGood, Deciding
    <2> QED BY <1>1, <2>3, <2>8, <2>9, <2>10, <2>11, CallStepKeeps DEF Around, PolledApprovals
  <1> QED BY <1>2, <1>3 DEF ConsumeGrant

\* Creating the token family keeps the invariant.
LEMMA CreateFamilyStep ==
    ASSUME PolledInv, NEW k \in Calls, CreateFamily(k)
    PROVE  PolledInv'
  <1>1. UNCHANGED Around /\ UNCHANGED <<grant, owner, issued, barred>> /\ pc[k] = "family"
    BY DEF CreateFamily, Around, rows, setup, approvalVars, history
  <1>2. CASE Answer(k)
    BY <1>1, <1>2, EndingStep, SameRows DEF Around, PolledInv, PolledApprovals
  <1>3. CASE Goto(k, "access")
    BY <1>1, <1>3, GotoStep DEF Deciding, Claimed
  <1> QED BY <1>2, <1>3 DEF CreateFamily

\* A call that issues keeps what it read, in either of its three ends.
LEMMA CreateAccessStep ==
    ASSUME PolledInv, NEW k \in Calls, CreateAccess(k)
    PROVE  PolledInv'
  <1> USE DEF PolledInv
  <1>1. UNCHANGED Around /\ UNCHANGED <<grant, owner, barred>> /\ pc[k] = "access"
    BY DEF CreateAccess, Around, rows, setup, approvalVars
  <1>2. CASE Answer(k) /\ UNCHANGED issued
    BY <1>1, <1>2, EndingStep, SameRows DEF Around, PolledApprovals
  <1>3. CASE Goto(k, "client") /\ issued' = issued \cup {k}
    BY <1>1, <1>3, GotoStep DEF Deciding, Claimed
  <1>4. CASE (Answer(k) \/ FailCall(k)) /\ issued' = issued \cup {k}
    <2>1. CallFrame(k) /\ pc'[k] = "done" /\ asked'[k] = asked[k] /\ seen'[k] = seen[k]
      BY <1>1, <1>4, EndingFrame DEF CallEnds
    <2>2. OwnersKeep(k)
      BY <1>1, <2>1 DEF OwnersKeep, PolledTypeOK, Claimed
    <2>3. IssuesKeep(k)
      BY <1>4, <2>1 DEF IssuesKeep
    <2>4. CopiesGood(k)
      BY <1>1, <2>1 DEF CopiesGood, PolledShape, PolledApprovals, SeenApproved, Deciding
    <2> QED BY <1>1, <2>1, <2>2, <2>3, <2>4, CallStepKeeps, SameRows DEF Around, PolledApprovals
  <1> QED BY <1>2, <1>3, <1>4 DEF CreateAccess

\* Reading the client, and a failing operation, keep the invariant.
LEMMA LastCallSteps ==
    ASSUME PolledInv, NEW k \in Calls, ReadClient(k) \/ OperationFails(k)
    PROVE  PolledInv'
  <1>1. UNCHANGED Around /\ UNCHANGED <<grant, owner, issued, barred>> /\ pc[k] # "done"
    BY DEF ReadClient, OperationFails, Around, rows, setup, approvalVars, history
  <1>2. Answer(k) \/ FailCall(k)
    BY DEF ReadClient, OperationFails
  <1> QED BY <1>1, <1>2, EndingStep, SameRows DEF Around, PolledInv, PolledApprovals

\* A session or a user that goes away takes no approval along.
LEMMA OtherActorsStep ==
    ASSUME PolledInv, (\E u \in Users : EndSession(u) \/ DeleteUser(u)) \/ PolledTick
    PROVE  PolledInv'
  <1> USE DEF PolledInv
  <1>1. UNCHANGED <<flow, backend, callVars, approvalVars, faults, history>>
    BY DEF EndSession, DeleteUser, PolledTick, setup
  <1>2. users' \subseteq users /\ liveSessions' \subseteq liveSessions /\ liveSessions' \subseteq users'
    BY DEF EndSession, DeleteUser, PolledTick, PolledTypeOK
  <1>3. now' \in 0..MaxTime
    BY ClockAssumption DEF EndSession, DeleteUser, PolledTick, Tick, PolledTypeOK
  <1> DEFINE Kept(h) ==
               /\ grant'[h] \in Grant /\ grant'[h].user = grant[h].user
               /\ grant'[h].approvedAt = grant[h].approvedAt
               /\ grant'[h].consumed = grant[h].consumed
               /\ grant[h].row # "none" => grant'[h].row # "none"
  <1>4. grant' \in [Grants -> Grant] /\ \A h \in Grants : Kept(h)
    <2>1. ASSUME UNCHANGED grant PROVE grant' \in [Grants -> Grant] /\ \A h \in Grants : Kept(h)
      BY <2>1 DEF PolledTypeOK
    <2>2. ASSUME NEW u \in Users, DeleteUser(u) PROVE grant' \in [Grants -> Grant] /\ \A h \in Grants : Kept(h)
      <3>1. ASSUME NEW h \in Grants PROVE Kept(h)
        <4>1. grant[h] \in Grant
          BY DEF PolledTypeOK
        <4>2. grant'[h] = grant[h] \/ grant'[h] = [grant[h] EXCEPT !.row = "gone"]
          BY <2>2 DEF DeleteUser
        <4> QED BY <4>1, <4>2 DEF Grant
      <3>2. DOMAIN grant' = Grants /\ grant' = [h \in Grants |-> grant'[h]]
        BY <2>2 DEF DeleteUser
      <3> QED BY <3>1, <3>2
    <2> QED BY <2>1, <2>2 DEF EndSession, PolledTick
  <1>5. PolledTypeOK'
    BY <1>1, <1>2, <1>3, <1>4 DEF PolledTypeOK, callVars, copies, approvalVars, history
  <1>6. PolledShape'
    BY <1>1 DEF PolledShape, callVars, copies, approvalVars, history
  <1>7. PolledClaims'
    BY <1>1, <1>4
    DEF PolledClaims, OwnedIsConsumed, OwnerIsPastClaim, ClaimantOwns, IssuedIsLate,
        callVars, copies, history
  <1>8. PolledApprovals'
    <2>1. ApprovalsChecked'
      BY <1>1, <1>2 DEF PolledApprovals, ApprovalsChecked, ApprovalChecked, SubjectIsSession, approvalVars, history
    <2>2. RowsApproved' /\ SeenApproved' /\ barred' = {}
      BY <1>1, <1>4 DEF PolledApprovals, RowsApproved, SeenApproved, Pending, Approver, callVars, copies, history
    <2> QED BY <2>1, <2>2 DEF PolledApprovals
  <1> QED BY <1>5, <1>6, <1>7, <1>8

\* A stuttering step keeps the invariant.
LEMMA PolledStutter == ASSUME PolledInv, UNCHANGED polledVars PROVE PolledInv'
  BY DEF PolledInv, PolledTypeOK, PolledShape, PolledClaims, OwnedIsConsumed, OwnerIsPastClaim,
         ClaimantOwns, IssuedIsLate, PolledApprovals, ApprovalsChecked, ApprovalChecked,
         SubjectIsSession, RowsApproved, SeenApproved, Pending, Approver, polledVars, rows, setup,
         callVars, copies, approvalVars, history

\* The inductive invariant of the polled grants: the rows, the snapshots the
\* calls hold and the history of claims and approvals agree (device_flow.rs, ciba.rs).
THEOREM PolledInvariant == PolledSpec => []PolledInv
  <1>1. ASSUME PolledInv, [PolledNext]_polledVars PROVE PolledInv'
    <2>1. ASSUME NEW a \in Approvals, ApprovalNext(a) PROVE PolledInv'
      BY <1>1, <2>1, BeginApprovalStep, ApprovalCheckStep, RecordApprovalStep, ApprovalFailsStep
      DEF ApprovalNext
    <2>2. ASSUME NEW k \in Calls, CallNext(k) PROVE PolledInv'
      BY <1>1, <2>2, BeginCallStep, RecordPollStep, ReadUserStep, ConsumeStep, CreateFamilyStep,
         CreateAccessStep, LastCallSteps
      DEF CallNext
    <2> QED
      BY <1>1, <2>1, <2>2, StoreStep, OtherActorsStep, PolledStutter DEF PolledNext
  <1> QED BY <1>1, PolledStart, PTL DEF PolledSpec

-----------------------------------------------------------------------------
(* The theorems *)

\* device_flow.rs and ciba.rs: the rows, the copies and the histories keep
\* their types, and a deleted user has no live browser session.
THEOREM PolledTypeCorrect == PolledSpec => []PolledTypeOK
  BY PolledInvariant, PTL DEF PolledInv

\* device_code_grant and ciba_grant issue tokens only for a user of the realm
\* who approved that grant in their own active session.
THEOREM ApproverOnly == PolledSpec => []TokensOnlyForTheApprover
  <1>1. PolledInv => TokensOnlyForTheApprover
    BY DEF PolledInv, PolledTypeOK, PolledApprovals, SeenApproved, Approver, TokensOnlyForTheApprover
  <1> QED BY <1>1, PolledInvariant, PTL

\* A step consumes a grant nobody owns for a call that owns none, pays for a
\* claim, or changes neither.
LEMMA PolledStepClaims ==
    ASSUME PolledInv, [PolledNext]_polledVars
    PROVE  [Claims!ClaimNext]_(Claims!claimVars)
  <1> USE DEF PolledInv, Claims!ClaimNext, Claims!claimVars, Claims!Claim, Claims!Pay
  <1>1. CASE UNCHANGED <<owner, issued>>
    BY <1>1
  <1>2. ASSUME NEW k \in Calls, ConsumeGrant(k) PROVE [Claims!ClaimNext]_(Claims!claimVars)
    <2>1. asked[k] \in Grants /\ \A d \in Grants : owner[d] # k
      BY <1>2 DEF ConsumeGrant, PolledShape, PolledClaims, OwnerIsPastClaim, Deciding, Claimed
    <2>2. Consumable(grant[asked[k]]) => owner[asked[k]] = NoCall
      BY <2>1 DEF Consumable, PolledClaims, OwnedIsConsumed
    <2> QED BY <1>2, <2>1, <2>2 DEF ConsumeGrant
  <1>3. ASSUME NEW k \in Calls, CreateAccess(k) PROVE [Claims!ClaimNext]_(Claims!claimVars)
    <2>1. asked[k] \in Grants /\ owner[asked[k]] = k /\ k \notin issued
      BY <1>3 DEF CreateAccess, PolledShape, PolledClaims, ClaimantOwns, IssuedIsLate, Deciding, Claimed
    <2>2. UNCHANGED owner
      BY <1>3 DEF CreateAccess
    <2>3. issued' = issued \/ issued' = issued \cup {k}
      BY <1>3 DEF CreateAccess
    <2> QED BY <2>1, <2>2, <2>3
  <1> QED
    BY <1>1, <1>2, <1>3
    DEF PolledNext, polledVars, history, StoreGrant, ApprovalNext, BeginApproval,
        ReadApprovalSession, ReadApprover, ApprovalCheck, RecordApproval, ApprovalFails, CallNext,
        BeginCall, RecordPoll, ReadUser, CreateFamily, ReadClient, OperationFails, EndSession,
        DeleteUser, PolledTick

\* consume_device_authorization_grant, consume_backchannel_authentication_grant:
\* the polled grants implement the abstract single-use credential.
THEOREM GrantClaimedOnce == PolledSpec => EachGrantClaimedOnce
  <1>1. PolledInit => Claims!ClaimInit
    BY DEF PolledInit, Claims!ClaimInit
  <1> QED
    BY <1>1, PolledInvariant, PolledStepClaims, PTL
    DEF PolledSpec, EachGrantClaimedOnce, Claims!ClaimSpec
=============================================================================
