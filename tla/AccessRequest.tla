---------------------------- MODULE AccessRequest ----------------------------
(***************************************************************************)
(* One access request of qid-iga (routes/access.rs, routes/review.rs,      *)
(* engine.rs) with its approvals, the grants of its members and the        *)
(* just-in-time privileges issued on it, over the repository operations of *)
(* file/iga.rs and sql/iga.rs.                                             *)
(*                                                                         *)
(* An approval call reads the request and the approvals, validates them    *)
(* together with its own decision, stores the decision, writes the new     *)
(* status without a condition and materializes the grants.  Nothing is     *)
(* held between these steps.  Grants are inserted in one transaction that  *)
(* checks the status again.                                                *)
(***************************************************************************)
EXTENDS Clock, FiniteSets

CONSTANTS
    Requesters,     \* calls of validate_approvals and issue_jit_privilege
    Reviews,        \* access review decisions to revoke
    Approvers,      \* the approvers of the request's steps
    Members,        \* the entitlements of the request-time snapshot
    RequestExpiry,  \* expires_at of the request
    Lifetimes       \* how long an approval may be said to last

ASSUME AccessAssumption == RequestExpiry \in Nat /\ Lifetimes \subseteq Nat \ {0}

VARIABLES
    status,         \* of the request
    approvals,      \* the stored approvals
    grants,         \* the stored access grants
    privileges,     \* the stored just-in-time privileges
    approving,      \* each call
    review          \* each review

accessVars == <<now, status, approvals, grants, privileges, approving, review>>

Statuses == {"approval_required", "approved", "rejected"}
Verdicts == {"approved", "rejected"}
Approval == [id: Requesters, by: Approvers, decision: Verdicts, at: Nat, until: Nat]
AccessGrant == [id: Requesters, member: Members, revoked: BOOLEAN, afterRejection: BOOLEAN]

Approving == [pc: {"idle", "done"}]
             \cup [pc: {"list", "store", "status", "grant"}, seen: Statuses, at: Nat,
                   own: SUBSET Approval, issue: BOOLEAN, verdict: Verdicts \cup {"none"},
                   afterRejection: BOOLEAN]
             \cup [pc: {"jitList", "jit"}, afterRejection: BOOLEAN]
Review == [pc: {"idle", "revoke", "recorded", "failed"}, listed: SUBSET (Requesters \X Members),
           todo: SUBSET (Requesters \X Members)]

AccessTypeOK ==
    /\ now \in 0..MaxTime
    /\ status \in Statuses
    /\ approvals \subseteq Approval
    /\ grants \subseteq AccessGrant
    /\ privileges \subseteq [id: Requesters, afterRejection: BOOLEAN]
    /\ approving \in [Requesters -> Approving]
    /\ review \in [Reviews -> Review]

\* A request that needs approval has been stored.
AccessInit ==
    /\ now = 0
    /\ status = "approval_required"
    /\ approvals = {} /\ grants = {} /\ privileges = {}
    /\ approving = [c \in Requesters |-> [pc |-> "idle"]]
    /\ review = [v \in Reviews |-> [pc |-> "idle", listed |-> {}, todo |-> {}]]

ApprovingIs(c, r) == approving' = [approving EXCEPT ![c] = r]
ApprovingEnds(c) == ApprovingIs(c, [pc |-> "done"])

-----------------------------------------------------------------------------
(* Validation, engine.rs *)

\* validate_access_request_approvals; no approver is the subject, whose own
\* approval would refuse the request for good.
Valid(list, at) ==
    /\ at < RequestExpiry
    /\ \A a \in list : a.decision = "approved" /\ a.at <= at /\ at < a.until
    /\ \A p \in Approvers : \E a \in list : a.by = p

Verdict(list, at) ==
    CASE Valid(list, at) -> "approved"
      [] \E a \in list : a.decision = "rejected" -> "rejected"
      [] OTHER -> "none"

RejectionStored == \E a \in approvals : a.decision = "rejected"

-----------------------------------------------------------------------------
(* validate_approvals *)

\* The next of the handler's steps that has something to do.
NextStep(r, steps) ==
    CASE "store" \in steps /\ r.own # {} -> "store"
      [] "status" \in steps /\ r.seen = "approval_required" /\ r.verdict # "none" -> "status"
      [] r.issue /\ r.verdict = "approved" -> "grant"
      [] OTHER -> "done"
GoesOn(c, r, steps) ==
    LET pc == NextStep(r, steps)
    IN  IF pc = "done" THEN ApprovingEnds(c) ELSE ApprovingIs(c, [r EXCEPT !.pc = pc])

\* get_iga_access_request, the clock, and the decisions the caller brings of
\* its own; a request that is already approved takes no further decision.
ReadRequest(c) ==
    /\ approving[c].pc = "idle"
    /\ status # "rejected"
    /\ \E issue \in BOOLEAN, by \in Approvers :
       \E own \in SUBSET [id: {c}, by: {by}, decision: Verdicts, at: {now},
                          until: {now + l : l \in Lifetimes}] :
          /\ own # {} => status = "approval_required"
          /\ ApprovingIs(c, [pc |-> "list", seen |-> status, at |-> now, own |-> own,
                             issue |-> issue, verdict |-> "none",
                             afterRejection |-> RejectionStored])
    /\ UNCHANGED <<now, status, approvals, grants, privileges, review>>

\* list_iga_approvals and the validation; a package that has changed since the
\* request refuses the issue before anything is stored.
ListApprovals(c) ==
    LET r == [approving[c] EXCEPT
                 !.verdict = Verdict(approvals \cup approving[c].own, approving[c].at)]
    IN
    /\ approving[c].pc = "list"
    /\ \/ GoesOn(c, r, {"store", "status"})
       \/ ApprovingEnds(c)
    /\ UNCHANGED <<now, status, approvals, grants, privileges, review>>

\* store_iga_approval, one after the other; a save may fail after memory has
\* changed.
StoreApproval(c) ==
    LET r == approving[c] IN
    /\ r.pc = "store"
    /\ \E a \in r.own :
          \/ approvals' = approvals \cup {a} /\ GoesOn(c, [r EXCEPT !.own = @ \ {a}], {"store", "status"})
          \/ approvals' \in {approvals, approvals \cup {a}} /\ ApprovingEnds(c)
    /\ UNCHANGED <<now, status, grants, privileges, review>>

\* update_iga_access_request_status, whatever the status is by now.
UpdateStatus(c) ==
    LET r == approving[c] IN
    /\ r.pc = "status"
    /\ \/ status' = r.verdict /\ GoesOn(c, r, {})
       \/ status' \in {status, r.verdict} /\ ApprovingEnds(c)
    /\ UNCHANGED <<now, approvals, grants, privileges, review>>

\* The incumbents of missing_grants: all grants of the request.
Incumbents == {g.member : g \in grants}

\* ensure_iga_access_grants, one transaction that a failure rolls back.
EnsureGrants(c) ==
    /\ approving[c].pc = "grant"
    /\ \/ /\ status = "approved"
          /\ grants' = grants \cup
                {[id |-> c, member |-> m, revoked |-> FALSE,
                  afterRejection |-> approving[c].afterRejection] : m \in Members \ Incumbents}
       \/ UNCHANGED grants
    /\ ApprovingEnds(c)
    /\ UNCHANGED <<now, status, approvals, privileges, review>>

-----------------------------------------------------------------------------
(* issue_jit_privilege *)

ReadForPrivilege(c) ==
    /\ approving[c].pc = "idle"
    /\ status = "approved"
    /\ ApprovingIs(c, [pc |-> "jitList", afterRejection |-> RejectionStored])
    /\ UNCHANGED <<now, status, approvals, grants, privileges, review>>

\* Mutant: the approved status is taken for the evidence.
EvidenceByStatus(list, at) == list # {}
\* The approvals are validated again.
Evidence(list, at) == list # {} /\ Valid(list, at)

ListEvidence(c) ==
    /\ approving[c].pc = "jitList"
    /\ \/ Evidence(approvals, now) /\ ApprovingIs(c, [approving[c] EXCEPT !.pc = "jit"])
       \/ ApprovingEnds(c)
    /\ UNCHANGED <<now, status, approvals, grants, privileges, review>>

StorePrivilege(c) ==
    /\ approving[c].pc = "jit"
    /\ privileges' \in {privileges, privileges \cup
          {[id |-> c, afterRejection |-> approving[c].afterRejection]}}
    /\ ApprovingEnds(c)
    /\ UNCHANGED <<now, status, approvals, grants, review>>

-----------------------------------------------------------------------------
(* Revocation *)

NameOf(g) == <<g.id, g.member>>
Revoked(names) ==
    {IF NameOf(g) \in names THEN [g EXCEPT !.revoked = TRUE] ELSE g : g \in grants}

\* revoke_access_grant
RevokeGrant ==
    /\ \E g \in grants : ~g.revoked /\ grants' = Revoked({NameOf(g)})
    /\ UNCHANGED <<now, status, approvals, privileges, approving, review>>

\* create_access_review_decision with a revoke: the active grants of the
\* entitlements the campaign lists for the subject, or all if it lists none.
BeginReview(v) ==
    /\ review[v].pc = "idle"
    /\ \E filter \in SUBSET Members :
          LET listed == {NameOf(g) : g \in {x \in grants : /\ ~x.revoked
                                                           /\ filter = {} \/ x.member \in filter}}
          IN  review' = [review EXCEPT ![v] = [pc |-> "revoke", listed |-> listed, todo |-> listed]]
    /\ UNCHANGED <<now, status, approvals, grants, privileges, approving>>

\* One of them is revoked; a failure ends the review without a decision.
ReviewRevokes(v) ==
    /\ review[v].pc = "revoke"
    /\ \E n \in review[v].todo :
          \/ grants' = Revoked({n}) /\ review' = [review EXCEPT ![v].todo = @ \ {n}]
          \/ grants' \in {grants, Revoked({n})} /\ review' = [review EXCEPT ![v].pc = "failed"]
    /\ UNCHANGED <<now, status, approvals, privileges, approving>>

\* "Effects first": nothing is left to revoke.
ReviewReady(v) == review[v].pc = "revoke" /\ review[v].todo = {}

\* store_iga_access_review_decision
RecordReview(v) ==
    /\ ReviewReady(v)
    /\ \E pc \in {"recorded", "failed"} : review' = [review EXCEPT ![v].pc = pc]
    /\ UNCHANGED <<now, status, approvals, grants, privileges, approving>>

AccessNext ==
    \/ \E c \in Requesters :
          \/ ReadRequest(c) \/ ListApprovals(c) \/ StoreApproval(c) \/ UpdateStatus(c)
          \/ EnsureGrants(c)
          \/ ReadForPrivilege(c) \/ ListEvidence(c) \/ StorePrivilege(c)
    \/ RevokeGrant
    \/ \E v \in Reviews : BeginReview(v) \/ ReviewRevokes(v) \/ RecordReview(v)
    \/ Tick /\ UNCHANGED <<status, approvals, grants, privileges, approving, review>>

AccessSpec == AccessInit /\ [][AccessNext]_accessVars

-----------------------------------------------------------------------------
\* A refusal stands, although an overlapping approval may write "approved" over
\* "rejected" (access.rs:499).  Nothing is issued by a call that began after a
\* rejection was stored; a member is granted once, so that no later call
\* issues a revoked grant again (iga_grants.rs:74); and a recorded review has
\* revoked every grant it listed when it began (review.rs:192, "a recorded
\* revoke must imply applied revocation").
RefusalStands ==
    /\ \A g \in grants \cup privileges : ~g.afterRejection
    /\ \A g, h \in grants : g.member = h.member => g = h
    /\ \A v \in Reviews : review[v].pc = "recorded" =>
          \A g \in grants : NameOf(g) \in review[v].listed => g.revoked
=============================================================================
