----------------------------- MODULE PolledGrant -----------------------------
(***************************************************************************)
(* The two grants a client polls for while a user approves elsewhere: the  *)
(* device grant (qid-oauth endpoints/device_flow.rs) and CIBA (ciba.rs).   *)
(*                                                                         *)
(* Token calls and approvals are processes: every repository operation     *)
(* they await is one action, and a token call decides from the snapshot of *)
(* the grant it read first.  One realm has the grants.                     *)
(***************************************************************************)
EXTENDS Clock, FiniteSets

CONSTANTS
    Setups,       \* the grant types and repositories explored, as pairs
    Grants,       \* device codes, or auth_req_ids
    Calls,        \* token requests
    Approvals,    \* approval requests
    Users, RealmUsers, \* all users, and those of the grants' realm
    NoCall, NoGrant, NoUser, Never,
    TTL,          \* device_code_ttl_seconds, or 600
    Interval,     \* the first poll interval (5)
    SlowDown,     \* what an early poll adds to it (5)
    MaxInterval,  \* MAX_POLL_INTERVAL_SECONDS of the device flow (60)
    MaxFaults     \* bound: failed repository operations

ASSUME PolledSetupAssumption == Setups \subseteq {"device", "ciba"} \X {"sql", "file"}
ASSUME PolledNumberAssumption ==
    /\ TTL \in Nat /\ Interval \in Nat /\ SlowDown \in Nat /\ MaxInterval \in Nat
    /\ MaxFaults \in Nat
ASSUME PolledNameAssumption ==
    /\ RealmUsers \subseteq Users /\ NoUser \notin Users
    /\ NoCall \notin Calls /\ NoGrant \notin Grants /\ Never \notin Nat

VARIABLES
    flow,      \* the grant type of the run: "device" or "ciba"
    backend,   \* the repository: with SQL a token family needs its user
    users,     \* users whose row exists
    liveSessions, \* users with an active browser session
    grant,     \* the grant rows
    pc,        \* where each token call is
    asked,     \* the grant a token call presents
    seen,      \* the grant as the token call read it
    at,        \* the token call's "now"
    apc,       \* where each approval is
    ask,       \* the approval's grant, claimed user and session owner
    faults,    \* failing repository operations left (bound)
    owner,     \* history: the call that consumed each grant
    issued,    \* history: calls that created an access token
    approved,  \* history: <<grant, session owner>> of the approvals recorded
               \* for an owner who was signed in when they began
    barred,    \* history: calls that began on a dead grant
    strayed    \* history: approvals that began without a live session

setup == <<flow, backend>>
rows == <<setup, now, users, liveSessions, grant>>
copies == <<asked, seen, at>>
callVars == <<pc, copies>>
approvalVars == <<apc, ask>>
history == <<owner, issued, approved, barred, strayed>>
polledVars == <<rows, callVars, approvalVars, faults, history>>

Grant == [row: {"none", "live", "gone"}, user: Users \cup {NoUser},
          approvedAt: Nat \cup {Never}, consumed: BOOLEAN, expires: Nat,
          lastPoll: Nat \cup {Never}, interval: Nat]
Steps == {"idle", "poll", "user", "consume", "family", "access", "client", "done"}
ApprovalSteps == {"idle", "session", "user", "approve", "done"}

Ask == [grant: Grants, user: Users, by: Users]
NoAsk == [grant |-> NoGrant, user |-> NoUser, by |-> NoUser]

PolledTypeOK ==
    /\ flow \in {"device", "ciba"} /\ backend \in {"sql", "file"}
    /\ now \in 0..MaxTime /\ users \subseteq Users /\ liveSessions \subseteq users
    /\ grant \in [Grants -> Grant] /\ seen \in [Calls -> Grant]
    /\ pc \in [Calls -> Steps]
    /\ asked \in [Calls -> Grants \cup {NoGrant}]
    /\ at \in [Calls -> 0..MaxTime]
    /\ apc \in [Approvals -> ApprovalSteps]
    /\ ask \in [Approvals -> Ask \cup {NoAsk}]
    /\ faults \in 0..MaxFaults
    /\ owner \in [Grants -> Calls \cup {NoCall}]
    /\ issued \subseteq Calls /\ barred \subseteq Calls
    /\ approved \subseteq Grants \X Users /\ strayed \subseteq Approvals

NoGrantRow == [row |-> "none", user |-> NoUser, approvedAt |-> Never,
          consumed |-> FALSE, expires |-> 0, lastPoll |-> Never, interval |-> 0]

PolledInit ==
    /\ \E s \in Setups : flow = s[1] /\ backend = s[2]
    /\ now = 0 /\ users = Users /\ liveSessions = Users
    /\ grant = [g \in Grants |-> NoGrantRow]
    /\ pc = [k \in Calls |-> "idle"]
    /\ asked = [k \in Calls |-> NoGrant] /\ seen = [k \in Calls |-> NoGrantRow]
    /\ at = [k \in Calls |-> 0]
    /\ apc = [a \in Approvals |-> "idle"]
    /\ ask = [a \in Approvals |-> NoAsk]
    /\ faults = MaxFaults
    /\ owner = [g \in Grants |-> NoCall]
    /\ issued = {} /\ approved = {} /\ barred = {} /\ strayed = {}

Goto(k, step) == pc' = [pc EXCEPT ![k] = step] /\ UNCHANGED <<copies, faults>>

\* The client has its answer.  What the call read is kept (history) when it
\* may have created tokens.
Ends(k) ==
    /\ pc' = [pc EXCEPT ![k] = "done"]
    /\ IF pc[k] \in {"access", "client"} THEN UNCHANGED copies
       ELSE /\ asked' = [asked EXCEPT ![k] = NoGrant]
            /\ seen' = [seen EXCEPT ![k] = NoGrantRow] /\ at' = [at EXCEPT ![k] = 0]

Answer(k) == Ends(k) /\ UNCHANGED faults

\* A repository operation fails; `?` ends the call with that error.
FailCall(k) == faults > 0 /\ faults' = faults - 1 /\ Ends(k)

-----------------------------------------------------------------------------
(* Starting a grant *)

\* The user a new grant is bound to: nobody for a device, the login_hint's for
\* CIBA.  That row was read a moment ago and may be gone by now.
BoundUsers == IF flow = "ciba" THEN RealmUsers ELSE {NoUser}

\* device_authorization and create_backchannel_authentication_grant.
StoreGrant(g) ==
    /\ grant[g].row = "none"
    /\ \E u \in BoundUsers :
         grant' = [grant EXCEPT ![g] =
             [NoGrantRow EXCEPT !.row = "live", !.user = u, !.expires = now + TTL,
                           !.interval = Interval]]
    /\ UNCHANGED <<setup, now, users, liveSessions, callVars, approvalVars,
                   faults, history>>

-----------------------------------------------------------------------------
(* Approval: device_authorization_approve, backchannel_authentication_approve *)

ApprovalEnds(a) ==
    /\ apc' = [apc EXCEPT ![a] = "done"] /\ ask' = [ask EXCEPT ![a] = NoAsk]
    /\ strayed' = strayed \ {a}

\* A check of the approval: it goes on when the check holds, or ends there.
ApprovalCheck(a, holds, next) ==
    /\ IF holds THEN apc' = [apc EXCEPT ![a] = next] /\ UNCHANGED <<ask, strayed>>
       ELSE ApprovalEnds(a)
    /\ UNCHANGED <<rows, callVars, faults, owner, issued, approved, barred>>

\* CIBA: "approval subject does not match login_hint".  A device approval
\* carries no subject: it is the session's user.
SubjectMatches(g, u) == flow = "ciba" => grant[g].user = u

\* A device grant is approved as the session's user.
SubjectIsSession(u, by) == flow = "device" => u = by

\* The grant is read and the subject compared; neither expiry nor consumption
\* is looked at.  u is the subject, `by` the owner of the session cookie.
BeginApproval(a, g, u, by) ==
    /\ apc[a] = "idle"
    /\ SubjectIsSession(u, by)
    /\ \/ /\ grant[g].row = "live" /\ SubjectMatches(g, u)
          /\ ask' = [ask EXCEPT ![a] = [grant |-> g, user |-> u, by |-> by]]
          /\ apc' = [apc EXCEPT ![a] = IF flow = "device" THEN "session" ELSE "user"]
          /\ strayed' = IF by \notin liveSessions THEN strayed \cup {a} ELSE strayed
       \/ /\ grant[g].row # "live" \/ ~SubjectMatches(g, u)
          /\ ApprovalEnds(a)
    /\ UNCHANGED <<rows, callVars, faults, owner, issued, approved, barred>>

\* Mutant: the session's activity is not looked at.
SessionAcceptedWhenEnded(a) == flow = "ciba" => ask[a].by = ask[a].user

\* get_session and session_is_active; CIBA compares its user with the subject
\* and its realm with the grant's.
SessionAccepted(a) ==
    /\ ask[a].by \in liveSessions
    /\ flow = "ciba" => ask[a].by = ask[a].user /\ ask[a].by \in RealmUsers

ReadApprovalSession(a) ==
    /\ apc[a] = "session"
    /\ ApprovalCheck(a, SessionAccepted(a), IF flow = "device" THEN "user" ELSE "approve")

\* get_user_by_id and the comparison of its realm with the grant's.
ApproverAccepted(a) == ask[a].user \in users /\ ask[a].user \in RealmUsers

ReadApprover(a) ==
    /\ apc[a] = "user"
    /\ ApprovalCheck(a, ApproverAccepted(a), IF flow = "device" THEN "approve" ELSE "session")

\* approve_device_authorization_grant, approve_backchannel_authentication_grant:
\* the row's user and approval time are replaced, whatever state it is in.
RecordApproval(a) ==
    /\ apc[a] = "approve"
    /\ ApprovalEnds(a)
    /\ LET g == ask[a].grant IN
       IF grant[g].row = "live"
         THEN /\ grant' = [grant EXCEPT ![g] =
                    [@ EXCEPT !.user = ask[a].user, !.approvedAt = now]]
              /\ approved' = IF a \in strayed THEN approved
                             ELSE approved \cup {<<g, ask[a].by>>}
         ELSE UNCHANGED <<grant, approved>>
    /\ UNCHANGED <<setup, now, users, liveSessions, callVars, faults, owner,
                   issued, barred>>

\* An operation of the approval fails without effect.
ApprovalFails(a) ==
    /\ apc[a] \notin {"idle", "done"}
    /\ faults > 0 /\ faults' = faults - 1
    /\ ApprovalEnds(a)
    /\ UNCHANGED <<rows, callVars, owner, issued, approved, barred>>

-----------------------------------------------------------------------------
(* Token requests: device_code_grant, ciba_grant *)

\* Nobody has approved yet.
Pending(row) == IF flow = "device" THEN row.user = NoUser ELSE row.approvedAt = Never

GrantExpired(row) == row.expires <= now

\* The grant is read and checked.  The refusal is for a dead grant, or for one
\* of another client.
BeginCall(k, g) ==
    /\ pc[k] = "idle"
    /\ LET row == grant[g]
           dead == row.row # "live" \/ GrantExpired(row) \/ row.consumed
       IN \/ /\ ~dead
             /\ pc' = [pc EXCEPT ![k] = IF Pending(row) THEN "poll" ELSE "user"]
             /\ asked' = [asked EXCEPT ![k] = g]
             /\ seen' = [seen EXCEPT ![k] = row]
             /\ at' = [at EXCEPT ![k] = now]
             /\ barred' = IF row.row # "live" \/ row.consumed \/ now >= row.expires
                            THEN barred \cup {k} ELSE barred
             /\ UNCHANGED faults
          \/ Answer(k) /\ UNCHANGED barred
    /\ UNCHANGED <<rows, approvalVars, owner, issued, approved, strayed>>

\* The poll came before last_poll_at + poll_interval_seconds of the snapshot.
Early(k) ==
    /\ seen[k].lastPoll # Never
    /\ at[k] < seen[k].lastPoll + seen[k].interval

\* next_interval, computed from the snapshot; only the device flow caps it.
NextInterval(k) ==
    LET longer == seen[k].interval + SlowDown
    IN  IF ~Early(k) THEN seen[k].interval
        ELSE IF flow = "device" /\ longer > MaxInterval THEN MaxInterval
        ELSE longer

\* record_..._poll sets two fields of the row as it is by then.
Polled(k) ==
    [grant[asked[k]] EXCEPT !.lastPoll = at[k], !.interval = NextInterval(k)]

\* enforce_..._poll_interval, then slow_down or authorization_pending.
RecordPoll(k) ==
    /\ pc[k] = "poll"
    /\ grant' = IF grant[asked[k]].row = "live"
                  THEN [grant EXCEPT ![asked[k]] = Polled(k)] ELSE grant
    /\ Answer(k) \/ FailCall(k)
    /\ UNCHANGED <<setup, now, users, liveSessions, approvalVars,
                   owner, issued, approved, barred, strayed>>

\* get_user_by_id, the realms, the feature switch and the resource: refusals
\* that change nothing.
ReadUser(k) ==
    /\ pc[k] = "user"
    /\ \/ seen[k].user \in users /\ seen[k].user \in RealmUsers /\ Goto(k, "consume")
       \/ Answer(k)
    /\ UNCHANGED <<rows, approvalVars, history>>

\* Mutant: the second consumer is not refused.
ConsumableAgain(row) == row.row = "live"

Consumable(row) == row.row = "live" /\ ~row.consumed

\* consume_device_authorization_grant, consume_backchannel_authentication_grant.
ConsumeGrant(k) ==
    /\ pc[k] = "consume"
    /\ LET g == asked[k] IN
       \/ /\ Consumable(grant[g])
          /\ grant' = [grant EXCEPT ![g].consumed = TRUE]
          /\ owner' = [owner EXCEPT ![g] = k]
          /\ Goto(k, "family") \/ FailCall(k)
       \/ /\ ~Consumable(grant[g])
          /\ Answer(k)
          /\ UNCHANGED <<grant, owner>>
    /\ UNCHANGED <<setup, now, users, liveSessions, approvalVars,
                   issued, approved, barred, strayed>>

\* issue_token_pair: create_token_family, for the snapshot's user.
CreateFamily(k) ==
    /\ pc[k] = "family"
    /\ IF backend = "sql" /\ seen[k].user \notin users
         THEN Answer(k) ELSE Goto(k, "access")
    /\ UNCHANGED <<rows, approvalVars, history>>

\* issue_token_pair: create_access_token (whose family goes with its user).
\* The device flow is done then; CIBA reads its client for the ID token.
CreateAccess(k) ==
    /\ pc[k] = "access"
    /\ IF backend = "sql" /\ seen[k].user \notin users
         THEN Answer(k) /\ UNCHANGED issued
         ELSE /\ issued' = issued \cup {k}
              /\ \/ flow = "device" /\ Answer(k)
                 \/ flow = "ciba" /\ Goto(k, "client")
                 \/ FailCall(k)
    /\ UNCHANGED <<rows, approvalVars, owner, approved, barred,
                   strayed>>

\* ciba_grant: get_client_by_client_id and the ID token, or an error although
\* the tokens exist.
ReadClient(k) ==
    /\ pc[k] = "client"
    /\ Answer(k)
    /\ UNCHANGED <<rows, approvalVars, history>>

\* An operation of the call fails without effect.
OperationFails(k) ==
    /\ pc[k] \notin {"idle", "done"}
    /\ FailCall(k)
    /\ UNCHANGED <<rows, approvalVars, history>>

-----------------------------------------------------------------------------
(* Other actors *)

EndSession(u) ==
    /\ u \in liveSessions
    /\ liveSessions' = liveSessions \ {u}
    /\ UNCHANGED <<setup, now, users, grant, callVars, approvalVars, faults,
                   history>>

\* Mutant: the browser sessions outlive the user.
DeleteUserKeepsSessions(u) ==
    /\ u \in users
    /\ users' = users \ {u}
    /\ UNCHANGED <<setup, now, liveSessions, grant, callVars, approvalVars,
                   faults, history>>

\* delete_user: the user, the sessions and the grants bound to the user.
DeleteUser(u) ==
    /\ u \in users
    /\ users' = users \ {u} /\ liveSessions' = liveSessions \ {u}
    /\ grant' = [g \in Grants |->
          IF grant[g].row = "live" /\ grant[g].user = u
            THEN [grant[g] EXCEPT !.row = "gone"] ELSE grant[g]]
    /\ UNCHANGED <<setup, now, callVars, approvalVars, faults, history>>

PolledTick ==
    /\ Tick
    /\ UNCHANGED <<setup, users, liveSessions, grant, callVars, approvalVars,
                   faults, history>>

-----------------------------------------------------------------------------
ApprovalNext(a) ==
    \/ \E g \in Grants, u, by \in Users : BeginApproval(a, g, u, by)
    \/ ReadApprovalSession(a) \/ ReadApprover(a) \/ RecordApproval(a)
    \/ ApprovalFails(a)

CallNext(k) ==
    \/ \E g \in Grants : BeginCall(k, g)
    \/ RecordPoll(k) \/ ReadUser(k) \/ ConsumeGrant(k) \/ CreateFamily(k)
    \/ CreateAccess(k) \/ ReadClient(k) \/ OperationFails(k)

PolledNext ==
    \/ \E g \in Grants : StoreGrant(g)
    \/ \E a \in Approvals : ApprovalNext(a)
    \/ \E k \in Calls : CallNext(k)
    \/ \E u \in Users : EndSession(u) \/ DeleteUser(u)
    \/ PolledTick

PolledSpec == PolledInit /\ [][PolledNext]_polledVars

-----------------------------------------------------------------------------
(* Properties *)

\* consume_..._grant: a device code or an auth_req_id is consumed by one call
\* for good, and that call creates at most one access token.
Claims == INSTANCE CredentialClaims WITH Creds <- Grants, paid <- issued
EachGrantClaimedOnce == Claims!ClaimSpec

\* device_flow.rs:349-364, ciba.rs:386-401: tokens only ever go out for a user
\* of the realm who approved that very grant in a browser session of their own
\* that was active when the approval began, even when a second approval
\* replaces the first while a token call is under way, and only to a call that
\* found the grant there, unexpired and unconsumed.
TokensOnlyForTheApprover ==
    \A k \in issued :
        /\ <<asked[k], seen[k].user>> \in approved /\ seen[k].user \in RealmUsers
        /\ k \notin barred
=============================================================================
