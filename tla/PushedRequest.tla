---------------------------- MODULE PushedRequest ----------------------------
(***************************************************************************)
(* The authorization endpoint on a pushed request (qid-oidc provider.rs),   *)
(* up to the authorization code, with the continuation that waits for a     *)
(* push approval (qid-oidc push.rs).                                        *)
(*                                                                          *)
(* One request_uri and one user, who has a browser session and may have     *)
(* registered a push device.  A GET uses the session and marks the request  *)
(* used when nothing can refuse it any more; a POST marks it before it      *)
(* looks at the password.  Every repository operation is a step of its own. *)
(***************************************************************************)
EXTENDS Clock

CONSTANTS
    Visits,         \* requests to the authorization endpoint
    Completions,    \* requests to complete a push approval
    ParTtl,         \* expires_at of the pushed request, made at 0
    ApprovalTtl,    \* mfa.push.ttl_seconds
    MaxStoreFaults  \* bound: failing repository operations

ASSUME PushedAssumption ==
    /\ ParTtl \in Nat /\ ApprovalTtl \in Nat /\ MaxStoreFaults \in Nat
    /\ Visits \cap Completions = {}

VARIABLES
    parUsed,      \* par.used
    signedIn,     \* the browser session is active
    device,       \* the user's push authenticator
    approval,     \* the push login a POST started: its decision
    continuation, \* and the authorization continuation of the same id
    waitsUntil,   \* when both expire
    visit,        \* each request to the endpoint
    completion,   \* each completion
    codes,        \* requests that stored an authorization code
    storeFaults

pushedVars == <<now, parUsed, signedIn, device, approval, continuation, waitsUntil,
           visit, completion, codes, storeFaults>>
waiting == <<approval, continuation, waitsUntil>>
browser == <<signedIn, device>>

Visit == [pc: {"idle", "session", "factor", "mark", "password", "prepare",
               "continue", "issue", "rejected", "ended"},
          post: BOOLEAN]
Completion == [pc: {"consume", "redeem", "issue", "ended"}, of: Visits] \cup [pc: {"idle"}]

PushedTypeOK ==
    /\ parUsed \in BOOLEAN /\ signedIn \in BOOLEAN
    /\ device \in {"none", "active", "revoked"}
    /\ approval \in [Visits -> {"none", "pending", "approved", "denied", "redeemed"}]
    /\ continuation \in [Visits -> {"none", "open", "consumed"}]
    /\ waitsUntil \in [Visits -> Nat]
    /\ visit \in [Visits -> Visit] /\ completion \in [Completions -> Completion]
    /\ codes \subseteq Visits \cup Completions
    /\ storeFaults \in 0..MaxStoreFaults

PushedInit ==
    /\ now = 0 /\ parUsed = FALSE /\ signedIn = TRUE
    /\ device \in {"none", "active"}
    /\ approval = [v \in Visits |-> "none"]
    /\ continuation = [v \in Visits |-> "none"]
    /\ waitsUntil = [v \in Visits |-> 0]
    /\ visit = [v \in Visits |-> [pc |-> "idle", post |-> FALSE]]
    /\ completion = [c \in Completions |-> [pc |-> "idle"]]
    /\ codes = {} /\ storeFaults = MaxStoreFaults

VisitGoes(v, step) == visit' = [visit EXCEPT ![v].pc = step]
CompletionGoes(c, step) == completion' = [completion EXCEPT ![c].pc = step]
StoreFault == storeFaults > 0 /\ storeFaults' = storeFaults - 1

\* A repository operation of a visit or of a completion reports an error.
VisitFails(v) ==
    /\ visit[v].pc \notin {"idle", "mark", "rejected", "ended"} /\ StoreFault
    /\ VisitGoes(v, "ended")
    /\ UNCHANGED <<now, parUsed, browser, waiting, completion, codes>>

CompletionFails(c) ==
    /\ completion[c].pc \notin {"idle", "ended"} /\ StoreFault
    /\ CompletionGoes(c, "ended")
    /\ UNCHANGED <<now, parUsed, browser, waiting, visit, codes>>

-----------------------------------------------------------------------------
(* authorize_get and authorize_post *)

\* resolve_authorize_request: reads the row, and refuses a used or an expired one.
Resolve(v) ==
    /\ visit[v].pc = "idle"
    /\ \E post \in BOOLEAN :
          visit' = [visit EXCEPT ![v] = [post |-> post,
              pc |-> IF parUsed \/ ParTtl <= now THEN "ended"
                     ELSE IF post THEN "mark" ELSE "session"]]
    /\ UNCHANGED <<now, parUsed, browser, waiting, completion, codes, storeFaults>>

\* Mutant: the request is marked before the push factor is read.
ReadSessionMarks(v) ==
    /\ visit[v].pc = "session" /\ signedIn /\ ~parUsed
    /\ parUsed' = TRUE /\ VisitGoes(v, "factor")
    /\ UNCHANGED <<now, browser, waiting, completion, codes, storeFaults>>

\* authorize_with_browser_session up to the push factor.  Without an active
\* session (or one too old for max_age, or of another acr) the answer is a
\* login challenge.
ReadSession(v) ==
    /\ visit[v].pc = "session"
    /\ \/ signedIn /\ VisitGoes(v, "factor")
       \/ VisitGoes(v, "ended")
    /\ UNCHANGED <<now, parUsed, browser, waiting, completion, codes, storeFaults>>

\* push_factor_satisfied, for a password session or a password just accepted.
\* A GET falls back to the login challenge, a POST starts a push approval.
ReadFactor(v) ==
    /\ visit[v].pc = "factor"
    /\ VisitGoes(v, IF device # "active" THEN IF visit[v].post THEN "issue" ELSE "mark"
                    ELSE IF visit[v].post THEN "prepare" ELSE "ended")
    /\ UNCHANGED <<now, parUsed, browser, waiting, completion, codes, storeFaults>>

\* UPDATE ... WHERE used = 0, and the check under the store's write lock.
Markable == ~parUsed

\* mark_par_request_used.  On an error the file store keeps what it changed in
\* memory.  The expiry is not looked at again.
MarkUsed(v) ==
    /\ visit[v].pc = "mark"
    /\ \/ /\ Markable /\ parUsed' = TRUE /\ UNCHANGED storeFaults
          /\ VisitGoes(v, IF visit[v].post THEN "password" ELSE "issue")
       \/ ~Markable /\ VisitGoes(v, "ended") /\ UNCHANGED <<parUsed, storeFaults>>
       \/ StoreFault /\ parUsed' \in {parUsed, TRUE} /\ VisitGoes(v, "ended")
    /\ UNCHANGED <<now, browser, waiting, completion, codes>>

\* The admission, authenticate_password, and the acr checks after it.
CheckPassword(v) ==
    /\ visit[v].pc = "password"
    /\ \E step \in {"factor", "rejected"} : VisitGoes(v, step)
    /\ UNCHANGED <<now, parUsed, browser, waiting, completion, codes, storeFaults>>

\* factor::prepare stores the push login; it needs a registered device, and
\* room in the quota (module PushLogin).
Prepare(v) ==
    /\ visit[v].pc = "prepare"
    /\ \/ /\ device = "active"
          /\ approval' = [approval EXCEPT ![v] = "pending"]
          /\ waitsUntil' = [waitsUntil EXCEPT ![v] = now + ApprovalTtl]
          /\ VisitGoes(v, "continue")
       \/ VisitGoes(v, "rejected") /\ UNCHANGED <<approval, waitsUntil>>
    /\ UNCHANGED <<now, parUsed, browser, continuation, completion, codes, storeFaults>>

\* create_oidc_continuation; the message is sent afterwards.
Continue(v) ==
    /\ visit[v].pc = "continue"
    /\ continuation' = [continuation EXCEPT ![v] = "open"]
    /\ VisitGoes(v, "ended")
    /\ UNCHANGED <<now, parUsed, browser, approval, waitsUntil, completion, codes, storeFaults>>

\* issue_authorization_code.
Issue(v) ==
    /\ visit[v].pc = "issue"
    /\ codes' = codes \cup {v} /\ VisitGoes(v, "ended")
    /\ UNCHANGED <<now, parUsed, browser, waiting, completion, storeFaults>>

-----------------------------------------------------------------------------
(* The device, and push.rs resume *)

\* record_decision, on a registered device and in time.
DecideApproval(v) ==
    /\ approval[v] = "pending" /\ device = "active" /\ now < waitsUntil[v]
    /\ \E d \in {"approved", "denied"} : approval' = [approval EXCEPT ![v] = d]
    /\ UNCHANGED <<now, parUsed, browser, continuation, waitsUntil, visit, completion,
                   codes, storeFaults>>

\* get_push_login: nothing is spent for a login that is not ready.
LoadApproval(c, v) ==
    /\ completion[c].pc = "idle"
    /\ completion' = [completion EXCEPT ![c] = [of |-> v,
           pc |-> IF approval[v] = "approved" /\ now < waitsUntil[v]
                  THEN "consume" ELSE "ended"]]
    /\ UNCHANGED <<now, parUsed, browser, waiting, visit, codes, storeFaults>>

\* consume_oidc_continuation.
Consume(c) ==
    LET v == completion[c].of IN
    /\ completion[c].pc = "consume"
    /\ IF continuation[v] = "open" /\ now < waitsUntil[v]
       THEN /\ continuation' = [continuation EXCEPT ![v] = "consumed"]
            /\ CompletionGoes(c, "redeem")
       ELSE CompletionGoes(c, "ended") /\ UNCHANGED continuation
    /\ UNCHANGED <<now, parUsed, browser, approval, waitsUntil, visit, codes, storeFaults>>

\* complete_password: redeem_push_login rechecks everything.
RedeemApproval(c) ==
    LET v == completion[c].of IN
    /\ completion[c].pc = "redeem"
    /\ IF approval[v] = "approved" /\ now < waitsUntil[v] /\ device = "active"
       THEN approval' = [approval EXCEPT ![v] = "redeemed"] /\ CompletionGoes(c, "issue")
       ELSE CompletionGoes(c, "ended") /\ UNCHANGED approval
    /\ UNCHANGED <<now, parUsed, browser, continuation, waitsUntil, visit, codes, storeFaults>>

IssueApproved(c) ==
    /\ completion[c].pc = "issue"
    /\ codes' = codes \cup {c} /\ CompletionGoes(c, "ended")
    /\ UNCHANGED <<now, parUsed, browser, waiting, visit, storeFaults>>

\* Other requests: a logout; the device is registered or revoked.
SignOut ==
    /\ signedIn /\ signedIn' = FALSE
    /\ UNCHANGED <<now, parUsed, device, waiting, visit, completion, codes, storeFaults>>

ChangeDevice ==
    /\ \/ device = "none" /\ device' = "active"
       \/ device = "active" /\ device' = "revoked"
    /\ UNCHANGED <<now, parUsed, signedIn, waiting, visit, completion, codes, storeFaults>>

PushedTick ==
    /\ Tick
    /\ UNCHANGED <<parUsed, browser, waiting, visit, completion, codes, storeFaults>>

PushedNext ==
    \/ \E v \in Visits :
          \/ Resolve(v) \/ ReadSession(v) \/ ReadFactor(v) \/ MarkUsed(v)
          \/ CheckPassword(v) \/ Prepare(v) \/ Continue(v) \/ Issue(v)
          \/ VisitFails(v) \/ DecideApproval(v)
    \/ \E c \in Completions :
          \/ \E v \in Visits : LoadApproval(c, v)
          \/ Consume(c) \/ RedeemApproval(c) \/ IssueApproved(c)
          \/ CompletionFails(c)
    \/ SignOut \/ ChangeDevice \/ PushedTick

PushedSpec == PushedInit /\ [][PushedNext]_pushedVars

-----------------------------------------------------------------------------
Holds(v) ==
    \/ visit[v].pc \in {"password", "prepare", "continue", "issue"}
    \/ visit[v].pc = "factor" /\ visit[v].post

\* Nothing more can come of the continuation of v.
Lapsed(v) == approval[v] = "denied" \/ device = "revoked" \/ now >= waitsUntil[v]

\* A spent request has given its code, or will: some request holds it, or its
\* continuation waits for the device.  It is lost only where the user's login
\* is rejected after the mark, the approval lapses or the repository fails.
SpentGivesItsCode ==
    parUsed /\ codes = {} =>
        \/ storeFaults < MaxStoreFaults
        \/ \E v \in Visits :
              \/ Holds(v) \/ visit[v].pc = "rejected"
              \/ /\ continuation[v] # "none"
                 /\ \/ Lapsed(v) \/ continuation[v] = "open"
                    \/ \E c \in Completions :
                          /\ completion[c].pc \in {"redeem", "issue"}
                          /\ completion[c].of = v

\* One request_uri gives one authorization code.  It never gives two, over the
\* session, the password and the push continuation together
\* (mark_par_request_used, consume_oidc_continuation, redeem_push_login), and
\* it is not lost to a logout nor to a request that lost a race (the order of
\* the checks and of the mark in authorize_with_browser_session, and of the
\* reads and of consume_oidc_continuation in resume).
PushedRequestGivesOneCode == (\A a, b \in codes : a = b) /\ SpentGivesItsCode
=============================================================================
