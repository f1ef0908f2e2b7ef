------------------------------ MODULE PushLogin ------------------------------
(***************************************************************************)
(* Push approval of a password login (qid-session push.rs and api/push.rs, *)
(* the transitions of qid-storage push.rs and their callers in the         *)
(* repositories), for one user of one realm.                               *)
(*                                                                         *)
(* A start is a browser whose password was accepted: it issues one         *)
(* challenge, named after it, and pushes it to the user's device.  Calls   *)
(* are the later requests: the device's decision, the browser's completion *)
(* and its resend.  Every repository operation is one step; the time a     *)
(* decision or a completion is judged by is read before the operation      *)
(* waits for the store, the time of an issue or a resend inside it.        *)
(*                                                                         *)
(* A resend replaces the nonce, so the number of resends names the nonce.  *)
(***************************************************************************)
EXTENDS Clock, Sequences, SequencesExt, FiniteSets, FiniteSetsExt

CONSTANTS
    Starts,
    PushCalls,
    Devices,        \* authenticator ids, in their order
    NoChallenge,
    MaxSends,       \* max_issuances_per_window
    PushWindow,     \* issuance_window_seconds
    Horizon,        \* MAX_PUSH_WINDOW_SECONDS
    Ttl,            \* ttl_seconds
    Cooldown,       \* resend_cooldown_seconds
    MaxAttempts,    \* max_attempts
    Slots           \* permits of notification_delivery_slots

ASSUME PushAssumption ==
    /\ Devices \subseteq Nat /\ IsFiniteSet(Devices)
    /\ IsFiniteSet(Starts) /\ IsFiniteSet(PushCalls)
    /\ MaxSends \in Nat \ {0} /\ Ttl \in Nat \ {0} /\ Cooldown \in Nat \ {0}
    /\ MaxAttempts \in Nat \ {0} /\ Slots \in Nat
    /\ Horizon \in Nat /\ PushWindow \in 1..Horizon

VARIABLES
    authenticator,  \* the user's authenticator rows
    start,          \* each start
    challenge,      \* the login rows
    call,           \* each call
    delivered,      \* <<challenge, nonce>> the device may have received
    signed,         \* history: <<challenge, nonce, decision>> the device signed
    sends,          \* history: the admission times of all sends, in order
    sessions        \* history: the sessions completed, in order

pushHistory == <<signed, sends, sessions>>
pushVars == <<now, authenticator, start, challenge, call, delivered, pushHistory>>

Decisions == {"approve", "deny"}
Challenge == [device: Devices, created: Nat, expires: Nat, issued: Nat,
              resends: Seq(Nat), attempts: Nat, decision: Decisions \cup {"none"},
              decidedAt: Nat, consumed: BOOLEAN, consumedAt: Nat]
ASSUME NoChallengeAssumption == NoChallenge \notin Challenge

\* What same_login compares, the rest being the attempts and their outcome.
Binding == [device: Devices, created: Nat, expires: Nat, resends: Seq(Nat)]
BindingOf(c) == [device |-> c.device, created |-> c.created, expires |-> c.expires,
                 resends |-> c.resends]

Authenticator == [status: {"pending", "enrolled", "revoked"}, created: Nat]
Start == [pc: {"idle", "started", "failed"}]
         \cup [pc: {"issue", "send"}, device: Devices, created: Nat]
Proof == [genuine: BOOLEAN, nonce: Nat, decision: Decisions]
PushCall == [pc: {"idle", "done"}]
            \cup [pc: {"decideRead", "decide"}, target: Starts, row: Binding,
                  proof: Proof, verified: BOOLEAN, at: Nat]
            \cup [pc: {"completeRead", "complete", "resendRead", "resend", "send"},
                  target: Starts, row: Binding, browser: Starts, at: Nat]

\* No call is "corrupt": no transition that its guard accepts fails the
\* validation of the record it made.
PushTypeOK ==
    /\ now \in 0..MaxTime
    /\ authenticator \in [Devices -> Authenticator]
    /\ start \in [Starts -> Start]
    /\ challenge \in [Starts -> Challenge \cup {NoChallenge}]
    /\ call \in [PushCalls -> PushCall]
    /\ delivered \subseteq Starts \X Nat
    /\ signed \subseteq Starts \X Nat \X Decisions
    /\ sends \in Seq(Nat)
    /\ sessions \in Seq([challenge: Starts, browser: Starts, nonce: Nat])

PushInit ==
    /\ now = 0
    /\ authenticator \in [Devices -> [status: {"pending", "enrolled"}, created: {0}]]
    /\ start = [s \in Starts |-> [pc |-> "idle"]]
    /\ challenge = [s \in Starts |-> NoChallenge]
    /\ call = [r \in PushCalls |-> [pc |-> "idle"]]
    /\ delivered = {} /\ signed = {}
    /\ sends = <<>> /\ sessions = <<>>

StartBecomes(s, state) == start' = [start EXCEPT ![s] = state]
CallBecomes(r, state) == call' = [call EXCEPT ![r] = state]
CallEnds(r) == CallBecomes(r, [pc |-> "done"])

\* Permits held: from before the first read to the end of the send.
SlotFree ==
    Cardinality({s \in Starts : start[s].pc \in {"issue", "send"}})
    + Cardinality({r \in PushCalls : call[r].pc \in {"resendRead", "resend", "send"}})
    < Slots

-----------------------------------------------------------------------------
(* The transitions of qid-storage push.rs *)

Nonce(c) == Len(c.resends)

\* Mutant: the expiry is not compared.
LiveUnbounded(c, at) == c.created <= at
Live(c, at) == c.created <= at /\ at < c.expires

\* current: the challenge's authenticator is enrolled, unrevoked and older.
Current(c) == /\ authenticator[c.device].status = "enrolled"
              /\ authenticator[c.device].created <= c.created

\* Mutant: a decision is matched with the challenge whatever nonce it now has.
SameLoginAnyNonce(c, expected) == c # NoChallenge
\* same_login: everything a decision does not change, the nonce included.
SameLogin(c, expected) ==
    c # NoChallenge /\ BindingOf(c) = expected

\* Mutant: only the first send of a challenge is counted.
SendsOfFirstOnly(c) == <<c.issued>>
SendsOf(c) == <<c.issued>> \o c.resends

\* send_count over the user's rows, in the window that ends now: the sends it
\* counts, as pairs of a challenge and the number of the send.
QuotaStart == IF now < PushWindow THEN 0 ELSE now - (PushWindow - 1)
CountedOf(s) == {i \in DOMAIN SendsOf(challenge[s]) : SendsOf(challenge[s])[i] >= QuotaStart}
Counted == UNION {{s} \X CountedOf(s) : s \in {t \in Starts : challenge[t] # NoChallenge}}
QuotaFull == Cardinality(Counted) >= MaxSends

\* validate_login_record and validate_login_issued.
ValidRecord(c) ==
    /\ c.attempts <= MaxAttempts
    /\ c.created <= c.issued /\ c.issued < c.expires
    /\ \A i \in DOMAIN c.resends : c.issued < c.resends[i] /\ c.resends[i] < c.expires
    /\ \A i, j \in DOMAIN c.resends : i < j => c.resends[i] < c.resends[j]
    /\ c.decision # "none" =>
          /\ c.created <= c.decidedAt /\ c.decidedAt < c.expires /\ c.attempts > 0
          /\ c.resends # <<>> => Last(c.resends) <= c.decidedAt
    /\ c.consumed =>
          /\ c.decision = "approve"
          /\ c.decidedAt <= c.consumedAt /\ c.consumedAt < c.expires

\* login_attempt
Attemptable(c, expected, at) ==
    /\ SameLogin(c, expected) /\ Live(c, at)
    /\ c.decision = "none" /\ ~c.consumed /\ c.attempts < MaxAttempts
Attempted(c, verified, decision, at) ==
    IF verified
    THEN [c EXCEPT !.attempts = @ + 1, !.decision = decision, !.decidedAt = at]
    ELSE [c EXCEPT !.attempts = @ + 1]

\* redeem
Redeemable(c, expected, bound, at) ==
    /\ SameLogin(c, expected) /\ Live(c, at)
    /\ c.decision = "approve" /\ ~c.consumed
    /\ c.decidedAt <= at /\ bound

\* resend
Resendable(c, expected, bound) ==
    /\ bound /\ SameLogin(c, expected) /\ Live(c, now)
    /\ c.decision = "none" /\ ~c.consumed /\ c.attempts < MaxAttempts
    /\ now - Last(<<c.issued>> \o c.resends) >= Cooldown

\* The operation stores c, unless the record would fail its validation: then
\* it is an error and the row stays.
Store(r, s, c, ended) ==
    IF ValidRecord(c)
    THEN CallBecomes(r, ended) /\ challenge' = [challenge EXCEPT ![s] = c]
    ELSE CallBecomes(r, [pc |-> "corrupt"]) /\ UNCHANGED challenge

-----------------------------------------------------------------------------
(* Starting: prepare and send *)

\* list_push_authenticators in the order of their ids, and the clock.
ListAuthenticators(s) ==
    LET usable == {d \in Devices : authenticator[d].status = "enrolled"} IN
    /\ start[s].pc = "idle"
    /\ StartBecomes(s, IF SlotFree /\ usable # {}
                       THEN [pc |-> "issue", device |-> Min(usable), created |-> now]
                       ELSE [pc |-> "failed"])
    /\ UNCHANGED <<now, authenticator, challenge, call, delivered, pushHistory>>

\* try_issue_push_login: admission before anything is kept or sent.
IssuePush(s) ==
    LET c == [device |-> start[s].device, created |-> start[s].created,
              expires |-> start[s].created + Ttl, issued |-> now,
              resends |-> <<>>, attempts |-> 0, decision |-> "none",
              decidedAt |-> 0, consumed |-> FALSE, consumedAt |-> 0]
    IN
    /\ start[s].pc = "issue"
    /\ IF Live(c, now) /\ Current(c) /\ ~QuotaFull
       THEN /\ StartBecomes(s, [start[s] EXCEPT !.pc = "send"])
            /\ challenge' = [challenge EXCEPT ![s] = c]
            /\ sends' = Append(sends, now)
       ELSE /\ StartBecomes(s, [pc |-> "failed"])
            /\ UNCHANGED <<challenge, sends>>
    /\ UNCHANGED <<now, authenticator, call, delivered, signed, sessions>>

\* The provider's answer.  After a timeout the push may have been delivered
\* all the same; only an accepted push gives the browser its cookie.
Provider(s, nonce, accepted) ==
    \/ delivered' = delivered \cup {<<s, nonce>>}
    \/ ~accepted /\ UNCHANGED delivered

SendPush(s) ==
    /\ start[s].pc = "send"
    /\ \E accepted \in BOOLEAN :
          /\ Provider(s, 0, accepted)
          /\ StartBecomes(s, [pc |-> IF accepted THEN "started" ELSE "failed"])
    /\ UNCHANGED <<now, authenticator, challenge, call, pushHistory>>

-----------------------------------------------------------------------------
(* The device: record_decision *)

\* What a request about s may carry: a proof the device made of a push it
\* received, or one it never made.
Received(s) == {m[2] : m \in {m \in delivered : m[1] = s}}
ProofsFor(s) ==
    [genuine: {TRUE}, nonce: Received(s), decision: Decisions]
    \cup {[genuine |-> FALSE, nonce |-> 0, decision |-> "approve"]}

\* get_push_login
ReadForDecision(r) ==
    /\ call[r].pc = "idle"
    /\ \E s \in Starts : \E proof \in ProofsFor(s) :
          /\ challenge[s] # NoChallenge
          /\ CallBecomes(r, [pc |-> "decideRead", target |-> s, row |-> BindingOf(challenge[s]),
                             proof |-> proof, verified |-> FALSE, at |-> 0])
          /\ signed' = signed \cup
                 (IF proof.genuine THEN {<<s, proof.nonce, proof.decision>>} ELSE {})
    /\ UNCHANGED <<now, authenticator, start, challenge, delivered, sends, sessions>>

\* get_push_authenticator, verify_login on the challenge read before, the clock.
VerifyProof(r) ==
    LET c == call[r] IN
    /\ c.pc = "decideRead"
    /\ CallBecomes(r, [c EXCEPT !.pc = "decide", !.at = now,
           !.verified = /\ c.proof.genuine /\ c.proof.nonce = Nonce(c.row)
                        /\ authenticator[c.row.device].status = "enrolled"])
    /\ UNCHANGED <<now, authenticator, start, challenge, delivered, pushHistory>>

\* attempt_push_login: a failed proof spends an attempt too.
RecordDecision(r) ==
    LET c == call[r]
        row == challenge[c.target]
    IN
    /\ c.pc = "decide"
    /\ IF Current(c.row) /\ Attemptable(row, c.row, c.at)
       THEN Store(r, c.target, Attempted(row, c.verified, c.proof.decision, c.at),
                  [pc |-> "done"])
       ELSE CallEnds(r) /\ UNCHANGED challenge
    /\ UNCHANGED <<now, authenticator, start, delivered, pushHistory>>

-----------------------------------------------------------------------------
(* The browser: complete_password and resend *)

\* get_push_login, with the cookie some start gave the browser.
ReadForBrowser(r) ==
    /\ call[r].pc = "idle"
    /\ \E s, b \in Starts, pc \in {"completeRead", "resendRead"} :
          /\ challenge[s] # NoChallenge /\ start[b].pc = "started"
          /\ pc = "resendRead" => SlotFree /\ b = s
          /\ CallBecomes(r, [pc |-> pc, target |-> s, row |-> BindingOf(challenge[s]),
                             browser |-> b, at |-> 0])
    /\ UNCHANGED <<now, authenticator, start, challenge, delivered, pushHistory>>

\* The read of the user or of the authenticator, then the clock.
ReadOwner(r) ==
    LET c == call[r] IN
    /\ \/ c.pc = "completeRead" /\ CallBecomes(r, [c EXCEPT !.pc = "complete", !.at = now])
       \/ c.pc = "resendRead" /\ CallBecomes(r, [c EXCEPT !.pc = "resend"])
    /\ UNCHANGED <<now, authenticator, start, challenge, delivered, pushHistory>>

\* redeem_push_login; the session follows from its answer alone.
Redeem(r) ==
    LET c == call[r]
        row == challenge[c.target]
    IN
    /\ c.pc = "complete"
    /\ IF Current(c.row) /\ Redeemable(row, c.row, c.browser = c.target, c.at)
       THEN /\ Store(r, c.target, [row EXCEPT !.consumed = TRUE, !.consumedAt = c.at],
                     [pc |-> "done"])
            /\ sessions' = IF challenge' = challenge THEN sessions
                           ELSE Append(sessions, [challenge |-> c.target,
                                    browser |-> c.browser, nonce |-> Nonce(row)])
       ELSE CallEnds(r) /\ UNCHANGED <<challenge, sessions>>
    /\ UNCHANGED <<now, authenticator, start, delivered, signed, sends>>

\* try_resend_push_login: a new nonce, counted before it is sent.
Resend(r) ==
    LET c == call[r]
        row == challenge[c.target]
    IN
    /\ c.pc = "resend"
    /\ IF /\ Live(c.row, now) /\ Current(c.row) /\ ~QuotaFull
          /\ Resendable(row, c.row, c.browser = c.target)
       THEN LET new == [row EXCEPT !.resends = Append(@, now)] IN
            /\ Store(r, c.target, new, [c EXCEPT !.pc = "send", !.row = BindingOf(new)])
            /\ sends' = Append(sends, now)
       ELSE CallEnds(r) /\ UNCHANGED <<challenge, sends>>
    /\ UNCHANGED <<now, authenticator, start, delivered, signed, sessions>>

SendAgain(r) ==
    LET c == call[r] IN
    /\ c.pc = "send"
    /\ \E accepted \in BOOLEAN :
          /\ Provider(c.target, Nonce(c.row), accepted)
          /\ CallEnds(r)
    /\ UNCHANGED <<now, authenticator, start, challenge, pushHistory>>

-----------------------------------------------------------------------------
(* Devices come and go; the worker cleans up *)

\* registration_attempt with the device's proof.
EnrolDevice(d) ==
    /\ authenticator[d].status = "pending"
    /\ authenticator' = [authenticator EXCEPT ![d] = [status |-> "enrolled", created |-> now]]
    /\ UNCHANGED <<now, start, challenge, call, delivered, pushHistory>>

RevokeDevice(d) ==
    /\ authenticator[d].status = "enrolled"
    /\ authenticator' = [authenticator EXCEPT ![d].status = "revoked"]
    /\ UNCHANGED <<now, start, challenge, call, delivered, pushHistory>>

\* cleanup_cutoff: no resend of the challenge can still be in any window.
Forgettable(c) == c.expires + Horizon < now

\* cleanup_expired_push_records: at most limit rows, the oldest issued first.
CleanUp ==
    /\ \E s \in Starts :
          LET old(t) == challenge[t] # NoChallenge /\ Forgettable(challenge[t]) IN
          /\ old(s)
          /\ \A t \in Starts : old(t) => challenge[s].issued <= challenge[t].issued
          /\ challenge' = [challenge EXCEPT ![s] = NoChallenge]
    /\ UNCHANGED <<now, authenticator, start, call, delivered, pushHistory>>

PushTick ==
    Tick /\ UNCHANGED <<authenticator, start, challenge, call, delivered, pushHistory>>

PushNext ==
    \/ \E s \in Starts : ListAuthenticators(s) \/ IssuePush(s) \/ SendPush(s)
    \/ \E r \in PushCalls :
          \/ ReadForDecision(r) \/ VerifyProof(r) \/ RecordDecision(r)
          \/ ReadForBrowser(r) \/ ReadOwner(r) \/ Redeem(r) \/ Resend(r) \/ SendAgain(r)
    \/ \E d \in Devices : EnrolDevice(d) \/ RevokeDevice(d)
    \/ CleanUp
    \/ PushTick

PushSpec == PushInit /\ [][PushNext]_pushVars

-----------------------------------------------------------------------------
(* What push approval promises *)

\* A decision on record is one the device signed for the last push of that
\* login, and a pwd+push session belongs to the browser whose password was
\* accepted, follows such an approval and is the only one of its login.
PushSessionIsApproved ==
    /\ \A s \in Starts :
          challenge[s] # NoChallenge /\ challenge[s].decision # "none"
          => <<s, Nonce(challenge[s]), challenge[s].decision>> \in signed
    /\ \A i \in DOMAIN sessions :
        LET x == sessions[i] IN
        /\ x.browser = x.challenge
        /\ <<x.challenge, x.nonce, "approve">> \in signed
        /\ \A j \in DOMAIN sessions : sessions[j].challenge = x.challenge => i = j

\* No user is pushed more than max_issuances_per_window times in any window,
\* whatever the resends, the races and the cleanup of old challenges.
SendsWithinQuota ==
    \A i \in DOMAIN sends :
        i > MaxSends => sends[i] - sends[i - MaxSends] >= PushWindow
=============================================================================
