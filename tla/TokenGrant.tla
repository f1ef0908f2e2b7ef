----------------------------- MODULE TokenGrant -----------------------------
(***************************************************************************)
(* The token endpoint's authorization_code and refresh_token grants        *)
(* (qid-oauth endpoints/token_grant.rs, token_issue.rs), token revocation  *)
(* (revoke.rs), session end and user deletion, over the token records of   *)
(* the repository.                                                         *)
(*                                                                         *)
(* A call of the endpoint is a process: every repository operation it      *)
(* awaits is one action, and what it read earlier may be stale by then.    *)
(* One user, one browser session, one client.  A call mints at most one    *)
(* refresh token and at most one family, so both are named after the call; *)
(* a legacy family (no stored deadline) starts with its own token.         *)
(***************************************************************************)
EXTENDS Naturals, FiniteSets

CONSTANTS
    Calls,        \* calls of the token endpoint
    Codes,        \* authorization codes issued to the client
    LinkedCodes,  \* the codes that carry the browser session's id
    Legacy,       \* families stored before refresh_expires_at existed
    NoCall, NoCred, NoDeadline,
    CodeExpiry,   \* expires_at of the codes
    AccessTTL,    \* access_token_ttl_seconds
    RefreshTTLs,  \* refresh_token_ttl_seconds, over nodes and restarts
    MaxTime,      \* bound: the clock
    MaxFaults     \* bound: failed repository operations

Families == Calls \cup Legacy
Tokens == Calls \cup Legacy      \* refresh tokens
Creds == Codes \cup Tokens
Times == 0..MaxTime
Deadlines == Nat \cup {NoDeadline}

Backends == {"sql", "file"}      \* the file store is in Immediate mode

ASSUME TimeAssumption ==
    /\ CodeExpiry \in Nat /\ AccessTTL \in Nat /\ RefreshTTLs \subseteq Nat
    /\ MaxTime \in Nat /\ MaxFaults \in Nat
ASSUME NameAssumption ==
    /\ LinkedCodes \subseteq Codes
    /\ Codes \cap Tokens = {} /\ Calls \cap Legacy = {}
    /\ NoCall \notin Calls /\ NoCred \notin Creds /\ NoDeadline \notin Nat

VARIABLES
    backend,   \* the repository qidd was configured with
    now,       \* the clock, in seconds
    user,      \* the user's row exists
    session,   \* the browser session: active, ended (revoked, expired), gone
    code,      \* authorization codes: fresh, used, gone
    family,    \* token families
    access,    \* access tokens, by the call that issued them
    pc,        \* where each call is
    cred,      \* the code or refresh token a call presents
    fam,       \* the family a call works on
    seen,      \* current_refresh_hash and deadline as the call read them
    at,        \* the call's "now"
    deadline,  \* the call's refresh_deadline
    reply,     \* what the caller was told
    faults,    \* failing repository operations left (bound)
    owner,     \* history: the call that consumed each credential
    issued,    \* history: calls that created an access token
    late,      \* history: those of them whose family was revoked by then
    barred     \* history: calls whose grant was already dead when they began

rows == <<backend, now, user, session, code, family, access>>
locals == <<cred, fam, seen, at, deadline>>
history == <<owner, issued, late, barred>>
vars == <<rows, pc, locals, reply, faults, history>>

Family == [row: {"none", "live", "gone"}, hash: Tokens, revoked: BOOLEAN,
           deadline: Deadlines, linked: BOOLEAN]
Access == [row: {"none", "live", "revoked", "gone"}, exp: Nat]
Steps == {"idle", "mark", "codeUser", "create", "session", "user", "rotate",
          "persist", "revoke", "access", "done"}
Replies == {"none", "ok", "refused", "reuse", "error"}

TypeOK ==
    /\ backend \in Backends /\ now \in Times /\ user \in BOOLEAN
    /\ session \in {"active", "ended", "gone"}
    /\ code \in [Codes -> {"fresh", "used", "gone"}]
    /\ family \in [Families -> Family]
    /\ access \in [Calls -> Access]
    /\ pc \in [Calls -> Steps]
    /\ cred \in [Calls -> Creds \cup {NoCred}]
    /\ fam \in [Calls -> Families]
    /\ seen \in [Calls -> [hash: Tokens, deadline: Deadlines]]
    /\ at \in [Calls -> Times]
    /\ deadline \in [Calls -> Nat]
    /\ reply \in [Calls -> Replies]
    /\ faults \in 0..MaxFaults
    /\ owner \in [Creds -> Calls \cup {NoCall}]
    /\ issued \subseteq Calls /\ late \subseteq issued /\ barred \subseteq Calls

Init ==
    /\ backend \in Backends
    /\ now = 0 /\ user = TRUE /\ session = "active"
    /\ code = [c \in Codes |-> "fresh"]
    /\ family = [f \in Families |->
         [row |-> IF f \in Legacy THEN "live" ELSE "none", hash |-> f,
          revoked |-> FALSE, deadline |-> NoDeadline, linked |-> FALSE]]
    /\ access = [k \in Calls |-> [row |-> "none", exp |-> 0]]
    /\ pc = [k \in Calls |-> "idle"]
    /\ cred = [k \in Calls |-> NoCred]
    /\ fam = [k \in Calls |-> k]
    /\ seen = [k \in Calls |-> [hash |-> k, deadline |-> NoDeadline]]
    /\ at = [k \in Calls |-> 0]
    /\ deadline = [k \in Calls |-> 0]
    /\ reply = [k \in Calls |-> "none"]
    /\ faults = MaxFaults
    /\ owner = [c \in Creds |-> NoCall]
    /\ issued = {} /\ late = {} /\ barred = {}

Earlier(s, t) == IF s < t THEN s ELSE t

Goto(k, step) ==
    pc' = [pc EXCEPT ![k] = step] /\ UNCHANGED <<reply, faults>>

Answer(k, what) ==
    /\ pc' = [pc EXCEPT ![k] = "done"]
    /\ reply' = [reply EXCEPT ![k] = what]
    /\ UNCHANGED faults

\* A repository operation fails; `?` ends the call with that error.
FailCall(k) ==
    /\ faults > 0 /\ faults' = faults - 1
    /\ pc' = [pc EXCEPT ![k] = "done"]
    /\ reply' = [reply EXCEPT ![k] = "error"]

-----------------------------------------------------------------------------
(* authorization_code_grant *)

\* get_authorization_code and the checks on what it returned; the last
\* refusal stands for a wrong redirect_uri, client, realm or code_verifier.
RedeemCode(k, c) ==
    /\ pc[k] = "idle"
    /\ c \in Codes
    /\ cred' = [cred EXCEPT ![k] = c]
    /\ \/ code[c] = "fresh" /\ now < CodeExpiry /\ Goto(k, "mark")
       \/ code[c] # "fresh" /\ Answer(k, "refused")
       \/ code[c] = "fresh" /\ now >= CodeExpiry /\ Answer(k, "refused")
       \/ code[c] = "fresh" /\ now < CodeExpiry /\ Answer(k, "refused")
    /\ barred' = IF code[c] # "fresh" \/ now >= CodeExpiry \/ ~user
                   THEN barred \cup {k} ELSE barred
    /\ UNCHANGED <<rows, fam, seen, at, deadline, owner, issued, late>>

\* Mutant: the code is marked used without looking whether it already is.
MarkCodeUsedBlindly(k) ==
    /\ pc[k] = "mark"
    /\ code' = [code EXCEPT ![cred[k]] = "used"]
    /\ owner' = [owner EXCEPT ![cred[k]] = k]
    /\ Goto(k, "codeUser") \/ FailCall(k)
    /\ UNCHANGED <<backend, now, user, session, family, access, locals,
                   issued, late, barred>>

\* mark_authorization_code_used: the one conditional write that decides
\* between overlapping redemptions.
MarkCodeUsed(k) ==
    /\ pc[k] = "mark"
    /\ \/ /\ code[cred[k]] = "fresh"
          /\ code' = [code EXCEPT ![cred[k]] = "used"]
          /\ owner' = [owner EXCEPT ![cred[k]] = k]
          /\ Goto(k, "codeUser") \/ FailCall(k)
       \/ /\ code[cred[k]] # "fresh"
          /\ Answer(k, "refused")
          /\ UNCHANGED <<code, owner>>
    /\ UNCHANGED <<backend, now, user, session, family, access, locals,
                   issued, late, barred>>

\* get_user_by_id; issue_token_pair then reads the clock.
ReadCodeUser(k) ==
    /\ pc[k] = "codeUser"
    /\ IF user
         THEN /\ Goto(k, "create")
              /\ at' = [at EXCEPT ![k] = now]
              /\ \E ttl \in RefreshTTLs :
                   deadline' = [deadline EXCEPT ![k] = now + ttl]
         ELSE Answer(k, "refused") /\ UNCHANGED <<at, deadline>>
    /\ UNCHANGED <<rows, cred, fam, seen, history>>

\* In the file store an Immediate rotation holds save_lock until it is
\* persisted or rolled back; creations and rotations wait for it.
SaveLockFree == backend = "file" => \A j \in Calls : pc[j] # "persist"

\* Mutant: token_families.user_id is not a foreign key.
UserRowHolds == TRUE

\* SQL: token_families.user_id REFERENCES users(id).
UserForeignKey == backend = "sql" => user

\* create_token_family.
CreateFamily(k) ==
    /\ pc[k] = "create"
    /\ SaveLockFree
    /\ IF UserForeignKey
         THEN /\ family' = [family EXCEPT ![k] =
                   [row |-> "live", hash |-> k, revoked |-> FALSE,
                    deadline |-> deadline[k], linked |-> cred[k] \in LinkedCodes]]
              /\ Goto(k, "access") \/ FailCall(k)
         ELSE Answer(k, "error") /\ UNCHANGED family
    /\ UNCHANGED <<backend, now, user, session, code, access, locals,
                   history>>

-----------------------------------------------------------------------------
(* refresh_token_grant *)

\* A client presents a refresh token that some call returned to it.
Presentable(h) == h \in Legacy \/ (h \in Calls /\ reply[h] = "ok")
FamilyOf(h) == IF h \in Legacy THEN h ELSE fam[h]

\* Where a call goes once the family and its session are accepted: a hash
\* that is no longer current is reuse.
AfterSession(h, current) == IF current = h THEN "user" ELSE "revoke"

\* Mutant: every refresh recomputes the deadline from the configured TTL.
RefreshDeadlineRecomputed(row, ttl) == now + ttl

\* refresh_deadline: the stored one, or issued_at (0) plus the node's TTL for
\* a legacy family.
RefreshDeadline(row, ttl) == IF row.deadline = NoDeadline THEN ttl ELSE row.deadline

\* get_token_family and the checks on the row: missing, revoked, expired.
PresentRefresh(k, h) ==
    /\ pc[k] = "idle"
    /\ h \in Tokens /\ Presentable(h)
    /\ LET f == FamilyOf(h)
           row == family[f]
       IN \E ttl \in RefreshTTLs :
            LET end == RefreshDeadline(row, ttl)
                passes == row.row = "live" /\ ~row.revoked /\ now < end
            IN /\ cred' = [cred EXCEPT ![k] = h]
               /\ fam' = [fam EXCEPT ![k] = f]
               /\ at' = [at EXCEPT ![k] = now]
               /\ deadline' = [deadline EXCEPT ![k] = end]
               /\ seen' = [seen EXCEPT ![k] =
                     [hash |-> row.hash, deadline |-> row.deadline]]
               /\ \/ passes /\ row.linked /\ Goto(k, "session")
                  \/ passes /\ ~row.linked /\ Goto(k, AfterSession(h, row.hash))
                  \/ ~passes /\ Answer(k, "refused")
               /\ barred' = IF ~passes \/ ~user \/ (row.linked /\ session # "active")
                              THEN barred \cup {k} ELSE barred
    /\ UNCHANGED <<rows, owner, issued, late>>

\* get_session: a missing, revoked or expired session fails closed.
ReadSession(k) ==
    /\ pc[k] = "session"
    /\ IF session = "active"
         THEN Goto(k, AfterSession(cred[k], seen[k].hash))
         ELSE Answer(k, "refused")
    /\ UNCHANGED <<rows, locals, history>>

\* get_user_by_id, then the scope ceiling and the mTLS and DPoP bindings:
\* refusals that change nothing.
ReadUser(k) ==
    /\ pc[k] = "user"
    /\ (user /\ Goto(k, "rotate")) \/ Answer(k, "refused")
    /\ UNCHANGED <<rows, locals, history>>

\* Mutant: the update matches on the revoked flag only.
RotationValidForAnyHash(row, h) == ~row.revoked

\* validate_token_family_rotation, and the predicate of the SQL UPDATE.
RotationValid(row, h) == ~row.revoked /\ row.hash = h

\* update_token_family_refresh_hash.  The SQL UPDATE is atomic; the file
\* store changes memory first and persists while it owns save_lock.
Rotate(k) ==
    /\ pc[k] = "rotate"
    /\ SaveLockFree
    /\ LET f == fam[k] IN
       \/ /\ family[f].row = "live" /\ RotationValid(family[f], cred[k])
          /\ family' = [family EXCEPT ![f] =
                   [@ EXCEPT !.hash = k, !.deadline = deadline[k]]]
          /\ IF backend = "file"
               THEN Goto(k, "persist") /\ UNCHANGED owner
               ELSE /\ Goto(k, "access") \/ FailCall(k)
                    /\ owner' = [owner EXCEPT ![cred[k]] = k]
       \/ /\ family[f].row = "live" /\ ~RotationValid(family[f], cred[k])
          /\ Goto(k, "revoke")
          /\ UNCHANGED <<family, owner>>
       \/ /\ family[f].row # "live"
          /\ Answer(k, "refused")
          /\ UNCHANGED <<family, owner>>
    /\ UNCHANGED <<backend, now, user, session, code, access, locals, issued,
                   late, barred>>

\* Mutant: a rotation that cannot be persisted is not rolled back.
PersistRotationKeepsHash(k) ==
    /\ pc[k] = "persist"
    /\ \/ Goto(k, "access") /\ owner' = [owner EXCEPT ![cred[k]] = k]
       \/ FailCall(k) /\ UNCHANGED owner
    /\ UNCHANGED <<rows, locals, issued, late, barred>>

\* The file store's flush of the rotation: on an error the two fields are
\* restored and everything else in the family is kept.
PersistRotation(k) ==
    /\ pc[k] = "persist"
    /\ \/ /\ Goto(k, "access")
          /\ owner' = [owner EXCEPT ![cred[k]] = k]
          /\ UNCHANGED family
       \/ /\ FailCall(k)
          /\ family' = IF family[fam[k]].row = "live"
                         THEN [family EXCEPT ![fam[k]] =
                                [@ EXCEPT !.hash = cred[k],
                                          !.deadline = seen[k].deadline]]
                         ELSE family
          /\ UNCHANGED owner
    /\ UNCHANGED <<backend, now, user, session, code, access, locals, issued,
                   late, barred>>

\* Mutant: the revocation overwrites the row's state.
RevokedRow(f) == [family EXCEPT ![f].row = "revoked"]

Revoked(f) ==
    IF family[f].row = "live" THEN [family EXCEPT ![f].revoked = TRUE] ELSE family

\* Mutant: reuse is answered without revoking the family.
RevokeReusedFamilySkips(k) ==
    /\ pc[k] = "revoke"
    /\ Answer(k, "reuse")
    /\ UNCHANGED <<rows, locals, history>>

\* revoke_reused_family: an error of the write is logged, not returned.
RevokeReusedFamily(k) ==
    /\ pc[k] = "revoke"
    /\ pc' = [pc EXCEPT ![k] = "done"]
    /\ reply' = [reply EXCEPT ![k] = "reuse"]
    /\ \/ family' = Revoked(fam[k]) /\ UNCHANGED faults
       \/ faults > 0 /\ faults' = faults - 1 /\ UNCHANGED family
    /\ UNCHANGED <<backend, now, user, session, code, access, locals,
                   history>>

-----------------------------------------------------------------------------
(* Both grants *)

\* SQL: access_tokens.family_id REFERENCES token_families(id).
FamilyForeignKey(k) == backend = "sql" => family[fam[k]].row = "live"

\* expires_at of an access token: its TTL, capped by the refresh deadline.
AccessExpiry(k) == Earlier(at[k] + AccessTTL, deadline[k])

\* create_access_token, then the tokens are signed and returned.
CreateAccess(k) ==
    /\ pc[k] = "access"
    /\ IF FamilyForeignKey(k)
         THEN /\ access' = [access EXCEPT ![k] =
                   [row |-> "live", exp |-> AccessExpiry(k)]]
              /\ issued' = issued \cup {k}
              /\ late' = IF family[fam[k]].revoked THEN late \cup {k} ELSE late
              /\ Answer(k, "ok") \/ FailCall(k)
         ELSE /\ Answer(k, "error")
              /\ UNCHANGED <<access, issued, late>>
    /\ UNCHANGED <<backend, now, user, session, code, family, locals, owner,
                   barred>>

\* An operation of the call fails without effect.  (The two failures that
\* are not returned as they are have their own actions.)
OperationFails(k) ==
    /\ pc[k] \notin {"idle", "persist", "revoke", "done"}
    /\ FailCall(k)
    /\ UNCHANGED <<rows, locals, history>>

-----------------------------------------------------------------------------
(* Other actors on the same records *)

\* revoke.rs and the admin handler: read the family, check its owner, revoke.
RevokeFamily(f) ==
    /\ family[f].row = "live" /\ ~family[f].revoked
    /\ family' = Revoked(f)
    /\ UNCHANGED <<backend, now, user, session, code, access, pc, locals,
                   reply, faults, history>>

\* revoke.rs on an access token.
RevokeAccess(k) ==
    /\ access[k].row = "live"
    /\ access' = [access EXCEPT ![k].row = "revoked"]
    /\ UNCHANGED <<backend, now, user, session, code, family, pc, locals,
                   reply, faults, history>>

\* Logout, an administrator or a timeout ends the browser session.
EndSession ==
    /\ session = "active"
    /\ session' = "ended"
    /\ UNCHANGED <<backend, now, user, code, family, access, pc, locals,
                   reply, faults, history>>

Gone(row) == IF row.row = "none" THEN row ELSE [row EXCEPT !.row = "gone"]

\* delete_user: the user and all authentication state, in one transaction.
DeleteUser ==
    /\ user
    /\ user' = FALSE
    /\ session' = "gone"
    /\ code' = [c \in Codes |-> "gone"]
    /\ family' = [f \in Families |-> Gone(family[f])]
    /\ access' = [k \in Calls |-> Gone(access[k])]
    /\ UNCHANGED <<backend, now, pc, locals, reply, faults, history>>

Tick ==
    /\ now < MaxTime
    /\ now' = now + 1
    /\ UNCHANGED <<backend, user, session, code, family, access, pc, locals,
                   reply, faults, history>>

-----------------------------------------------------------------------------
CallStep(k) ==
    \/ \E c \in Codes : RedeemCode(k, c)
    \/ MarkCodeUsed(k) \/ ReadCodeUser(k) \/ CreateFamily(k)
    \/ \E h \in Tokens : PresentRefresh(k, h)
    \/ ReadSession(k) \/ ReadUser(k) \/ Rotate(k) \/ PersistRotation(k)
    \/ RevokeReusedFamily(k)
    \/ CreateAccess(k) \/ OperationFails(k)

Next ==
    \/ \E k \in Calls : CallStep(k) \/ RevokeAccess(k)
    \/ \E f \in Families : RevokeFamily(f)
    \/ EndSession \/ DeleteUser \/ Tick

Spec == Init /\ [][Next]_vars

-----------------------------------------------------------------------------
(* Properties *)

\* mark_authorization_code_used and the rotation, file and SQL: whatever the
\* interleaving and the failures, a code or a refresh token is consumed by one
\* call for good, and that call creates at most one access token.
Claims == INSTANCE CredentialClaims WITH paid <- issued
EachCredentialClaimedOnce == Claims!ClaimSpec

\* token_grant.rs:535, "only one overlapping redemption can win": no two calls
\* that presented the same credential ever create an access token.
OneWinnerPerCredential ==
    \A j, k \in issued : cred[j] = cred[k] => j = k

\* Revocation races issuance: the check on the family and the creation of the
\* access token are apart, so a call that had already rotated may still issue.
\* It is never more than one per family.
OneTokenAfterRevocation ==
    \A j, k \in late : fam[j] = fam[k] => j = k

\* token_grant.rs:394, "later TTL changes cannot extend existing grants": once
\* a family has issued tokens its deadline never changes, on whatever node and
\* with whatever TTL the next rotation runs.  And it is the end: a call that
\* begins when its code is spent or expired, its family revoked, expired or
\* gone, the linked browser session over or the user deleted never creates an
\* access token (token_grant.rs:409 and the checks before it).
DeadlineIsFinal ==
    /\ [][\A f \in Families :
            (\E k \in issued : fam[k] = f) /\ family[f].row = "live"
            => family'[f].deadline = family[f].deadline]_vars
    /\ [](barred \cap issued = {})

\* update_token_family_refresh_hash: a refresh token the client was given and
\* no call has consumed is the current one, so that a rotation that failed and
\* was rolled back does not turn the client's retry into reuse.
UnspentTokenIsCurrent ==
    \A h \in Tokens :
        Presentable(h) /\ owner[h] = NoCall /\ family[FamilyOf(h)].row = "live"
          /\ (\A k \in Calls : pc[k] = "persist" => fam[k] # FamilyOf(h))
        => family[FamilyOf(h)].hash = h

\* docs/configuration.md:903, "a superseded or concurrently redeemed token
\* always revokes the whole token family": true as long as no repository
\* operation has failed (revoke_reused_family only logs a failing revocation).
ReuseRevokesFamily ==
    faults = MaxFaults =>
        \A k \in Calls : reply[k] = "reuse" =>
            family[fam[k]].row = "gone" \/ family[fam[k]].revoked

\* file/user.rs:127, "dependent authentication state has the same lifetime":
\* over SQL, whose foreign keys refuse what a call under way still inserts, a
\* deleted user has no token family and no access token.  (The file store has
\* no such check: there a redemption under way outlives the deletion.)
DeletedUserHasNoTokens ==
    backend = "sql" /\ ~user =>
        /\ \A f \in Families : family[f].row # "live"
        /\ \A k \in Calls : access[k].row # "live"
=============================================================================
