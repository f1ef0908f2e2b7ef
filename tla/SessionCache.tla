---------------------------- MODULE SessionCache ----------------------------
(***************************************************************************)
(* The two-level cache of browser sessions (qid-core state.rs, cache.rs and *)
(* qid-session browser.rs) between the repository and the PEP assertion     *)
(* endpoint (qid-proxy assertion.rs), which is served from it, and the      *)
(* calls that end or refresh the session.                                   *)
(*                                                                          *)
(* One session.  Every process has an L1 (a short TTL) and all share an L2. *)
(* Requests and updates are processes: each access to L1, to L2 and to the  *)
(* repository is one action, since no lock spans two of them.               *)
(***************************************************************************)
EXTENDS Integers

CONSTANTS
    Nodes,        \* qidd processes
    Requests,     \* assertion requests that present the session
    Updates,      \* calls that end the session or refresh it
    Paths,        \* the kinds of update that happen
    NoEntry, NoSession,
    L1Ttl,        \* SESSION_L1_TTL_SECONDS (30)
    IdleTimeout,  \* idle_timeout_minutes
    AbsoluteEnd,  \* the session's absolute_expires_at
    MaxFaults,    \* bound: failing repository and shared-cache operations
    MaxTime       \* bound: the clock

\* session_revoke, the admin and break-glass revocations, the two branches of
\* backchannel_logout, RP-initiated logout, SAML logout, session_refresh, and a
\* login that replaces the session.
ASSUME PathAssumption ==
    /\ Paths # {}
    /\ Paths \subseteq {"browser", "admin", "sid", "sub", "rp", "saml", "refresh", "login"}
ASSUME NumberAssumption ==
    /\ L1Ttl \in Nat \ {0} /\ IdleTimeout \in Nat /\ AbsoluteEnd \in Nat
    /\ MaxFaults \in Nat /\ MaxTime \in Nat

Session == [revoked: BOOLEAN, idle: Nat]
Entry == [copy: [revoked: {FALSE}, idle: Nat], until: Nat]  \* only active copies

ASSUME NameAssumption == NoSession \notin Session /\ NoEntry \notin Entry

VARIABLES
    now,
    user,      \* the session's user exists
    session,   \* the session row of the repository
    l1, l2,    \* the cache entry in each process, and the shared one
    request,   \* each assertion request
    update,    \* each such call
    faults,    \* operations that may still fail (bound)
    lateFill,  \* history: a copy was cached after a logout's delete
    slowFill,  \* history: a copy was cached later than the clock its TTL used
    lostDelete \* history: the shared cache dropped a delete

cache == <<l1, l2>>
history == <<lateFill, slowFill, lostDelete>>
vars == <<now, user, session, cache, request, update, faults, history>>

\* A request's live is history: the row was valid by the request's clock when
\* the request began, and when it read the row, if it did.
RequestSteps == {"idle", "local", "shared", "read", "set", "put", "validate",
                 "user", "asserted", "refused"}
\* An update that ends "already" or "lost" answers success like one that is
\* "done", having deleted nothing: it found nothing to revoke, or ignored an
\* error of the repository.
UpdateSteps == {"idle", "write", "confirm", "shared", "local", "done", "already", "lost",
                "refused"}
Request == [pc: RequestSteps, node: Nodes, at: 0..MaxTime,
            copy: Session \cup {NoSession}, live: BOOLEAN]
Update == [pc: UpdateSteps, node: Nodes, path: Paths, idle: Nat, ended: 0..MaxTime]

TypeOK ==
    /\ now \in 0..MaxTime /\ user \in BOOLEAN
    /\ session \in Session \cup {NoSession}
    /\ l1 \in [Nodes -> Entry \cup {NoEntry}] /\ l2 \in Entry \cup {NoEntry}
    /\ request \in [Requests -> Request] /\ update \in [Updates -> Update]
    /\ faults \in 0..MaxFaults
    /\ lateFill \in BOOLEAN /\ slowFill \in BOOLEAN /\ lostDelete \in BOOLEAN

Init ==
    /\ now = 0 /\ user = TRUE
    /\ session = [revoked |-> FALSE, idle |-> IdleTimeout]
    /\ l1 = [n \in Nodes |-> NoEntry] /\ l2 = NoEntry
    /\ \E n \in Nodes :    \* it and the path get their meaning when a call begins
          /\ request = [r \in Requests |-> [pc |-> "idle", node |-> n, at |-> 0,
                                           copy |-> NoSession, live |-> FALSE]]
          /\ update = [u \in Updates |-> [pc |-> "idle", node |-> n, idle |-> 0, ended |-> 0,
                                         path |-> CHOOSE p \in Paths : TRUE]]
    /\ faults = MaxFaults
    /\ lateFill = FALSE /\ slowFill = FALSE /\ lostDelete = FALSE

-----------------------------------------------------------------------------
\* What the code computes from a session and a clock.

\* Session::is_active: the deadlines themselves still count.
IsActive(s, t) == ~s.revoked /\ s.idle >= t /\ AbsoluteEnd >= t

Earlier(a, b) == IF a <= b THEN a ELSE b
Deadline(s) == Earlier(s.idle, AbsoluteEnd)

\* Mutant: the copy outlives its deadline by one second.
TtlInclusive(s, t) == Deadline(s) - t + 1

\* Mutant: a session is cached as long as its deadlines allow.
CacheableWhenRevoked(s, t) == Deadline(s) > t

\* browser::session_cache_put: the TTL by the clock the caller read.
Ttl(s, t) == Deadline(s) - t
Cacheable(s, t) == IsActive(s, t) /\ Deadline(s) > t

\* A live entry, in MemoryCache, Redis and the L1 alike.
Live(e) == e # NoEntry /\ e.until > now

\* Mutant: the deadline itself is accepted.
ValidAtDeadline(s, t) == ~s.revoked /\ s.idle >= t /\ AbsoluteEnd >= t

\* validate_assertion_session, stricter than IsActive at the deadlines.
Valid(s, t) == ~s.revoked /\ s.idle > t /\ AbsoluteEnd > t

Revokes(u) == update[u].path # "refresh"

\* A logout promises an end; a login that replaces the session only tries.
Logout(u) == update[u].path \notin {"refresh", "login"}
Ended(u) == update[u].pc = "done"
Answered(u) == update[u].pc \in {"done", "already", "lost"}

\* An operation of the repository or of the shared cache fails.
Fault == faults > 0 /\ faults' = faults - 1

-----------------------------------------------------------------------------
\* The assertion request.

At(r, step) == request[r].pc = step
Step(r, step) == request' = [request EXCEPT ![r].pc = step]

Begin(r) ==
    /\ At(r, "idle")
    /\ \E n \in Nodes :
          request' = [request EXCEPT ![r] = [@ EXCEPT !.pc = "local", !.node = n, !.at = now,
              !.live = session # NoSession /\ Valid(session, now)]]
    /\ UNCHANGED <<now, user, session, cache, update, faults, history>>

\* decode_cached_session: a hit is used or refused, never looked up again.
Decode(r, s) ==
    request' = [request EXCEPT ![r] = [@ EXCEPT !.copy = s,
        !.pc = IF IsActive(s, request[r].at) THEN "validate" ELSE "refused"]]

LookupLocal(r) ==
    LET n == request[r].node IN
    /\ At(r, "local")
    /\ IF Live(l1[n])
       THEN Decode(r, l1[n].copy) /\ UNCHANGED l1
       ELSE Step(r, "shared") /\ l1' = [l1 EXCEPT ![n] = NoEntry]
    /\ UNCHANGED <<now, user, session, l2, update, faults, history>>

\* A hit in the shared cache does not fill L1; an error counts as a miss.
LookupShared(r) ==
    /\ At(r, "shared")
    /\ \/ Live(l2) /\ Decode(r, l2.copy) /\ UNCHANGED <<l2, faults>>
       \/ ~Live(l2) /\ Step(r, "read") /\ l2' = NoEntry /\ UNCHANGED faults
       \/ Fault /\ Step(r, "read") /\ UNCHANGED l2
    /\ UNCHANGED <<now, user, session, l1, update, history>>

ReadRepository(r) ==
    /\ At(r, "read")
    /\ \/ /\ session = NoSession
          /\ Step(r, "refused") /\ UNCHANGED faults
       \/ /\ session # NoSession
          /\ request' = [request EXCEPT ![r] = [@ EXCEPT !.copy = session,
                 !.pc = IF Cacheable(session, request[r].at)
                        THEN "set" ELSE "validate",
                 !.live = request[r].live /\ Valid(session, request[r].at)]]
          /\ UNCHANGED faults
       \/ Fault /\ Step(r, "refused")
    /\ UNCHANGED <<now, user, session, cache, update, history>>

Fills(r) ==
    /\ lateFill' = (lateFill \/ \E u \in Updates :
                       Logout(u) /\ update[u].pc \in {"local", "done"})
    /\ slowFill' = (slowFill \/ now > request[r].at)
    /\ UNCHANGED lostDelete

\* session_cache_put, the shared half; an error of the cache is ignored.
SetShared(r) ==
    LET q == request[r] IN
    /\ At(r, "set") /\ Step(r, "put")
    /\ \/ /\ l2' = [copy |-> q.copy, until |-> now + Ttl(q.copy, q.at)]
          /\ Fills(r) /\ UNCHANGED faults
       \/ Fault /\ UNCHANGED <<l2, history>>
    /\ UNCHANGED <<now, user, session, l1, update>>

\* Mutant: L1 keeps the copy as long as the shared cache does.
PutLocalLong(r) ==
    LET q == request[r] IN
    /\ At(r, "put") /\ Step(r, "validate")
    /\ l1' = [l1 EXCEPT ![q.node] =
           [copy |-> q.copy, until |-> now + Ttl(q.copy, q.at)]]
    /\ Fills(r)
    /\ UNCHANGED <<now, user, session, l2, update, faults>>

\* session_cache_put, the local half.
PutLocal(r) ==
    LET q == request[r] IN
    /\ At(r, "put") /\ Step(r, "validate")
    /\ l1' = [l1 EXCEPT ![q.node] =
           [copy |-> q.copy, until |-> now + Earlier(Ttl(q.copy, q.at), L1Ttl)]]
    /\ Fills(r)
    /\ UNCHANGED <<now, user, session, l2, update, faults>>

Validate(r) ==
    /\ At(r, "validate")
    /\ Step(r, IF Valid(request[r].copy, request[r].at) THEN "user" ELSE "refused")
    /\ UNCHANGED <<now, user, session, cache, update, faults, history>>

\* get_user_by_id, the last thing that can refuse the assertion.
ReadUser(r) ==
    /\ At(r, "user")
    /\ \/ Step(r, IF user THEN "asserted" ELSE "refused") /\ UNCHANGED faults
       \/ Fault /\ Step(r, "refused")
    /\ UNCHANGED <<now, user, session, cache, update, history>>

-----------------------------------------------------------------------------
\* Logout, refresh, and a login that replaces the session.

UpdateAt(u, step) == update[u].pc = step

\* The browser paths need an active session, the branch of a back-channel logout
\* by subject an unrevoked one, the others that it exists.  The branch by session
\* id and a login (create_with_regeneration) load nothing.
Loads(path) ==
    /\ path \notin {"sid", "login"} => session # NoSession
    /\ path = "sub" => ~session.revoked
    /\ path \in {"browser", "refresh"} => IsActive(session, now)

BeginUpdate(u) ==
    /\ UpdateAt(u, "idle")
    /\ \E n \in Nodes, path \in Paths :
          /\ Loads(path)
          /\ update' = [update EXCEPT ![u] = [@ EXCEPT !.pc = "write", !.node = n,
                           !.path = path, !.idle = now + IdleTimeout]]
    /\ UNCHANGED <<now, user, session, cache, request, faults, history>>

\* RP-initiated logout, the branch by subject and SAML logout answer success
\* when they find no session to revoke; the first two when they cannot look, too.
NothingToRevoke(u) ==
    /\ UpdateAt(u, "idle")
    /\ \E path \in Paths \cap {"rp", "sub", "saml"} :
          \/ /\ ~Loads(path) /\ UNCHANGED faults
             /\ update' = [update EXCEPT ![u] = [@ EXCEPT !.pc = "already", !.path = path]]
          \/ /\ path # "saml" /\ Fault
             /\ update' = [update EXCEPT ![u] = [@ EXCEPT !.pc = "lost", !.path = path]]
    /\ UNCHANGED <<now, user, session, cache, request, history>>

\* Mutant: a refresh writes back the whole row it loaded.
WrittenWhole(u) ==
    IF session = NoSession THEN NoSession
    ELSE IF Revokes(u) THEN [session EXCEPT !.revoked = TRUE]
                       ELSE [revoked |-> FALSE, idle |-> update[u].idle]

\* revoke_session and update_session_idle_expiry; neither changes the other's
\* column, nor a row that is gone.
Written(u) ==
    IF session = NoSession THEN NoSession
    ELSE IF Revokes(u) THEN [session EXCEPT !.revoked = TRUE]
                       ELSE [session EXCEPT !.idle = update[u].idle]

\* revoke_session is the call that revokes, and says so.
RevokedHere == session # NoSession /\ ~session.revoked

\* Which paths call session_cache_delete when the repository reports no error:
\* the admin paths and the branch by subject always, session_revoke, RP-initiated
\* logout and the branch by session id if they were the ones to revoke, SAML and
\* a login never.
Deletes(u) ==
    \/ update[u].path \in {"admin", "sub"}
    \/ update[u].path = "refresh" /\ session # NoSession
    \/ update[u].path \in {"browser", "rp", "sid"} /\ RevokedHere

\* What a path does that deletes nothing: the branch by session id looks whether
\* the row is there, RP-initiated logout goes on.
Otherwise(u) ==
    CASE update[u].path = "sid" -> [update[u] EXCEPT !.pc = "confirm"]
      [] update[u].path = "rp" -> [update[u] EXCEPT !.pc = "already"]
      [] update[u].path \in {"saml", "login"} -> [update[u] EXCEPT !.pc = "done", !.ended = now]
      [] OTHER -> [update[u] EXCEPT !.pc = "refused"]

Write(u) ==
    /\ UpdateAt(u, "write")
    /\ session' = Written(u)
    /\ update' = [update EXCEPT ![u] = IF Deletes(u) THEN [update[u] EXCEPT !.pc = "shared"]
                                       ELSE Otherwise(u)]
    /\ UNCHANGED <<now, user, cache, request, faults, history>>

\* The repository reports an error and nothing is deleted from the caches.  The
\* file store has changed its memory by then and keeps the change; SQL may have
\* committed it.  A login ignores the error, and the OIDC logouts answer success.
WriteFails(u) ==
    /\ UpdateAt(u, "write") /\ Fault
    /\ session' \in {session, Written(u)}
    /\ update' = [update EXCEPT ![u].pc =
           CASE update[u].path = "login" -> "done"
             [] update[u].path \in {"sid", "sub", "rp"} -> "lost"
             [] OTHER -> "refused"]
    /\ UNCHANGED <<now, user, cache, request, history>>

\* get_session in the branch by session id, after revoke_session changed nothing:
\* the caches are cleared if the row is there.
Confirm(u) ==
    /\ UpdateAt(u, "confirm")
    /\ \/ /\ update' = [update EXCEPT ![u].pc = IF session = NoSession THEN "already"
                                                                    ELSE "shared"]
          /\ UNCHANGED faults
       \/ Fault /\ update' = [update EXCEPT ![u].pc = "lost"]
    /\ UNCHANGED <<now, user, session, cache, request, history>>

DeleteShared(u) ==
    /\ UpdateAt(u, "shared")
    /\ update' = [update EXCEPT ![u].pc = "local"]
    /\ \/ l2' = NoEntry /\ UNCHANGED <<faults, lostDelete>>
       \/ Fault /\ lostDelete' = TRUE /\ UNCHANGED l2
    /\ UNCHANGED <<now, user, session, l1, request, lateFill, slowFill>>

\* Mutant: only the shared entry is deleted.
DeleteLocalKeeps(u) ==
    /\ UpdateAt(u, "local")
    /\ update' = [update EXCEPT ![u] = [@ EXCEPT !.pc = "done", !.ended = now]]
    /\ UNCHANGED <<now, user, session, cache, request, faults, history>>

DeleteLocal(u) ==
    /\ UpdateAt(u, "local")
    /\ l1' = [l1 EXCEPT ![update[u].node] = NoEntry]
    /\ update' = [update EXCEPT ![u] = [@ EXCEPT !.pc = "done", !.ended = now]]
    /\ UNCHANGED <<now, user, session, l2, request, faults, history>>

-----------------------------------------------------------------------------
\* Deleting the user removes the session row, and touches no cache.
DeleteUser ==
    /\ user
    /\ user' = FALSE /\ session' = NoSession
    /\ UNCHANGED <<now, cache, request, update, faults, history>>

\* The LRU of a process makes room, or the process restarts.
Evict(n) ==
    /\ l1[n] # NoEntry
    /\ l1' = [l1 EXCEPT ![n] = NoEntry]
    /\ UNCHANGED <<now, user, session, l2, request, update, faults, history>>

Tick ==
    /\ now < MaxTime /\ now' = now + 1
    /\ UNCHANGED <<user, session, cache, request, update, faults, history>>

Next ==
    \/ \E r \in Requests :
          \/ Begin(r) \/ LookupLocal(r) \/ LookupShared(r) \/ ReadRepository(r)
          \/ SetShared(r) \/ PutLocal(r) \/ Validate(r) \/ ReadUser(r)
    \/ \E u \in Updates :
          \/ BeginUpdate(u) \/ NothingToRevoke(u) \/ Write(u) \/ WriteFails(u)
          \/ Confirm(u) \/ DeleteShared(u) \/ DeleteLocal(u)
    \/ \E n \in Nodes : Evict(n)
    \/ DeleteUser \/ Tick

Spec == Init /\ [][Next]_vars

-----------------------------------------------------------------------------
\* Properties.

\* Once a logout has answered that it ended the session, neither the shared cache
\* nor the cache of the process that served it holds a copy that would still be
\* accepted, unless the shared cache dropped the delete or a request that had read
\* the session earlier cached it afterwards; and one that answered success without
\* touching the caches found the session revoked or gone, unless it ignored an
\* error of the repository (state.rs session_cache_delete, backchannel_logout,
\* RP-initiated logout and the other paths that revoke).
LogoutClearsBothLayers ==
    \A u \in Updates : Logout(u) =>
        /\ Ended(u) =>
              \/ ~Live(l2) /\ ~Live(l1[update[u].node])
              \/ lateFill \/ lostDelete
        /\ update[u].pc = "already" => session = NoSession \/ session.revoked

\* A request that starts L1Ttl after a logout answered that it ended the session
\* is refused, in every process: the caches other processes keep have expired by
\* then, with the same two exceptions (SESSION_L1_TTL_SECONDS, session_cache_get).
LogoutReachesEveryProcess ==
    \A r \in Requests, u \in Updates :
        At(r, "asserted") /\ Ended(u) /\ Logout(u) =>
            \/ request[r].at < update[u].ended + L1Ttl
            \/ lateFill \/ lostDelete

\* docs/operations.md:77, "revocation deletes both layers on qid-managed revoke
\* paths", and what a back-channel logout says when it is through, "sessions
\* revoked" (discovery.rs:1280): once a SAML logout and a back-channel logout by
\* session id have both answered success, no usable copy is left in the shared
\* cache, unless a delete was lost or a copy cached late.
TwoLogoutsClear ==
    \A u, v \in Updates :
        user /\ Answered(u) /\ Answered(v) /\ update[u].path = "saml" /\ update[v].path = "sid" =>
            ~Live(l2) \/ lateFill \/ lostDelete

\* Whatever was cached, and however late, no assertion is made for a request
\* that came at or after the absolute deadline, or after the idle deadline
\* every refresh so far has granted (decode_cached_session and
\* validate_assertion_session on a cached copy).
NoAssertionPastTheDeadlines ==
    \A r \in Requests : At(r, "asserted") =>
        /\ request[r].at < AbsoluteEnd
        /\ \/ request[r].at < IdleTimeout
           \/ \E u \in Updates : update[u].path = "refresh"
                                    /\ request[r].at < update[u].idle

\* A request that came while the repository's row was valid is refused only for
\* what that row says when the request reads it, never for an out-of-date copy of
\* its idle deadline: copies leave both caches no later than their own deadline,
\* so a refreshed session is read again.  Only a fill that was slow (its TTL
\* counted from an earlier clock) can break this (browser.rs session_cache_put).
LiveSessionIsServed ==
    \A r \in Requests : At(r, "refused") /\ request[r].live =>
        session = NoSession \/ faults < MaxFaults \/ slowFill

\* A session that was revoked stays revoked, a refresh of it included, and
\* the row of a deleted user does not come back (sql/session.rs).
RevocationIsFinal ==
    [][/\ session = NoSession => session' = NoSession
       /\ session # NoSession /\ session.revoked =>
              session' = NoSession \/ session'.revoked]_vars

=============================================================================
