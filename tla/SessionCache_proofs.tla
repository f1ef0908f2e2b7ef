------------------------ MODULE SessionCache_proofs ------------------------
(***************************************************************************)
(* Proofs about SessionCache, for any number of processes, requests and     *)
(* updates and for every TTL and deadline.                                  *)
(***************************************************************************)
EXTENDS SessionCache, TLAPS

\* What a request holds at each step: a session to cache is cacheable by the
\* clock the request read, and one that passed validation is valid by it.
CopyInv ==
    \A r \in Requests :
        /\ request[r].at <= now
        /\ request[r].pc \in {"set", "put"} =>
              request[r].copy \in Session /\ Cacheable(request[r].copy, request[r].at)
        /\ request[r].pc \in {"validate", "user", "asserted"} =>
              request[r].copy \in Session
        /\ request[r].pc \in {"user", "asserted"} =>
              Valid(request[r].copy, request[r].at)

RequestStep(r) ==
    \/ Begin(r) \/ LookupLocal(r) \/ LookupShared(r) \/ ReadRepository(r)
    \/ SetShared(r) \/ PutLocal(r) \/ Validate(r) \/ ReadUser(r)

UpdateStep(u) ==
    \/ BeginUpdate(u) \/ NothingToRevoke(u) \/ Write(u) \/ WriteFails(u)
    \/ Confirm(u) \/ DeleteShared(u) \/ DeleteLocal(u)

\* A request record keeps its type when a step changes it.
LEMMA RequestType ==
    ASSUME NEW q \in Request, NEW step \in RequestSteps
    PROVE  /\ [q EXCEPT !.pc = step] \in Request
           /\ \A s \in Session \cup {NoSession} :
                 [q EXCEPT !.copy = s, !.pc = step] \in Request
           /\ \A n \in Nodes, t \in 0..MaxTime, b \in BOOLEAN :
                 [q EXCEPT !.pc = step, !.node = n, !.at = t, !.live = b] \in Request
           /\ \A s \in Session \cup {NoSession}, b \in BOOLEAN :
                 [q EXCEPT !.copy = s, !.pc = step, !.live = b] \in Request
  BY DEF Request

\* The tests on a session are Booleans.
LEMMA IsActiveBoolean ==
    \A s, t : IsActive(s, t) \in BOOLEAN /\ Cacheable(s, t) \in BOOLEAN
              /\ \A b : (b /\ Valid(s, t)) \in BOOLEAN
  BY DEF IsActive, Cacheable

\* So does one that takes a copy and branches on it.
LEMMA TakeType ==
    ASSUME TypeOK, NEW r \in Requests, NEW s \in Session \cup {NoSession}, NEW b \in BOOLEAN,
           NEW yes \in RequestSteps, NEW no \in RequestSteps,
           request' = [request EXCEPT ![r] = [@ EXCEPT !.copy = s,
               !.pc = IF b THEN yes ELSE no]]
    PROVE  request' \in [Requests -> Request]
  <1> DEFINE step == IF b THEN yes ELSE no
  <1>1. step \in RequestSteps
    OBVIOUS
  <1>2. request[r] \in Request
    BY DEF TypeOK
  <1>3. [request[r] EXCEPT !.copy = s, !.pc = step] \in Request
    BY <1>1, <1>2, RequestType
  <1>q. QED
    BY <1>3 DEF TypeOK

\* An update record keeps its type when a step changes it.
LEMMA UpdateType ==
    ASSUME NEW q \in Update, NEW step \in UpdateSteps
    PROVE  /\ [q EXCEPT !.pc = step] \in Update
           /\ \A path \in Paths : [q EXCEPT !.pc = step, !.path = path] \in Update
           /\ \A n \in Nodes, path \in Paths, i \in Nat :
                 [q EXCEPT !.pc = step, !.node = n, !.path = path, !.idle = i] \in Update
           /\ \A t \in 0..MaxTime : [q EXCEPT !.pc = step, !.ended = t] \in Update
  BY DEF Update

\* What a call that begins, or that finds nothing to revoke, writes about itself.
LEMMA BeginForms ==
    ASSUME NEW u \in Updates
    PROVE  /\ BeginUpdate(u) => \E n \in Nodes, path \in Paths :
                 update' = [update EXCEPT ![u] = [@ EXCEPT !.pc = "write", !.node = n,
                               !.path = path, !.idle = now + IdleTimeout]]
           /\ NothingToRevoke(u) => \E step \in {"already", "lost"}, path \in Paths :
                 /\ update' = [update EXCEPT ![u] = [@ EXCEPT !.pc = step, !.path = path]]
                 /\ step = "already" => path \in {"rp", "sub", "saml"} /\ ~Loads(path)
  <1>1. ASSUME BeginUpdate(u)
        PROVE  \E n \in Nodes, path \in Paths :
                 update' = [update EXCEPT ![u] = [@ EXCEPT !.pc = "write", !.node = n,
                               !.path = path, !.idle = now + IdleTimeout]]
    BY <1>1 DEF BeginUpdate
  <1>2. ASSUME NothingToRevoke(u)
        PROVE  \E step \in {"already", "lost"}, path \in Paths :
                 /\ update' = [update EXCEPT ![u] = [@ EXCEPT !.pc = step, !.path = path]]
                 /\ step = "already" => path \in {"rp", "sub", "saml"} /\ ~Loads(path)
    BY <1>2 DEF NothingToRevoke
  <1>q. QED
    BY <1>1, <1>2

\* The start of the program is well typed.
LEMMA InitType == Init => TypeOK
  <1> SUFFICES ASSUME Init PROVE TypeOK
    OBVIOUS
  <1>0. 0 \in 0..MaxTime /\ 0 \in Nat
    BY NumberAssumption
  <1>1. request \in [Requests -> Request]
    <2>1. \A n \in Nodes : [pc |-> "idle", node |-> n, at |-> 0, copy |-> NoSession,
                           live |-> FALSE] \in Request
      BY <1>0 DEF Request, RequestSteps
    <2>q. QED
      BY <2>1 DEF Init
  <1>2. update \in [Updates -> Update]
    <2>1. (CHOOSE p \in Paths : TRUE) \in Paths
      BY PathAssumption
    <2>2. \A n \in Nodes, path \in Paths :
             [pc |-> "idle", node |-> n, idle |-> 0, ended |-> 0, path |-> path] \in Update
      BY <1>0 DEF Update, UpdateSteps
    <2>q. QED
      BY <2>1, <2>2 DEF Init
  <1>3. session \in Session /\ faults \in 0..MaxFaults
    BY NumberAssumption DEF Init, Session
  <1>4. l1 \in [Nodes -> Entry \cup {NoEntry}] /\ l2 \in Entry \cup {NoEntry}
    BY DEF Init
  <1>q. QED
    BY <1>0, <1>1, <1>2, <1>3, <1>4 DEF Init, TypeOK

\* What session_cache_put stores is an entry.
LEMMA FillType ==
    ASSUME TypeOK, CopyInv, NEW r \in Requests, request[r].pc \in {"set", "put"}
    PROVE  LET q == request[r] IN
           /\ [copy |-> q.copy, until |-> now + Ttl(q.copy, q.at)] \in Entry
           /\ [copy |-> q.copy, until |-> now + Earlier(Ttl(q.copy, q.at), L1Ttl)]
                 \in Entry
  <1> DEFINE q == request[r]
  <1>1. q.copy \in Session /\ Cacheable(q.copy, q.at) /\ q.at \in Nat /\ now \in Nat
    BY DEF CopyInv, TypeOK, Request
  <1>2. ~q.copy.revoked /\ q.copy \in [revoked: {FALSE}, idle: Nat]
    BY <1>1 DEF Cacheable, IsActive, Session
  <1>3. Ttl(q.copy, q.at) \in Nat
    BY <1>1, NumberAssumption DEF Ttl, Cacheable, Deadline, Earlier, Session
  <1>4. /\ now + Ttl(q.copy, q.at) \in Nat
        /\ now + Earlier(Ttl(q.copy, q.at), L1Ttl) \in Nat
    BY <1>1, <1>3, NumberAssumption DEF Earlier
  <1>q. QED
    BY <1>2, <1>4 DEF Entry

\* Each step of a request keeps the types.
LEMMA RequestStepType ==
    ASSUME TypeOK, CopyInv, NEW r \in Requests, RequestStep(r)
    PROVE  TypeOK'
  <1>0. request[r] \in Request
    BY DEF TypeOK
  <1>f. Fault => faults' \in 0..MaxFaults
    BY NumberAssumption DEF Fault, TypeOK
  <1> USE <1>0, <1>f, NameAssumption
      DEF At, Step, history, cache
  <1>1. CASE Begin(r)
    <2>1. request' \in [Requests -> Request]
      <3>1. PICK n \in Nodes, b \in BOOLEAN :
               request' = [request EXCEPT ![r] = [@ EXCEPT !.pc = "local", !.node = n,
                              !.at = now, !.live = b]]
        BY <1>1, IsActiveBoolean DEF Begin
      <3>q. QED
        BY <3>1, RequestType DEF TypeOK, RequestSteps
    <2>q. QED
      BY <1>1, <2>1 DEF Begin, TypeOK
  <1>2. CASE LookupLocal(r)
    <2>1. Live(l1[request[r].node]) => l1[request[r].node].copy \in Session
      BY DEF TypeOK, Live, Entry, Session, Request
    <2>2. request' \in [Requests -> Request]
      <3>1. CASE Live(l1[request[r].node])
        BY <1>2, <2>1, <3>1, TakeType, IsActiveBoolean DEF LookupLocal, Decode, RequestSteps
      <3>2. CASE ~Live(l1[request[r].node])
        BY <1>2, <3>2, RequestType DEF LookupLocal, TypeOK, RequestSteps
      <3>q. QED
        BY <3>1, <3>2
    <2>3. l1' \in [Nodes -> Entry \cup {NoEntry}]
      BY <1>2 DEF LookupLocal, TypeOK
    <2>q. QED
      BY <1>2, <2>2, <2>3 DEF LookupLocal, TypeOK
  <1>3. CASE LookupShared(r)
    <2>1. Live(l2) => l2.copy \in Session
      BY DEF TypeOK, Live, Entry, Session, Request
    <2>2. request' \in [Requests -> Request]
      <3>1. CASE Live(l2) /\ Decode(r, l2.copy)
        BY <2>1, <3>1, TakeType, IsActiveBoolean DEF Decode, RequestSteps
      <3>2. CASE Step(r, "read")
        BY <3>2, RequestType DEF TypeOK, RequestSteps
      <3>q. QED
        BY <1>3, <3>1, <3>2 DEF LookupShared
    <2>q. QED
      BY <1>3, <2>2 DEF LookupShared, TypeOK
  <1>4. CASE ReadRepository(r)
    <2>1. request' \in [Requests -> Request]
      <3>1. CASE Step(r, "refused")
        BY <3>1, RequestType DEF TypeOK, RequestSteps
      <3>2. CASE request' = [request EXCEPT ![r] = [@ EXCEPT !.copy = session,
                   !.pc = IF Cacheable(session, request[r].at)
                          THEN "set" ELSE "validate",
                   !.live = request[r].live /\ Valid(session, request[r].at)]]
        <4>1. session \in Session \cup {NoSession}
          BY DEF TypeOK
        <4>2. PICK step \in RequestSteps :
                 step = IF Cacheable(session, request[r].at) THEN "set" ELSE "validate"
          BY DEF RequestSteps
        <4>3. PICK b \in BOOLEAN :
                 b = (request[r].live /\ Valid(session, request[r].at))
          BY Zenon, IsActiveBoolean
        <4>4. [request[r] EXCEPT !.copy = session, !.pc = step, !.live = b] \in Request
          BY <4>1, RequestType
        <4>q. QED
          BY <3>2, <4>2, <4>3, <4>4 DEF TypeOK
      <3>q. QED
        BY <1>4, <3>1, <3>2 DEF ReadRepository
    <2>q. QED
      BY <1>4, <2>1 DEF ReadRepository, TypeOK
  <1>5. CASE SetShared(r)
    BY <1>5, RequestType, FillType DEF SetShared, Fills, TypeOK, RequestSteps
  <1>6. CASE PutLocal(r)
    BY <1>6, RequestType, FillType DEF PutLocal, Fills, TypeOK, RequestSteps
  <1>7. CASE Validate(r)
    BY <1>7, RequestType DEF Validate, TypeOK, RequestSteps
  <1>8. CASE ReadUser(r)
    BY <1>8, RequestType DEF ReadUser, TypeOK, RequestSteps
  <1>q. QED
    BY <1>1, <1>2, <1>3, <1>4, <1>5, <1>6, <1>7, <1>8 DEF RequestStep

\* Each step of a logout or refresh keeps the types.
LEMMA UpdateStepType ==
    ASSUME TypeOK, NEW u \in Updates, UpdateStep(u)
    PROVE  TypeOK'
  <1>0. update[u] \in Update /\ now \in 0..MaxTime /\ now + IdleTimeout \in Nat
    BY NumberAssumption DEF TypeOK
  <1>f. Fault => faults' \in 0..MaxFaults
    BY NumberAssumption DEF Fault, TypeOK
  <1>w. Written(u) \in Session \cup {NoSession}
    BY <1>0 DEF Written, TypeOK, Session, Update
  <1> USE <1>0, <1>f, <1>w DEF UpdateAt, history, cache
  <1>1. CASE BeginUpdate(u)
    <2>1. update' \in [Updates -> Update]
      <3>1. PICK n \in Nodes, path \in Paths :
               update' = [update EXCEPT ![u] = [@ EXCEPT !.pc = "write", !.node = n,
                             !.path = path, !.idle = now + IdleTimeout]]
        BY <1>1, BeginForms
      <3>2. [update[u] EXCEPT !.pc = "write", !.node = n, !.path = path,
                              !.idle = now + IdleTimeout] \in Update
        BY UpdateType DEF UpdateSteps
      <3>q. QED
        BY <3>1, <3>2 DEF TypeOK
    <2>q. QED
      BY <1>1, <2>1 DEF BeginUpdate, TypeOK
  <1>n. CASE NothingToRevoke(u)
    <2>1. update' \in [Updates -> Update]
      <3>1. PICK step \in {"already", "lost"}, path \in Paths :
               /\ update' = [update EXCEPT ![u] = [@ EXCEPT !.pc = step, !.path = path]]
               /\ step = "already" => path \in {"rp", "sub", "saml"} /\ ~Loads(path)
        BY <1>n, BeginForms
      <3>2. [update[u] EXCEPT !.pc = step, !.path = path] \in Update
        BY UpdateType DEF UpdateSteps
      <3>q. QED
        BY <3>1, <3>2 DEF TypeOK
    <2>q. QED
      BY <1>n, <2>1 DEF NothingToRevoke, TypeOK
  <1>2. CASE Write(u)
    <2>1. [update[u] EXCEPT !.pc = "shared"] \in Update /\ Otherwise(u) \in Update
      BY UpdateType DEF Otherwise, UpdateSteps
    <2>q. QED
      BY <1>2, <2>1 DEF Write, TypeOK
  <1>c. CASE Confirm(u)
    <2>1. update' \in [Updates -> Update]
      BY <1>c, UpdateType DEF Confirm, TypeOK, UpdateSteps
    <2>q. QED
      BY <1>c, <2>1 DEF Confirm, TypeOK
  <1>3. CASE WriteFails(u)
    <2>1. update' \in [Updates -> Update]
      <3>1. PICK step \in UpdateSteps : update' = [update EXCEPT ![u].pc = step]
        BY <1>3 DEF WriteFails, UpdateSteps
      <3>q. QED
        BY <3>1, UpdateType DEF TypeOK
    <2>q. QED
      BY <1>3, <2>1 DEF WriteFails, TypeOK
  <1>4. CASE DeleteShared(u)
    <2>1. update' \in [Updates -> Update]
      BY <1>4, UpdateType DEF DeleteShared, TypeOK, UpdateSteps
    <2>q. QED
      BY <1>4, <2>1 DEF DeleteShared, TypeOK
  <1>5. CASE DeleteLocal(u)
    <2>1. update' \in [Updates -> Update]
      BY <1>5, UpdateType DEF DeleteLocal, TypeOK, UpdateSteps
    <2>q. QED
      BY <1>5, <2>1 DEF DeleteLocal, TypeOK
  <1>q. QED
    BY <1>1, <1>n, <1>2, <1>3, <1>c, <1>4, <1>5 DEF UpdateStep

\* Eviction, the user's deletion and the clock keep the types.
LEMMA OtherStepType ==
    ASSUME TypeOK, (\E n \in Nodes : Evict(n)) \/ DeleteUser \/ Tick \/ UNCHANGED vars
    PROVE  TypeOK'
  <1>1. CASE \E n \in Nodes : Evict(n)
    BY <1>1 DEF Evict, TypeOK, history
  <1>2. CASE DeleteUser
    BY <1>2 DEF DeleteUser, TypeOK, cache, history
  <1>3. CASE Tick
    <2>1. now' \in 0..MaxTime
      BY <1>3, NumberAssumption DEF Tick, TypeOK
    <2>q. QED
      BY <1>3, <2>1 DEF Tick, TypeOK, cache, history
  <1>4. CASE UNCHANGED vars
    BY <1>4 DEF vars, TypeOK, cache, history
  <1>q. QED
    BY <1>1, <1>2, <1>3, <1>4

\* The clock never runs back.
LEMMA ClockMoves == TypeOK /\ [Next]_vars => now' >= now
  <1> SUFFICES ASSUME TypeOK, [Next]_vars PROVE now' >= now
    OBVIOUS
  <1>1. UNCHANGED now \/ Tick
    BY DEF Next, vars, Begin, LookupLocal, LookupShared, ReadRepository,
       SetShared, PutLocal, Validate, ReadUser, BeginUpdate, NothingToRevoke,
       Write, WriteFails, Confirm,
       DeleteShared, DeleteLocal, Evict, DeleteUser
  <1>q. QED
    BY <1>1, NumberAssumption DEF Tick, TypeOK

\* A step of another actor leaves a request as it is.
LEMMA OthersKeepCopies ==
    ASSUME TypeOK, CopyInv, now' \in Nat, now' >= now, UNCHANGED request
    PROVE  CopyInv'
  BY DEF TypeOK, CopyInv, Cacheable, Valid, IsActive, Deadline, Earlier, Request

\* Each step of a request keeps CopyInv.
LEMMA RequestStepCopy ==
    ASSUME TypeOK, CopyInv, NEW r \in Requests, RequestStep(r)
    PROVE  CopyInv'
  <1>0. request[r] \in Request /\ now' = now /\ \A p \in Requests \ {r} : request'[p] = request[p]
    BY DEF TypeOK, RequestStep, Begin, LookupLocal, LookupShared, ReadRepository,
       SetShared, PutLocal, Validate, ReadUser, Step, Decode
  <1> DEFINE Copy(q) ==
        /\ q.at <= now
        /\ q.pc \in {"set", "put"} => q.copy \in Session /\ Cacheable(q.copy, q.at)
        /\ q.pc \in {"validate", "user", "asserted"} => q.copy \in Session
        /\ q.pc \in {"user", "asserted"} => Valid(q.copy, q.at)
  <1>1. Copy(request'[r])
    <2> USE <1>0 DEF TypeOK, CopyInv, Request, At, Step
    <2>1. CASE Begin(r)
      BY <2>1 DEF Begin
    <2>d. ASSUME NEW s \in Session, Decode(r, s)
          PROVE  Copy(request'[r])
      BY <2>d DEF Decode
    <2>s. ASSUME NEW step \in {"shared", "read", "refused"}, Step(r, step)
          PROVE  Copy(request'[r])
      BY <2>s
    <2>2. CASE LookupLocal(r)
      <3>1. Live(l1[request[r].node]) => l1[request[r].node].copy \in Session
        BY DEF Live, Entry, Session
      <3>q. QED
        BY <2>2, <2>d, <2>s, <3>1 DEF LookupLocal
    <2>3. CASE LookupShared(r)
      <3>1. Live(l2) => l2.copy \in Session
        BY DEF Live, Entry, Session
      <3>q. QED
        BY <2>3, <2>d, <2>s, <3>1 DEF LookupShared
    <2>4. CASE ReadRepository(r)
      <3>1. CASE Step(r, "refused")
        BY <2>s, <3>1
      <3>2. CASE /\ session # NoSession
                 /\ request' = [request EXCEPT ![r] = [@ EXCEPT !.copy = session,
                        !.pc = IF Cacheable(session, request[r].at)
                               THEN "set" ELSE "validate",
                        !.live = request[r].live /\ Valid(session, request[r].at)]]
        BY <3>2
      <3>q. QED
        BY <2>4, <3>1, <3>2 DEF ReadRepository
    <2>5. CASE SetShared(r)
      BY <2>5 DEF SetShared
    <2>6. CASE PutLocal(r)
      BY <2>6 DEF PutLocal
    <2>7. CASE Validate(r)
      BY <2>7 DEF Validate
    <2>8. CASE ReadUser(r)
      BY <2>8 DEF ReadUser
    <2>q. QED
      BY <2>1, <2>2, <2>3, <2>4, <2>5, <2>6, <2>7, <2>8 DEF RequestStep
  <1>2. \A p \in Requests : Copy(request'[p])
    BY <1>0, <1>1 DEF CopyInv
  <1>q. QED
    BY <1>0, <1>2 DEF CopyInv, Cacheable, Valid, IsActive, Deadline, Earlier

\* Every step keeps the types and CopyInv.
LEMMA NextType ==
    TypeOK /\ CopyInv /\ [Next]_vars => TypeOK' /\ CopyInv'
  <1> SUFFICES ASSUME TypeOK, CopyInv, [Next]_vars
               PROVE  TypeOK' /\ CopyInv'
    OBVIOUS
  <1>1. CASE \E r \in Requests : RequestStep(r)
    BY <1>1, RequestStepType, RequestStepCopy
  <1>2. CASE \E u \in Updates : UpdateStep(u)
    <2>1. TypeOK' /\ UNCHANGED request
      BY <1>2, UpdateStepType
      DEF UpdateStep, BeginUpdate, NothingToRevoke, Write, WriteFails, Confirm, DeleteShared,
         DeleteLocal
    <2>q. QED
      BY <2>1, ClockMoves, OthersKeepCopies DEF TypeOK
  <1>3. CASE (\E n \in Nodes : Evict(n)) \/ DeleteUser \/ Tick \/ UNCHANGED vars
    <2>1. TypeOK' /\ UNCHANGED request
      BY <1>3, OtherStepType DEF Evict, DeleteUser, Tick, vars
    <2>q. QED
      BY <2>1, ClockMoves, OthersKeepCopies DEF TypeOK
  <1>q. QED
    BY <1>1, <1>2, <1>3 DEF Next, RequestStep, UpdateStep

\* At the start no request holds a session.
LEMMA InitCopy == Init => CopyInv
  <1> SUFFICES ASSUME Init, NEW r \in Requests
               PROVE  request[r].at = 0 /\ request[r].pc = "idle" /\ now = 0
    BY DEF CopyInv
  <1>q. QED
    BY DEF Init

\* Every reachable state is well typed: in particular only active copies are
\* ever cached, with a deadline, whatever logouts, failures and evictions do
\* meanwhile (state.rs session_cache_put, browser.rs session_cache_put).
THEOREM CacheTypeCorrect == Spec => []TypeOK
  <1>1. Spec => [](TypeOK /\ CopyInv)
    BY InitType, InitCopy, NextType, PTL DEF Spec
  <1>q. QED
    BY <1>1, PTL

-----------------------------------------------------------------------------
(***************************************************************************)
(* Logout.  LogoutClearsBothLayers and LogoutReachesEveryProcess are not    *)
(* inductive.  What is: once a logout has written, the repository refuses   *)
(* the session; once it has deleted the shared entry, only an excuse (a     *)
(* late fill or a lost delete) brings one back; what any process still has  *)
(* in L1 expires within L1Ttl of the logout's end; and a request that came  *)
(* later than that holds a revoked copy or none.                            *)
(***************************************************************************)
Excused == lateFill \/ lostDelete

ClockInv ==
    /\ \A u \in Updates : update[u].ended <= now
    /\ \A n \in Nodes : l1[n] # NoEntry => l1[n].until <= now + L1Ttl

WrittenInv ==
    \A u \in Updates :
        Logout(u) /\ update[u].pc \in {"confirm", "shared", "local", "done", "already"} =>
            session = NoSession \/ session.revoked

SharedInv ==
    \A u \in Updates :
        Logout(u) /\ update[u].pc \in {"local", "done"} => ~Live(l2) \/ Excused

LocalInv ==
    \A u \in Updates : Logout(u) /\ Ended(u) =>
        \/ Excused
        \/ /\ ~Live(l1[update[u].node])
           /\ \A n \in Nodes : l1[n] # NoEntry =>
                 l1[n].until <= update[u].ended + L1Ttl

LateInv ==
    \A u \in Updates, r \in Requests :
        /\ Logout(u) /\ Ended(u)
        /\ request[r].at >= update[u].ended + L1Ttl
        /\ request[r].pc \in {"set", "put", "validate", "user", "asserted"}
        => Excused \/ request[r].copy.revoked

LogoutInv == ClockInv /\ WrittenInv /\ SharedInv /\ LocalInv /\ LateInv

\* At the start nothing is cached and no logout has begun.
LEMMA InitLogout == Init => LogoutInv
  <1> SUFFICES ASSUME Init PROVE LogoutInv
    OBVIOUS
  <1>1. \A u \in Updates : update[u].pc = "idle" /\ update[u].ended = 0
    BY DEF Init
  <1>2. now = 0 /\ \A n \in Nodes : l1[n] = NoEntry
    BY DEF Init
  <1>q. QED
    BY <1>1, <1>2 DEF LogoutInv, ClockInv, WrittenInv, SharedInv, LocalInv, LateInv, Ended

\* Each step of a request keeps the logout invariant.
LEMMA RequestStepLogout ==
    ASSUME TypeOK, CopyInv, LogoutInv, NEW r \in Requests, RequestStep(r)
    PROVE  LogoutInv'
  <1>0. /\ UNCHANGED <<now, session, update>>
        /\ request[r] \in Request
        /\ \A p \in Requests \ {r} : request'[p] = request[p]
        /\ Excused => Excused'
    BY DEF TypeOK, RequestStep, Begin, LookupLocal, LookupShared, ReadRepository,
       SetShared, PutLocal, Validate, ReadUser, Step, Decode, Fills, Excused, history
  <1>w. WrittenInv'
    BY <1>0 DEF LogoutInv, WrittenInv, Logout
  <1>f. /\ (SetShared(r) /\ l2' # l2) \/ PutLocal(r)
        /\ \E u \in Updates : Logout(u) /\ update[u].pc \in {"local", "done"}
        => Excused'
    BY DEF SetShared, PutLocal, Fills, Excused, history
  <1>1. \/ UNCHANGED l1
        \/ \A n \in Nodes : l1'[n] \in {l1[n], NoEntry}
        \/ /\ PutLocal(r)
           /\ \A n \in Nodes : l1'[n] = l1[n] \/ l1'[n].until <= now + L1Ttl
    <2>1. CASE PutLocal(r)
      <3>1. Earlier(Ttl(request[r].copy, request[r].at), L1Ttl) \in Int
            /\ Earlier(Ttl(request[r].copy, request[r].at), L1Ttl) <= L1Ttl
        BY <1>0, <2>1, NumberAssumption
        DEF PutLocal, At, CopyInv, Earlier, Ttl, Deadline, Session, Request, TypeOK
      <3>q. QED
        BY <2>1, <3>1, <1>0, NumberAssumption DEF PutLocal, TypeOK, Request
    <2>2. CASE LookupLocal(r)
      BY <2>2 DEF LookupLocal, TypeOK
    <2>q. QED
      BY <2>1, <2>2 DEF RequestStep, Begin, LookupShared, ReadRepository,
         SetShared, Validate, ReadUser, cache
  <1>2. l2' \in {l2, NoEntry} \/ SetShared(r)
    BY DEF RequestStep, Begin, LookupLocal, LookupShared, ReadRepository,
       PutLocal, Validate, ReadUser, cache
  <1>c. ClockInv'
    BY <1>0, <1>1 DEF LogoutInv, ClockInv
  <1>s. SharedInv'
    BY <1>0, <1>2, <1>f DEF LogoutInv, SharedInv, Logout, Live
  <1>l. LocalInv'
    <2> SUFFICES ASSUME NEW u \in Updates, Logout(u), Ended(u), ~Excused'
                 PROVE  /\ ~Live(l1[update[u].node])'
                        /\ \A n \in Nodes : l1'[n] # NoEntry =>
                              l1'[n].until <= update[u].ended + L1Ttl
      BY <1>0 DEF LocalInv, Logout, Ended
    <2>1. ~PutLocal(r)
      BY <1>f DEF Ended
    <2>2. update[u].node \in Nodes
      BY DEF TypeOK, Update
    <2>q. QED
      BY <1>0, <1>1, <2>1, <2>2 DEF LogoutInv, LocalInv, Live
  <1>t. LateInv'
    <2> SUFFICES ASSUME NEW u \in Updates, NEW p \in Requests,
                        Logout(u), Ended(u), ~Excused',
                        request'[p].at >= update[u].ended + L1Ttl,
                        request'[p].pc \in {"set", "put", "validate", "user", "asserted"}
                 PROVE  request'[p].copy.revoked
      BY <1>0 DEF LateInv, Logout, Ended
    <2>1. CASE p # r
      BY <1>0, <2>1 DEF LogoutInv, LateInv
    <2>2. CASE p = r
      <3>0. session = NoSession \/ session.revoked
        BY DEF LogoutInv, WrittenInv, Ended
      <3>1. CASE Begin(r)
        BY <1>0, <2>2, <3>1 DEF Begin, TypeOK, Request
      <3>2. CASE LookupLocal(r)
        <4>1. CASE Live(l1[request[r].node])
          <5>1. request'[r].at = request[r].at /\ request[r].at <= now
            BY <1>0, <3>2, <4>1 DEF LookupLocal, Decode, TypeOK, Request, CopyInv
          <5>2. l1[request[r].node].until <= update[u].ended + L1Ttl
            BY <1>0, <4>1 DEF LogoutInv, LocalInv, Live, Request
          <5>3. l1[request[r].node].until > now /\ l1[request[r].node].until \in Nat
            BY <1>0, <4>1 DEF Live, TypeOK, Entry, Request
          <5>4. update[u].ended \in Nat /\ now \in Nat /\ request[r].at \in Nat
            BY <1>0 DEF TypeOK, Update, Request
          <5>q. QED
            BY <2>2, <5>1, <5>2, <5>3, <5>4, NumberAssumption
        <4>2. CASE ~Live(l1[request[r].node])
          BY <1>0, <2>2, <3>2, <4>2 DEF LookupLocal, Step, TypeOK, Request
        <4>q. QED
          BY <4>1, <4>2
      <3>3. CASE LookupShared(r)
        <4>1. ~Live(l2)
          BY <1>0 DEF LogoutInv, SharedInv, Ended
        <4>q. QED
          BY <1>0, <2>2, <3>3, <4>1 DEF LookupShared, Step, TypeOK, Request
      <3>4. CASE ReadRepository(r)
        <4>1. CASE Step(r, "refused")
          BY <1>0, <2>2, <4>1 DEF Step, TypeOK, Request
        <4>2. CASE /\ session # NoSession
                   /\ request' = [request EXCEPT ![r] = [@ EXCEPT !.copy = session,
                          !.pc = IF Cacheable(session, request[r].at)
                                 THEN "set" ELSE "validate",
                          !.live = request[r].live /\ Valid(session, request[r].at)]]
          BY <1>0, <2>2, <3>0, <4>2 DEF TypeOK, Request
        <4>q. QED
          BY <3>4, <4>1, <4>2 DEF ReadRepository
      <3>5. CASE SetShared(r) \/ PutLocal(r) \/ Validate(r) \/ ReadUser(r)
        <4>1. /\ request[r].pc \in {"set", "put", "validate", "user"}
              /\ request'[r].at = request[r].at /\ request'[r].copy = request[r].copy
          BY <1>0, <3>5
          DEF SetShared, PutLocal, Validate, ReadUser, At, Step, TypeOK, Request
        <4>q. QED
          BY <1>0, <2>2, <4>1 DEF LogoutInv, LateInv
      <3>q. QED
        BY <3>1, <3>2, <3>3, <3>4, <3>5 DEF RequestStep
    <2>q. QED
      BY <2>1, <2>2
  <1>q. QED
    BY <1>w, <1>c, <1>s, <1>l, <1>t DEF LogoutInv

\* Each step of a logout or refresh keeps the logout invariant, if no path
\* skips the deletes.
LEMMA UpdateStepLogout ==
    ASSUME "saml" \notin Paths, TypeOK, CopyInv, LogoutInv,
           NEW u \in Updates, UpdateStep(u)
    PROVE  LogoutInv'
  <1>0. /\ UNCHANGED <<now, request>>
        /\ update[u] \in Update
        /\ \A v \in Updates \ {u} : update'[v] = update[v]
        /\ update[u].pc # "idle" =>
              update'[u].path = update[u].path /\ update'[u].node = update[u].node
        /\ Excused => Excused'
        /\ now \in Nat /\ \A v \in Updates : update[v].ended \in Nat
    <2>1. update[u] \in Update /\ now \in Nat /\ \A v \in Updates : update[v].ended \in Nat
      BY DEF TypeOK, Update
    <2>2. UNCHANGED <<now, request>>
      BY DEF UpdateStep, BeginUpdate, NothingToRevoke, Write, WriteFails, Confirm,
         DeleteShared, DeleteLocal
    <2>e. Excused => Excused'
      <3>1. UNCHANGED lateFill /\ (lostDelete' = lostDelete \/ lostDelete')
        BY DEF UpdateStep, BeginUpdate, NothingToRevoke, Write, WriteFails, Confirm,
           DeleteShared, DeleteLocal, history
      <3>q. QED
        BY <3>1 DEF Excused
    <2>3. \A v \in Updates \ {u} : update'[v] = update[v]
      BY DEF TypeOK, UpdateStep, BeginUpdate, NothingToRevoke,
         Write, WriteFails, Confirm, DeleteShared, DeleteLocal
    <2>4. update[u].pc # "idle" =>
             update'[u].path = update[u].path /\ update'[u].node = update[u].node
      <3>1. CASE BeginUpdate(u) \/ NothingToRevoke(u)
        BY <3>1 DEF BeginUpdate, NothingToRevoke, UpdateAt
      <3>2. CASE Write(u)
        BY <2>1, <3>2 DEF TypeOK, Update, Write, Otherwise
      <3>3. CASE WriteFails(u) \/ Confirm(u) \/ DeleteShared(u)
        BY <2>1, <3>3 DEF TypeOK, Update, WriteFails, Confirm, DeleteShared
      <3>4. CASE DeleteLocal(u)
        BY <2>1, <3>4 DEF TypeOK, Update, DeleteLocal
      <3>q. QED
        BY <3>1, <3>2, <3>3, <3>4 DEF UpdateStep
    <2>q. QED
      BY <2>1, <2>2, <2>e, <2>3, <2>4
  <1>p. update[u].path # "saml"
    BY <1>0 DEF Update
  <1>1. CASE BeginUpdate(u)
    <2>1. update'[u].pc = "write" /\ update'[u].ended = update[u].ended
      BY <1>0, <1>1 DEF BeginUpdate, TypeOK, Update
    <2>q. QED
      BY <1>0, <1>1, <2>1 DEF BeginUpdate, LogoutInv, ClockInv, WrittenInv, SharedInv,
         LocalInv, LateInv, Logout, Ended, Excused, Live, cache, history
  <1>n. CASE NothingToRevoke(u)
    <2>1. /\ update'[u].pc \in {"already", "lost"} /\ update'[u].ended = update[u].ended
          /\ update'[u].pc = "already" => session = NoSession \/ session.revoked
      <3>1. PICK step \in {"already", "lost"}, path \in Paths :
               /\ update' = [update EXCEPT ![u] = [@ EXCEPT !.pc = step, !.path = path]]
               /\ step = "already" => path \in {"rp", "sub", "saml"} /\ ~Loads(path)
        BY <1>n, BeginForms
      <3>2. update'[u].pc = step /\ update'[u].ended = update[u].ended
        BY <1>0, <3>1 DEF TypeOK, Update
      <3>q. QED
        BY <3>1, <3>2 DEF Loads
    <2>q. QED
      BY <1>0, <1>n, <2>1 DEF NothingToRevoke, LogoutInv, ClockInv, WrittenInv, SharedInv,
         LocalInv, LateInv, Logout, Ended, Excused, Live, cache, history
  <1>c. CASE Confirm(u)
    <2>1. /\ update[u].pc = "confirm" /\ update'[u].pc \in {"already", "shared", "lost"}
          /\ update'[u].ended = update[u].ended
      BY <1>0, <1>c DEF Confirm, UpdateAt, TypeOK, Update
    <2>q. QED
      BY <1>0, <1>c, <2>1 DEF Confirm, LogoutInv, ClockInv, WrittenInv, SharedInv,
         LocalInv, LateInv, Logout, Ended, Excused, Live, cache, history
  <1>2. CASE Write(u) \/ WriteFails(u)
    <2>0. update[u].pc = "write"
      BY <1>2 DEF Write, WriteFails, UpdateAt
    <2>1. /\ Logout(u) => /\ update'[u].pc \in {"confirm", "shared", "already", "lost", "refused"}
                          /\ update'[u].ended = update[u].ended
          /\ update'[u].ended \in {update[u].ended, now}
      BY <1>0, <1>2, <1>p DEF Write, WriteFails, Otherwise, Logout, TypeOK, Update
    <2>2. UNCHANGED <<l1, l2, lateFill, lostDelete>>
      BY <1>2 DEF Write, WriteFails, cache, history
    <2>3. Written(u) = NoSession \/ (Logout(u) \/ session.revoked => Written(u).revoked)
      BY DEF Written, Revokes, Logout, TypeOK, Session
    <2>4. /\ session' \in {session, Written(u)}
          /\ update'[u].pc \in {"confirm", "shared", "already"} => session' = Written(u)
      BY <1>0, <1>2 DEF Write, WriteFails, TypeOK, Update
    <2>5. session = NoSession => Written(u) = NoSession
      BY DEF Written
    <2>w. WrittenInv'
      BY <1>0, <2>0, <2>1, <2>3, <2>4, <2>5 DEF LogoutInv, WrittenInv, Logout
    <2>q. QED
      BY <1>0, <2>0, <2>1, <2>2, <2>w DEF LogoutInv, ClockInv, SharedInv,
         LocalInv, LateInv, Logout, Ended, Excused, Live
  <1>3. CASE DeleteShared(u)
    <2>1. /\ update[u].pc = "shared" /\ update'[u].pc = "local"
          /\ update'[u].ended = update[u].ended
          /\ UNCHANGED <<session, l1>> /\ (l2' = NoEntry \/ Excused')
      BY <1>0, <1>3 DEF DeleteShared, UpdateAt, Excused, TypeOK, Update
    <2>2. l2' \in {l2, NoEntry}
      BY <1>3 DEF DeleteShared
    <2>q. QED
      BY <1>0, <2>1, <2>2 DEF LogoutInv, ClockInv, WrittenInv, SharedInv,
         LocalInv, LateInv, Logout, Ended, Live
  <1>4. CASE DeleteLocal(u)
    <2>1. /\ update[u].pc = "local" /\ update'[u].pc = "done" /\ update'[u].ended = now
          /\ UNCHANGED <<session, l2, lateFill, lostDelete>>
          /\ l1'[update[u].node] = NoEntry
          /\ \A n \in Nodes : l1'[n] \in {l1[n], NoEntry}
      BY <1>0, <1>4 DEF DeleteLocal, UpdateAt, TypeOK, Update, history
    <2>c. ClockInv'
      BY <1>0, <2>1 DEF LogoutInv, ClockInv
    <2>w. WrittenInv' /\ SharedInv'
      BY <1>0, <2>1 DEF LogoutInv, WrittenInv, SharedInv, Logout, Live, Excused
    <2>l. LocalInv'
      <3>1. \A v \in Updates : update[v].node \in Nodes
        BY DEF TypeOK, Update
      <3>q. QED
        BY <1>0, <2>1, <3>1 DEF LogoutInv, ClockInv, LocalInv, Logout, Ended, Live, Excused
    <2>t. LateInv'
      <3>1. \A r \in Requests : request[r].at <= now /\ request[r].at \in Nat
        BY DEF CopyInv, TypeOK, Request
      <3>q. QED
        BY <1>0, <2>1, <3>1, NumberAssumption DEF LogoutInv, LateInv, Logout, Ended, Excused
    <2>q. QED
      BY <2>c, <2>w, <2>l, <2>t DEF LogoutInv
  <1>q. QED
    BY <1>1, <1>n, <1>2, <1>c, <1>3, <1>4 DEF UpdateStep

\* Eviction, the user's deletion and the clock keep the logout invariant.
LEMMA OtherStepLogout ==
    ASSUME TypeOK, LogoutInv,
           (\E n \in Nodes : Evict(n)) \/ DeleteUser \/ Tick \/ UNCHANGED vars
    PROVE  LogoutInv'
  <1>1. /\ UNCHANGED <<request, update, l2, lateFill, lostDelete>>
        /\ session' \in {session, NoSession}
        /\ \A n \in Nodes : l1'[n] \in {l1[n], NoEntry}
    BY DEF Evict, DeleteUser, Tick, vars, TypeOK, cache, history
  <1>2. now' \in Nat /\ now \in Nat /\ now' >= now
    <2>1. UNCHANGED now \/ Tick
      BY DEF Evict, DeleteUser, vars
    <2>q. QED
      BY <2>1, NumberAssumption DEF Tick, TypeOK
  <1>3. /\ \A u \in Updates : update[u].node \in Nodes /\ update[u].ended \in Nat
        /\ \A n \in Nodes : l1[n] # NoEntry => l1[n].until \in Nat
        /\ l2 # NoEntry => l2.until \in Nat
    <2>1. \A u \in Updates : update[u].node \in Nodes /\ update[u].ended \in Nat
      BY DEF TypeOK, Update
    <2>2. \A e \in Entry : e.until \in Nat
      BY DEF Entry
    <2>q. QED
      BY <2>1, <2>2 DEF TypeOK
  <1>c. ClockInv'
    BY <1>1, <1>2, <1>3, NumberAssumption DEF LogoutInv, ClockInv
  <1>w. WrittenInv' /\ SharedInv'
    BY <1>1, <1>2, <1>3 DEF LogoutInv, WrittenInv, SharedInv, Logout, Live, Excused
  <1>l. LocalInv'
    BY <1>1, <1>2, <1>3 DEF LogoutInv, LocalInv, Logout, Ended, Live, Excused
  <1>t. LateInv'
    BY <1>1 DEF LogoutInv, LateInv, Logout, Ended, Excused
  <1>q. QED
    BY <1>c, <1>w, <1>l, <1>t DEF LogoutInv

\* Every step keeps the logout invariant.
LEMMA NextLogout ==
    ASSUME "saml" \notin Paths
    PROVE  TypeOK /\ CopyInv /\ LogoutInv /\ [Next]_vars => LogoutInv'
  BY RequestStepLogout, UpdateStepLogout, OtherStepLogout DEF Next, RequestStep, UpdateStep

\* The logout invariant holds throughout.
LEMMA LogoutInvariant ==
    ASSUME "saml" \notin Paths
    PROVE  Spec => [](TypeOK /\ CopyInv /\ LogoutInv)
  <1>1. Init => TypeOK /\ CopyInv /\ LogoutInv
    BY InitType, InitCopy, InitLogout
  <1>2. TypeOK /\ CopyInv /\ LogoutInv /\ [Next]_vars => (TypeOK /\ CopyInv /\ LogoutInv)'
    BY NextType, NextLogout
  <1>q. QED
    BY <1>1, <1>2, PTL DEF Spec

\* On every path but SAML's, a logout that answered that it ended the session
\* leaves no usable copy in the shared cache or in its own process, unless a
\* delete was lost or a request cached a copy it had read before; and one that
\* answered success without a delete and without an error of the repository found
\* the session revoked or gone: for any number of processes, requests and logouts.
THEOREM LogoutClears ==
    ASSUME "saml" \notin Paths
    PROVE  Spec => []LogoutClearsBothLayers
  <1>1. LogoutInv => LogoutClearsBothLayers
    BY DEF LogoutInv, WrittenInv, SharedInv, LocalInv, LogoutClearsBothLayers, Excused, Ended
  <1>q. QED
    BY <1>1, LogoutInvariant, PTL

\* On the same paths every process refuses the session once SESSION_L1_TTL
\* has passed since the logout, with the same two exceptions.
THEOREM LogoutReaches ==
    ASSUME "saml" \notin Paths
    PROVE  Spec => []LogoutReachesEveryProcess
  <1>1. TypeOK /\ CopyInv /\ LogoutInv => LogoutReachesEveryProcess
    <2> SUFFICES ASSUME TypeOK, CopyInv, LogoutInv,
                        NEW r \in Requests, NEW u \in Updates,
                        At(r, "asserted"), Ended(u), Logout(u), ~Excused,
                        ~(request[r].at < update[u].ended + L1Ttl)
                 PROVE  FALSE
      BY DEF LogoutReachesEveryProcess, Excused
    <2>1. request[r].at >= update[u].ended + L1Ttl
      BY NumberAssumption DEF TypeOK, Request, Update
    <2>2. request[r].copy.revoked
      BY <2>1 DEF LogoutInv, LateInv, At
    <2>q. QED
      BY <2>2 DEF CopyInv, Valid, At
  <1>q. QED
    BY <1>1, LogoutInvariant, PTL

\* No step of any caller brings a revoked session or the row of a deleted
\* user back: a refresh writes only the idle deadline (sql/session.rs).
THEOREM RevocationFinal == Spec => RevocationIsFinal
  <1>1. ASSUME TypeOK, [Next]_vars
        PROVE  [/\ session = NoSession => session' = NoSession
                /\ session # NoSession /\ session.revoked =>
                      session' = NoSession \/ session'.revoked]_vars
    <2>1. \/ UNCHANGED session \/ session' = NoSession
          \/ \E u \in Updates : session' = Written(u)
      BY <1>1 DEF Next, vars, Begin, LookupLocal, LookupShared, ReadRepository,
         SetShared, PutLocal, Validate, ReadUser, BeginUpdate, NothingToRevoke,
         Write, WriteFails, Confirm,
         DeleteShared, DeleteLocal, Evict, DeleteUser, Tick
    <2>q. QED
      BY <1>1, <2>1 DEF Written, TypeOK, Session
  <1>q. QED
    BY <1>1, CacheTypeCorrect, PTL DEF Spec, RevocationIsFinal
-----------------------------------------------------------------------------
(***************************************************************************)
(* Deadlines.  NoAssertionPastTheDeadlines speaks of the request that was   *)
(* asserted; what every step keeps is where its idle deadline comes from:   *)
(* the row, every cached copy and every copy a request holds carry the idle *)
(* deadline of the login or one that some refresh has computed.             *)
(***************************************************************************)
Granted(i) ==
    \/ i = IdleTimeout
    \/ \E u \in Updates : update[u].path = "refresh" /\ update[u].pc # "idle"
                             /\ update[u].idle = i

GrantedInv ==
    /\ session # NoSession => Granted(session.idle)
    /\ \A n \in Nodes : l1[n] # NoEntry => Granted(l1[n].copy.idle)
    /\ l2 # NoEntry => Granted(l2.copy.idle)
    /\ \A r \in Requests :
          request[r].copy # NoSession => Granted(request[r].copy.idle)

\* A deadline that was granted stays granted: an update computes its idle
\* deadline once, when it begins.
LEMMA GrantedStays ==
    ASSUME TypeOK, [Next]_vars, NEW i, Granted(i)
    PROVE  Granted(i)'
  <1>1. CASE i = IdleTimeout
    BY <1>1 DEF Granted
  <1>2. CASE UNCHANGED update
    BY <1>2 DEF Granted
  <1>3. CASE \E u \in Updates : UpdateStep(u)
    <2>1. PICK u \in Updates : UpdateStep(u)
      BY <1>3
    <2>2. SUFFICES ASSUME NEW v \in Updates, update[v].path = "refresh",
                          update[v].pc # "idle", update[v].idle = i
                   PROVE  update'[v].path = "refresh" /\ update'[v].pc # "idle"
                             /\ update'[v].idle = i
      BY <1>1 DEF Granted
    <2>3. update[u] \in Update /\ update \in [Updates -> Update]
      BY DEF TypeOK
    <2>4. CASE v # u
      <3>1. update'[v] = update[v]
        BY <2>1, <2>3, <2>4
        DEF UpdateStep, BeginUpdate, NothingToRevoke, Write, WriteFails, Confirm, DeleteShared,
         DeleteLocal
      <3>q. QED
        BY <2>2, <3>1
    <2>5. CASE v = u
      <3>1. CASE BeginUpdate(u) \/ NothingToRevoke(u)
        BY <2>2, <2>5, <3>1 DEF BeginUpdate, NothingToRevoke, UpdateAt
      <3>2. CASE Write(u)
        BY <2>2, <2>3, <2>5, <3>2 DEF Write, Otherwise, Update
      <3>3. CASE WriteFails(u) \/ Confirm(u) \/ DeleteShared(u)
        BY <2>2, <2>3, <2>5, <3>3 DEF WriteFails, Confirm, DeleteShared, Update
      <3>4. CASE DeleteLocal(u)
        BY <2>2, <2>3, <2>5, <3>4 DEF DeleteLocal, Update
      <3>q. QED
        BY <2>1, <3>1, <3>2, <3>3, <3>4 DEF UpdateStep
    <2>q. QED
      BY <2>4, <2>5
  <1>q. QED
    <2>1. UNCHANGED update \/ \E u \in Updates : UpdateStep(u)
      BY DEF Next, vars, UpdateStep, Begin, LookupLocal, LookupShared, ReadRepository,
         SetShared, PutLocal, Validate, ReadUser, Evict, DeleteUser, Tick
    <2>q. QED
      BY <1>2, <1>3, <2>1

\* What a request's step puts into a cache is the copy it holds.
LEMMA RequestCaches ==
    ASSUME TypeOK, NEW r \in Requests, RequestStep(r)
    PROVE  /\ l2' \in {l2, NoEntry} \/ (SetShared(r) /\ l2'.copy = request[r].copy)
           /\ \A n \in Nodes : \/ l1'[n] \in {l1[n], NoEntry}
                               \/ PutLocal(r) /\ l1'[n].copy = request[r].copy
  <1>0. request[r] \in Request /\ l1 \in [Nodes -> Entry \cup {NoEntry}]
    BY DEF TypeOK
  <1>1. CASE LookupLocal(r)
    BY <1>0, <1>1 DEF LookupLocal
  <1>2. CASE SetShared(r)
    BY <1>2 DEF SetShared
  <1>3. CASE PutLocal(r)
    BY <1>0, <1>3 DEF PutLocal, Request
  <1>4. CASE LookupShared(r)
    BY <1>4 DEF LookupShared
  <1>5. CASE Begin(r) \/ ReadRepository(r) \/ Validate(r) \/ ReadUser(r)
    BY <1>5 DEF Begin, ReadRepository, Validate, ReadUser, cache
  <1>q. QED
    BY <1>1, <1>2, <1>3, <1>4, <1>5 DEF RequestStep

\* What a request comes to hold it had, or takes from the row or a cache.
LEMMA RequestTakes ==
    ASSUME TypeOK, NEW r \in Requests, RequestStep(r)
    PROVE  \/ request'[r].copy = request[r].copy
           \/ session # NoSession /\ request'[r].copy = session
           \/ l2 # NoEntry /\ request'[r].copy = l2.copy
           \/ \E n \in Nodes : l1[n] # NoEntry /\ request'[r].copy = l1[n].copy
  <1>0. request[r] \in Request /\ request \in [Requests -> Request]
    BY DEF TypeOK
  <1>s. ASSUME NEW step, Step(r, step) PROVE request'[r].copy = request[r].copy
    BY <1>0, <1>s DEF Step, Request
  <1>d. ASSUME NEW s, Decode(r, s) PROVE request'[r].copy = s
    BY <1>0, <1>d DEF Decode, Request
  <1>1. CASE Begin(r)
    BY <1>0, <1>1 DEF Begin, Request
  <1>2. CASE LookupLocal(r)
    BY <1>0, <1>s, <1>d, <1>2 DEF LookupLocal, Live, Request
  <1>3. CASE LookupShared(r)
    BY <1>s, <1>d, <1>3 DEF LookupShared, Live
  <1>4. CASE ReadRepository(r)
    <2>1. CASE Step(r, "refused")
      BY <1>s, <2>1
    <2>2. CASE /\ session # NoSession
               /\ request' = [request EXCEPT ![r] = [@ EXCEPT !.copy = session,
                      !.pc = IF Cacheable(session, request[r].at)
                             THEN "set" ELSE "validate",
                      !.live = request[r].live /\ Valid(session, request[r].at)]]
      BY <1>0, <2>2 DEF Request
    <2>q. QED
      BY <1>4, <2>1, <2>2 DEF ReadRepository
  <1>5. CASE SetShared(r) \/ PutLocal(r) \/ Validate(r) \/ ReadUser(r)
    BY <1>s, <1>5 DEF SetShared, PutLocal, Validate, ReadUser
  <1>q. QED
    BY <1>1, <1>2, <1>3, <1>4, <1>5 DEF RequestStep

\* Every step keeps the origin of the idle deadlines.
LEMMA NextGranted ==
    ASSUME TypeOK, CopyInv, GrantedInv, [Next]_vars
    PROVE  GrantedInv'
  <1>g. \A i : Granted(i) => Granted(i)'
    BY GrantedStays
  <1>1. CASE \E r \in Requests : RequestStep(r)
    <2>1. PICK r \in Requests : RequestStep(r)
      BY <1>1
    <2>2. UNCHANGED session /\ \A p \in Requests \ {r} : request'[p] = request[p]
      BY <2>1 DEF TypeOK, RequestStep, Begin, LookupLocal, LookupShared, ReadRepository,
         SetShared, PutLocal, Validate, ReadUser, Step, Decode
    <2>3. request'[r].copy # NoSession => Granted(request'[r].copy.idle)
      BY <2>1, RequestTakes DEF GrantedInv
    <2>4. SetShared(r) \/ PutLocal(r) => request[r].copy # NoSession
      BY NameAssumption DEF SetShared, PutLocal, At, CopyInv
    <2>5. /\ l2' # NoEntry => Granted(l2'.copy.idle)
          /\ \A n \in Nodes : l1'[n] # NoEntry => Granted(l1'[n].copy.idle)
      BY <2>1, <2>4, RequestCaches DEF GrantedInv
    <2>q. QED
      BY <1>g, <2>2, <2>3, <2>5 DEF GrantedInv
  <1>2. CASE \E u \in Updates : UpdateStep(u)
    <2>1. PICK u \in Updates : UpdateStep(u)
      BY <1>2
    <2>2. /\ UNCHANGED request /\ l2' \in {l2, NoEntry}
          /\ \A n \in Nodes : l1'[n] \in {l1[n], NoEntry}
      BY <2>1 DEF UpdateStep, BeginUpdate, NothingToRevoke,
         Write, WriteFails, Confirm, DeleteShared,
         DeleteLocal,
         cache, TypeOK
    <2>3. session' # session => session' = Written(u) /\ update[u].pc = "write"
      BY <2>1 DEF UpdateStep, BeginUpdate, NothingToRevoke,
         Write, WriteFails, Confirm, DeleteShared,
         DeleteLocal, UpdateAt
    <2>4. update[u].pc = "write" /\ Written(u) # NoSession => Granted(Written(u).idle)
      BY DEF Written, Revokes, GrantedInv, Granted, TypeOK, Session
    <2>5. session' # NoSession => Granted(session'.idle)
      BY <2>3, <2>4 DEF GrantedInv
    <2>q. QED
      BY <1>g, <2>2, <2>5 DEF GrantedInv
  <1>3. CASE (\E n \in Nodes : Evict(n)) \/ DeleteUser \/ Tick \/ UNCHANGED vars
    <2>1. /\ UNCHANGED <<request, l2>> /\ session' \in {session, NoSession}
          /\ \A n \in Nodes : l1'[n] \in {l1[n], NoEntry}
      BY <1>3 DEF Evict, DeleteUser, Tick, vars, TypeOK, cache
    <2>q. QED
      BY <1>g, <2>1 DEF GrantedInv
  <1>q. QED
    BY <1>1, <1>2, <1>3 DEF Next, RequestStep, UpdateStep

\* At the start only the row exists, with the deadline of the login.
LEMMA InitGranted == Init => GrantedInv
  <1> SUFFICES ASSUME Init PROVE GrantedInv
    OBVIOUS
  <1>1. session.idle = IdleTimeout /\ \A r \in Requests : request[r].copy = NoSession
    BY DEF Init
  <1>2. l2 = NoEntry /\ \A n \in Nodes : l1[n] = NoEntry
    BY DEF Init
  <1>q. QED
    BY <1>1, <1>2 DEF GrantedInv, Granted

\* No assertion is made for a request that came at or past the absolute
\* deadline, or past every idle deadline the login or a refresh granted,
\* whatever copy it was made from (decode_cached_session,
\* validate_assertion_session).
THEOREM DeadlinesHold == Spec => []NoAssertionPastTheDeadlines
  <1>1. Init => TypeOK /\ CopyInv /\ GrantedInv
    BY InitType, InitCopy, InitGranted
  <1>2. TypeOK /\ CopyInv /\ GrantedInv /\ [Next]_vars => (TypeOK /\ CopyInv /\ GrantedInv)'
    BY NextType, NextGranted
  <1>3. TypeOK /\ CopyInv /\ GrantedInv => NoAssertionPastTheDeadlines
    <2> SUFFICES ASSUME TypeOK, CopyInv, GrantedInv, NEW r \in Requests, At(r, "asserted")
                 PROVE  /\ request[r].at < AbsoluteEnd
                        /\ \/ request[r].at < IdleTimeout
                           \/ \E u \in Updates : update[u].path = "refresh"
                                                    /\ request[r].at < update[u].idle
      BY DEF NoAssertionPastTheDeadlines
    <2>1. /\ request[r].copy # NoSession
          /\ request[r].at < AbsoluteEnd /\ request[r].at < request[r].copy.idle
      <3>1. request[r].copy \in Session /\ request[r].at \in Nat
        BY DEF CopyInv, At, TypeOK, Request
      <3>q. QED
        BY <3>1, NameAssumption, NumberAssumption DEF CopyInv, At, Valid, Session
    <2>2. Granted(request[r].copy.idle)
      BY <2>1 DEF GrantedInv
    <2>q. QED
      BY <2>1, <2>2 DEF Granted
  <1>q. QED
    BY <1>1, <1>2, <1>3, PTL DEF Spec

(***************************************************************************)
(* Service.  LiveSessionIsServed is not inductive either: as long as no     *)
(* fill was slow, an entry leaves its cache by the deadline of the copy it  *)
(* holds, so what a request of a live session takes from a cache is valid   *)
(* by the request's own clock, and a user is missing only with the row.     *)
(***************************************************************************)
InTime(e) == e # NoEntry => e.until <= Deadline(e.copy)

Unserved == session = NoSession \/ faults < MaxFaults \/ slowFill

ServedInv ==
    /\ slowFill \/ (InTime(l2) /\ \A n \in Nodes : InTime(l1[n]))
    /\ user \/ session = NoSession
    /\ \A r \in Requests : request[r].live =>
          /\ request[r].pc \in {"set", "put", "validate"} =>
                Valid(request[r].copy, request[r].at) \/ slowFill
          /\ request[r].pc = "refused" => Unserved

\* The excuses last: no fault comes back, a fill that was slow stays so, and
\* the row of a deleted user does not return.
LEMMA UnservedStays ==
    ASSUME TypeOK, [Next]_vars
    PROVE  /\ slowFill => slowFill'
           /\ session = NoSession => session' = NoSession
           /\ Unserved => Unserved'
  <1>1. slowFill => slowFill'
    BY DEF Next, vars, history, Begin, LookupLocal, LookupShared, ReadRepository, Fills,
       SetShared, PutLocal, Validate, ReadUser, BeginUpdate, NothingToRevoke,
       Write, WriteFails, Confirm,
       DeleteShared, DeleteLocal, Evict, DeleteUser, Tick
  <1>2. session = NoSession => session' = NoSession
    <2>1. \/ UNCHANGED session \/ session' = NoSession
          \/ \E u \in Updates : session' = Written(u)
      BY DEF Next, vars, Begin, LookupLocal, LookupShared, ReadRepository,
         SetShared, PutLocal, Validate, ReadUser, BeginUpdate, NothingToRevoke,
         Write, WriteFails, Confirm,
         DeleteShared, DeleteLocal, Evict, DeleteUser, Tick
    <2>q. QED
      BY <2>1 DEF Written
  <1>3. faults < MaxFaults => faults' < MaxFaults
    <2>1. UNCHANGED faults \/ Fault
      BY DEF Next, vars, history, Begin, LookupLocal, LookupShared, ReadRepository,
         SetShared, PutLocal, Validate, ReadUser, BeginUpdate, NothingToRevoke,
         Write, WriteFails, Confirm,
         DeleteShared, DeleteLocal, Evict, DeleteUser, Tick
    <2>q. QED
      BY <2>1, NumberAssumption DEF Fault, TypeOK
  <1>q. QED
    BY <1>1, <1>2, <1>3 DEF Unserved

\* A fill that is not slow leaves its cache by the deadline of its copy.
LEMMA FillInTime ==
    ASSUME TypeOK, CopyInv, NEW r \in Requests, request[r].pc \in {"set", "put"},
           request[r].at = now, NEW e,
           \/ e = [copy |-> request[r].copy,
                   until |-> now + Ttl(request[r].copy, request[r].at)]
           \/ e = [copy |-> request[r].copy,
                   until |-> now + Earlier(Ttl(request[r].copy, request[r].at), L1Ttl)]
    PROVE  InTime(e)
  <1>1. request[r].copy \in Session /\ now \in Nat
    BY DEF CopyInv, TypeOK
  <1>2. e.copy = request[r].copy
    OBVIOUS
  <1>3. PICK d \in Nat : d = Deadline(request[r].copy)
    BY <1>1, NumberAssumption DEF Deadline, Earlier, Session
  <1>4. e.until = now + (d - now) \/ e.until = now + Earlier(d - now, L1Ttl)
    BY <1>3 DEF Ttl
  <1>5. e.until <= d
    BY <1>1, <1>4, NumberAssumption DEF Earlier
  <1>q. QED
    BY <1>2, <1>3, <1>5 DEF InTime

\* A live entry that leaves in time is valid for every request that has begun.
LEMMA HitIsValid ==
    ASSUME TypeOK, CopyInv, NEW r \in Requests, NEW e \in Entry, Live(e), InTime(e)
    PROVE  /\ Valid(e.copy, request[r].at)
           /\ IsActive(e.copy, request[r].at)
  <1>1. e.copy.revoked = FALSE /\ e.copy.idle \in Nat /\ e.until \in Nat
    BY DEF Entry
  <1>2. request[r].at \in Nat /\ request[r].at <= now /\ now \in Nat
    BY DEF TypeOK, CopyInv, Request
  <1>3. e.until > now /\ e.until <= Deadline(e.copy)
    BY DEF Live, InTime
  <1>4. request[r].at < e.copy.idle /\ request[r].at < AbsoluteEnd
    BY <1>1, <1>2, <1>3, NumberAssumption DEF Deadline, Earlier
  <1>q. QED
    BY <1>1, <1>2, <1>4, NumberAssumption DEF Valid, IsActive

\* A step of a request keeps the entries in time.
LEMMA RequestInTime ==
    ASSUME TypeOK, CopyInv, ServedInv, NEW r \in Requests, RequestStep(r), ~slowFill'
    PROVE  InTime(l2)' /\ \A n \in Nodes : InTime(l1[n])'
  <1>0. request[r] \in Request /\ l1 \in [Nodes -> Entry \cup {NoEntry}] /\ now \in Nat
        /\ request[r].at \in Nat /\ request[r].at <= now
    BY DEF TypeOK, Request, CopyInv
  <1>1. ~slowFill
    BY DEF RequestStep, Begin, LookupLocal, LookupShared, ReadRepository, Fills,
       SetShared, PutLocal, Validate, ReadUser, history
  <1>2. InTime(l2) /\ \A n \in Nodes : InTime(l1[n])
    BY <1>1 DEF ServedInv
  <1>3. InTime(NoEntry)
    BY DEF InTime
  <1>4. CASE LookupLocal(r)
    BY <1>0, <1>2, <1>3, <1>4 DEF LookupLocal, InTime, Deadline
  <1>5. CASE SetShared(r)
    <2>1. CASE UNCHANGED l2
      BY <1>2, <1>5, <2>1 DEF SetShared, InTime, Deadline
    <2>2. CASE Fills(r) /\ l2' = [copy |-> request[r].copy,
                                  until |-> now + Ttl(request[r].copy, request[r].at)]
      <3>0. ~(now > request[r].at)
        BY Zenon, <2>2 DEF Fills
      <3>1. request[r].at = now /\ request[r].pc = "set"
        BY <1>0, <1>5, <3>0 DEF SetShared, At
      <3>2. InTime(l2')
        BY <2>2, <3>1, FillInTime
      <3>q. QED
        BY <1>2, <1>5, <3>2 DEF SetShared, InTime, Deadline
    <2>q. QED
      BY <1>5, <2>1, <2>2 DEF SetShared
  <1>6. CASE PutLocal(r)
    <2>0. ~(now > request[r].at)
      BY Zenon, <1>6 DEF Fills, PutLocal
    <2>1. request[r].at = now /\ request[r].pc = "put"
      BY <1>0, <1>6, <2>0 DEF PutLocal, At
    <2>2. PICK e : e = [copy |-> request[r].copy,
                        until |-> now + Earlier(Ttl(request[r].copy, request[r].at), L1Ttl)]
      OBVIOUS
    <2>3. InTime(e)
      BY <2>1, <2>2, FillInTime
    <2>4. \A n \in Nodes : l1'[n] = l1[n] \/ l1'[n] = e
      BY <1>0, <1>6, <2>2 DEF PutLocal, Request
    <2>q. QED
      BY <1>2, <1>6, <2>3, <2>4 DEF PutLocal, InTime, Deadline
  <1>7. CASE LookupShared(r)
    BY <1>2, <1>3, <1>7 DEF LookupShared, InTime, Deadline
  <1>8. CASE Begin(r) \/ ReadRepository(r) \/ Validate(r) \/ ReadUser(r)
    BY <1>2, <1>8 DEF Begin, ReadRepository, Validate, ReadUser, cache, InTime, Deadline
  <1>q. QED
    BY <1>4, <1>5, <1>6, <1>7, <1>8 DEF RequestStep

\* What a request of a live session holds after its step is valid, and if the
\* step refuses it there is an excuse.
LEMMA RequestServed ==
    ASSUME TypeOK, CopyInv, ServedInv, NEW r \in Requests, RequestStep(r),
           request'[r].live
    PROVE  /\ request'[r].pc \in {"set", "put", "validate"} =>
                 Valid(request'[r].copy, request'[r].at) \/ slowFill
           /\ request'[r].pc = "refused" =>
                 session = NoSession \/ faults' < MaxFaults \/ slowFill
  <1>0. request[r] \in Request /\ request \in [Requests -> Request]
        /\ l1 \in [Nodes -> Entry \cup {NoEntry}] /\ l2 \in Entry \cup {NoEntry}
    BY DEF TypeOK
  <1>f. Fault => faults' < MaxFaults
    BY NumberAssumption DEF Fault, TypeOK
  <1>s. ASSUME NEW step, Step(r, step)
        PROVE  /\ request'[r].pc = step /\ (request'[r].live => request[r].live)
               /\ request'[r].copy = request[r].copy /\ request'[r].at = request[r].at
    BY <1>0, <1>s DEF Step, Request
  <1>d. ASSUME NEW e \in Entry \cup {NoEntry}, Live(e), InTime(e) \/ slowFill, Decode(r, e.copy)
        PROVE  slowFill \/ (request'[r].pc = "validate" /\ Valid(request'[r].copy, request'[r].at))
    <2>1. CASE slowFill
      BY <2>1
    <2>2. CASE InTime(e)
      <3>1. Valid(e.copy, request[r].at) /\ IsActive(e.copy, request[r].at)
        BY <1>d, <2>2, HitIsValid DEF Live
      <3>q. QED
        BY <1>0, <1>d, <3>1 DEF Decode, Request
    <2>q. QED
      BY <1>d, <2>1, <2>2
  <1>1. CASE Begin(r)
    BY <1>0, <1>1 DEF Begin, Request
  <1>2. CASE LookupLocal(r)
    <2>1. CASE Live(l1[request[r].node])
      BY <1>0, <1>2, <1>d, <2>1 DEF LookupLocal, ServedInv, Request
    <2>2. CASE ~Live(l1[request[r].node])
      BY <1>2, <1>s, <2>2 DEF LookupLocal
    <2>q. QED
      BY <2>1, <2>2
  <1>3. CASE LookupShared(r)
    <2>1. CASE Live(l2) /\ Decode(r, l2.copy)
      BY <1>0, <1>d, <2>1 DEF ServedInv
    <2>2. CASE Step(r, "read")
      BY <1>s, <2>2
    <2>q. QED
      BY <1>3, <2>1, <2>2 DEF LookupShared
  <1>4. CASE ReadRepository(r)
    <2>1. CASE Step(r, "refused") /\ (session = NoSession \/ Fault)
      BY <1>f, <1>s, <2>1
    <2>2. CASE /\ session # NoSession
               /\ request' = [request EXCEPT ![r] = [@ EXCEPT !.copy = session,
                      !.pc = IF Cacheable(session, request[r].at)
                             THEN "set" ELSE "validate",
                      !.live = request[r].live /\ Valid(session, request[r].at)]]
      BY <1>0, <2>2 DEF Request
    <2>q. QED
      BY <1>4, <2>1, <2>2 DEF ReadRepository
  <1>5. CASE SetShared(r) \/ PutLocal(r)
    <2>1. request[r].pc \in {"set", "put"} /\ request'[r].pc \in {"put", "validate"}
          /\ request[r].live
          /\ request'[r].copy = request[r].copy /\ request'[r].at = request[r].at
      BY <1>5, <1>s DEF SetShared, PutLocal, At
    <2>q. QED
      BY <2>1 DEF ServedInv
  <1>6. CASE Validate(r)
    <2>1. request[r].live /\ request[r].pc = "validate"
      BY <1>6, <1>s DEF Validate, At
    <2>2. Valid(request[r].copy, request[r].at) \/ slowFill
      BY <2>1 DEF ServedInv
    <2>3. CASE Valid(request[r].copy, request[r].at)
      <3>1. request'[r].pc = "user"
        BY <1>6, <1>s, <2>3 DEF Validate
      <3>q. QED
        BY <3>1
    <2>4. CASE slowFill
      BY <2>4
    <2>q. QED
      BY <2>2, <2>3, <2>4
  <1>7. CASE ReadUser(r)
    <2>1. CASE Step(r, IF user THEN "asserted" ELSE "refused")
      <3>1. CASE user
        BY <1>s, <2>1, <3>1
      <3>2. CASE ~user
        BY <1>s, <2>1, <3>2 DEF ServedInv
      <3>q. QED
        BY <3>1, <3>2
    <2>2. CASE Fault /\ Step(r, "refused")
      BY <1>f, <1>s, <2>2
    <2>q. QED
      BY <1>7, <2>1, <2>2 DEF ReadUser
  <1>q. QED
    BY <1>1, <1>2, <1>3, <1>4, <1>5, <1>6, <1>7 DEF RequestStep

\* Every step keeps the service invariant.
LEMMA NextServed ==
    ASSUME TypeOK, CopyInv, ServedInv, [Next]_vars
    PROVE  ServedInv'
  <1>u. /\ slowFill => slowFill'
        /\ session = NoSession => session' = NoSession
        /\ Unserved => Unserved'
    BY UnservedStays
  <1>v. user' \/ session' = NoSession
    <2>1. UNCHANGED user \/ DeleteUser
      BY DEF Next, vars, Begin, LookupLocal, LookupShared, ReadRepository,
         SetShared, PutLocal, Validate, ReadUser, BeginUpdate, NothingToRevoke,
         Write, WriteFails, Confirm,
         DeleteShared, DeleteLocal, Evict, Tick
    <2>q. QED
      BY <1>u, <2>1 DEF ServedInv, DeleteUser
  <1>1. CASE \E r \in Requests : RequestStep(r)
    <2>1. PICK r \in Requests : RequestStep(r)
      BY <1>1
    <2>2. UNCHANGED session /\ \A p \in Requests \ {r} : request'[p] = request[p]
      BY <2>1 DEF TypeOK, RequestStep, Begin, LookupLocal, LookupShared, ReadRepository,
         SetShared, PutLocal, Validate, ReadUser, Step, Decode
    <2>3. slowFill' \/ (InTime(l2)' /\ \A n \in Nodes : InTime(l1[n])')
      BY <2>1, RequestInTime
    <2>4. ASSUME NEW p \in Requests, request'[p].live
          PROVE  /\ request'[p].pc \in {"set", "put", "validate"} =>
                       Valid(request'[p].copy, request'[p].at) \/ slowFill'
                 /\ request'[p].pc = "refused" => Unserved'
      <3>1. CASE p = r
        BY <1>u, <2>1, <2>2, <2>4, <3>1, RequestServed DEF Unserved
      <3>2. CASE p # r
        BY <1>u, <2>2, <2>4, <3>2 DEF ServedInv
      <3>q. QED
        BY <3>1, <3>2
    <2>q. QED
      BY <1>v, <2>3, <2>4 DEF ServedInv, Valid
  <1>2. CASE (\E u \in Updates : UpdateStep(u))
             \/ (\E n \in Nodes : Evict(n)) \/ DeleteUser \/ Tick \/ UNCHANGED vars
    <2>1. /\ UNCHANGED request /\ l2' \in {l2, NoEntry}
          /\ \A n \in Nodes : l1'[n] \in {l1[n], NoEntry}
      BY <1>2 DEF UpdateStep, BeginUpdate, NothingToRevoke,
         Write, WriteFails, Confirm, DeleteShared,
         DeleteLocal,
         Evict, DeleteUser, Tick, vars, cache, TypeOK
    <2>2. slowFill' \/ (InTime(l2)' /\ \A n \in Nodes : InTime(l1[n])')
      BY <1>u, <2>1 DEF ServedInv, InTime, Deadline
    <2>q. QED
      BY <1>u, <1>v, <2>1, <2>2 DEF ServedInv, Valid
  <1>q. QED
    BY <1>1, <1>2 DEF Next, RequestStep, UpdateStep

\* At the start nothing is cached and no request is of a live session.
LEMMA InitServed == Init => ServedInv
  <1> SUFFICES ASSUME Init PROVE ServedInv
    OBVIOUS
  <1>1. user /\ \A r \in Requests : request[r].live = FALSE
    BY DEF Init
  <1>2. l2 = NoEntry /\ \A n \in Nodes : l1[n] = NoEntry
    BY DEF Init
  <1>q. QED
    BY <1>1, <1>2 DEF ServedInv, InTime

\* A request that came while the row was valid is refused only for what the
\* row says when the request reads it, for a deleted row, after a fault, or
\* after a fill that took longer than a tick of the clock: never for an
\* out-of-date copy in a cache (browser.rs session_cache_put).
THEOREM LiveServed == Spec => []LiveSessionIsServed
  <1>1. Init => TypeOK /\ CopyInv /\ ServedInv
    BY InitType, InitCopy, InitServed
  <1>2. TypeOK /\ CopyInv /\ ServedInv /\ [Next]_vars => (TypeOK /\ CopyInv /\ ServedInv)'
    BY NextType, NextServed
  <1>3. ServedInv => LiveSessionIsServed
    BY DEF ServedInv, Unserved, LiveSessionIsServed, At
  <1>q. QED
    BY <1>1, <1>2, <1>3, PTL DEF Spec
=============================================================================
