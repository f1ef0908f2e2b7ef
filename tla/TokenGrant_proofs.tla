-------------------------- MODULE TokenGrant_proofs --------------------------
(***************************************************************************)
(* Proofs about TokenGrant for any number of calls, codes and legacy       *)
(* families, any TTLs and bounds.                                          *)
(***************************************************************************)
EXTENDS TokenGrant, TLAPS

(***************************************************************************)
(* The inductive invariant.  Its heart is Chain: the call that has         *)
(* consumed a credential and not yet answered is the current hash of its   *)
(* family, and nobody can present that hash before the call answers.       *)
(***************************************************************************)
CodeSteps == {"mark", "codeUser", "create"}
RefreshSteps == {"session", "user", "rotate", "persist", "revoke"}

\* What a call of the refresh grant presents is a refresh token: the type
\* invariant needs it, a rollback writes the presented hash back.
CredKind == \A k \in Calls : pc[k] \in RefreshSteps => cred[k] \in Tokens

\* What a call presents, and the family it works on.
Presented ==
    \A k \in Calls :
        /\ pc[k] = "idle" <=> cred[k] = NoCred
        /\ pc[k] \in CodeSteps => cred[k] \in Codes
        /\ cred[k] \in Tokens => Presentable(cred[k]) /\ fam[k] = FamilyOf(cred[k])
        /\ cred[k] \notin Tokens => fam[k] = k
        /\ reply[k] = "ok" => k \in issued
        /\ k \in issued => pc[k] = "done"

\* A family's row exists before any other call can work on it.
RowsExist ==
    /\ \A l \in Legacy : family[l].row # "none"
    /\ \A k \in Calls :
         /\ pc[k] \in {"idle"} \cup CodeSteps => family[k].row = "none"
         /\ cred[k] \in Tokens \/ pc[k] = "access" \/ k \in issued =>
              family[fam[k]].row # "none"

\* The history variable owner follows the rows: an owner is past its claim, a
\* call past its claim is the owner, and what is owned is spent.
OwnerRuns ==
    \A c \in Creds : \A k \in Calls : owner[c] = k =>
        cred[k] = c /\ pc[k] \in {"codeUser", "create", "access", "done"}

ClaimantOwns ==
    \A k \in Calls :
        pc[k] \in {"codeUser", "create", "access"} \/ k \in issued =>
            owner[cred[k]] = k

OwnedIsSpent ==
    /\ \A c \in Codes : owner[c] # NoCall => code[c] # "fresh"
    /\ \A h \in Tokens : owner[h] # NoCall => family[FamilyOf(h)].hash # h

Owned == OwnerRuns /\ ClaimantOwns /\ OwnedIsSpent

Chain ==
    /\ \A k \in Calls : pc[k] \in {"persist", "access"} => family[fam[k]].hash = k
    /\ \A k \in Calls : pc[k] = "persist" => owner[cred[k]] = NoCall
    /\ \A k \in late : family[fam[k]].revoked /\ family[fam[k]].hash = k

ClaimInv == Presented /\ RowsExist /\ Owned /\ Chain

-----------------------------------------------------------------------------
(* Types *)

\* The family a call works on has a row of the right type.
LEMMA FamilyOfType ==
    ASSUME TypeOK, NEW h \in Tokens
    PROVE  FamilyOf(h) \in Families
  BY DEF TypeOK, FamilyOf, Tokens, Families

\* revoke_token_family leaves a family row well typed.
LEMMA RevokedType ==
    ASSUME TypeOK, NEW f \in Families
    PROVE  Revoked(f) \in [Families -> Family]
  <1>1. family \in [Families -> Family] /\ family[f] \in Family
    BY DEF TypeOK
  <1>2. [family[f] EXCEPT !.revoked = TRUE] \in Family
    BY <1>1 DEF Family
  <1>3. CASE family[f].row = "live"
    <2>1. Revoked(f) = [family EXCEPT ![f] = [family[f] EXCEPT !.revoked = TRUE]]
      BY <1>1, <1>3 DEF Revoked
    <2> QED BY <1>1, <1>2, <2>1
  <1> QED BY <1>1, <1>3 DEF Revoked

\* update_token_family_refresh_hash leaves a family row well typed.
LEMMA RotatedType ==
    ASSUME NEW r \in Family, NEW h \in Tokens, NEW d \in Deadlines
    PROVE  [r EXCEPT !.hash = h, !.deadline = d] \in Family
  <1>1. [r EXCEPT !.hash = h] \in Family
    BY DEF Family
  <1>2. [[r EXCEPT !.hash = h] EXCEPT !.deadline = d] \in Family
    BY <1>1 DEF Family
  <1> QED BY <1>2

ControlOK ==
    /\ pc' \in [Calls -> Steps] /\ reply' \in [Calls -> Replies]
    /\ faults' \in 0..MaxFaults

\* How a call moves on: to its next step, to an answer, or to a failure.
LEMMA ControlType ==
    ASSUME TypeOK, NEW k \in Calls,
           \/ \E s \in Steps : Goto(k, s)
           \/ \E r \in Replies : Answer(k, r)
           \/ FailCall(k)
    PROVE  ControlOK
  <1>1. CASE \E s \in Steps : Goto(k, s)
    BY <1>1 DEF ControlOK, TypeOK, Goto
  <1>2. CASE \E r \in Replies : Answer(k, r)
    BY <1>2 DEF ControlOK, TypeOK, Answer, Steps
  <1>3. CASE FailCall(k)
    <2>1. faults' \in 0..MaxFaults
      BY <1>3, TimeAssumption DEF TypeOK, FailCall
    <2> QED
      BY <1>3, <2>1 DEF ControlOK, TypeOK, FailCall, Steps, Replies
  <1> QED BY <1>1, <1>2, <1>3

\* The token endpoint starts well typed.
LEMMA InitType == Init => TypeOK
  <1> SUFFICES ASSUME Init PROVE TypeOK
    OBVIOUS
  <1>1. family \in [Families -> Family]
    BY DEF Init, Families, Tokens, Family, Deadlines
  <1>2. access \in [Calls -> Access]
    BY DEF Init, Access
  <1>3. seen \in [Calls -> [hash: Tokens, deadline: Deadlines]]
    BY DEF Init, Tokens, Deadlines
  <1> QED
    BY <1>1, <1>2, <1>3, TimeAssumption, NameAssumption
    DEF Init, TypeOK, Times, Steps, Replies, Creds, Tokens, Families, Backends

\* Every step of a call keeps the type invariant.
LEMMA CallStepType ==
    ASSUME TypeOK, CredKind, NEW k \in Calls, CallStep(k)
    PROVE  TypeOK'
  <1>a. k \in Tokens /\ k \in Families /\ fam[k] \in Families
    BY DEF TypeOK, Tokens, Families
  <1>1. ASSUME NEW c \in Codes, RedeemCode(k, c) PROVE TypeOK'
    BY <1>1 DEF TypeOK, RedeemCode, Goto, Answer, Steps, Replies, Creds, rows
  <1>2. CASE MarkCodeUsed(k)
    <2>1. ControlOK
      BY <1>2, ControlType DEF MarkCodeUsed, Steps, Replies
    <2>2. code' \in [Codes -> {"fresh", "used", "gone"}]
             /\ owner' \in [Creds -> Calls \cup {NoCall}]
      BY <1>2 DEF TypeOK, MarkCodeUsed
    <2> QED
      BY <1>2, <2>1, <2>2 DEF TypeOK, ControlOK, MarkCodeUsed, locals
  <1>3. CASE ReadCodeUser(k)
    <2>1. now \in Nat /\ \A ttl \in RefreshTTLs : now + ttl \in Nat
      BY TimeAssumption DEF TypeOK, Times
    <2>2. ControlOK
      BY <1>3, ControlType DEF ReadCodeUser, Steps, Replies
    <2>3. at' \in [Calls -> Times]
      BY <1>3 DEF TypeOK, ReadCodeUser
    <2>4. deadline' \in [Calls -> Nat]
      <3>1. CASE user
        <4>1. PICK ttl \in RefreshTTLs :
                 deadline' = [deadline EXCEPT ![k] = now + ttl]
          BY <1>3, <3>1 DEF ReadCodeUser
        <4> QED BY <2>1, <4>1 DEF TypeOK
      <3>2. CASE ~user
        BY <1>3, <3>2 DEF TypeOK, ReadCodeUser
      <3> QED BY <3>1, <3>2
    <2> QED
      BY <1>3, <2>2, <2>3, <2>4 DEF TypeOK, ControlOK, ReadCodeUser, rows, history
  <1>4. CASE CreateFamily(k)
    <2>1. [row |-> "live", hash |-> k, revoked |-> FALSE,
           deadline |-> deadline[k], linked |-> cred[k] \in LinkedCodes] \in Family
      BY <1>a DEF TypeOK, Family, Deadlines
    <2>2. family' \in [Families -> Family]
      BY <1>4, <1>a, <2>1 DEF TypeOK, CreateFamily
    <2>3. ControlOK
      BY <1>4, ControlType DEF CreateFamily, Steps, Replies
    <2> QED
      BY <1>4, <2>2, <2>3 DEF TypeOK, ControlOK, CreateFamily, locals, history
  <1>5. ASSUME NEW h \in Tokens, PresentRefresh(k, h) PROVE TypeOK'
    <2>1. FamilyOf(h) \in Families
      BY FamilyOfType
    <2>2. PICK ttl \in RefreshTTLs :
            /\ deadline' = [deadline EXCEPT
                 ![k] = RefreshDeadline(family[FamilyOf(h)], ttl)]
            /\ \/ Goto(k, "session")
               \/ Goto(k, AfterSession(h, family[FamilyOf(h)].hash))
               \/ Answer(k, "refused")
      BY <1>5 DEF PresentRefresh
    <2>3. RefreshDeadline(family[FamilyOf(h)], ttl) \in Nat
      BY <2>1, TimeAssumption DEF TypeOK, RefreshDeadline, Family, Deadlines
    <2>4. pc' \in [Calls -> Steps] /\ reply' \in [Calls -> Replies]
             /\ faults' \in 0..MaxFaults
      BY <2>2 DEF TypeOK, Goto, Answer, AfterSession, Steps, Replies
    <2>5. seen' \in [Calls -> [hash: Tokens, deadline: Deadlines]]
      BY <1>5, <2>1 DEF TypeOK, PresentRefresh, Family
    <2>6. barred' \subseteq Calls
      BY <1>5 DEF TypeOK, PresentRefresh
    <2>7. /\ cred' \in [Calls -> Creds \cup {NoCred}]
          /\ fam' \in [Calls -> Families] /\ at' \in [Calls -> Times]
      BY <1>5, <2>1 DEF TypeOK, PresentRefresh, Creds
    <2> QED
      BY <1>5, <2>2, <2>3, <2>4, <2>5, <2>6, <2>7 DEF TypeOK, PresentRefresh, rows
  <1>6. CASE ReadSession(k)
    BY <1>6
    DEF TypeOK, ReadSession, Goto, Answer, AfterSession, Steps, Replies, rows,
        locals, history
  <1>7. CASE ReadUser(k)
    BY <1>7
    DEF TypeOK, ReadUser, Goto, Answer, Steps, Replies, rows, locals, history
  <1>8. CASE Rotate(k)
    <2>1. family' \in [Families -> Family]
      <3>1. [family[fam[k]] EXCEPT !.hash = k, !.deadline = deadline[k]] \in Family
        BY <1>a, RotatedType DEF TypeOK, Deadlines
      <3> QED BY <1>8, <1>a, <3>1 DEF TypeOK, Rotate
    <2>2. owner' \in [Creds -> Calls \cup {NoCall}]
      BY <1>8 DEF TypeOK, Rotate
    <2>3. ControlOK
      BY <1>8, ControlType DEF Rotate, Steps, Replies
    <2> QED
      BY <1>8, <2>1, <2>2, <2>3 DEF TypeOK, ControlOK, Rotate, locals
  <1>9. CASE PersistRotation(k)
    <2>2. owner' \in [Creds -> Calls \cup {NoCall}]
      BY <1>9 DEF TypeOK, PersistRotation
    <2>3. ControlOK
      BY <1>9, ControlType DEF PersistRotation, Steps, Replies
    <2>1. family' \in [Families -> Family]
      <3>1. cred[k] \in Tokens
        BY <1>9 DEF PersistRotation, CredKind, RefreshSteps
      <3>2. [family[fam[k]] EXCEPT !.hash = cred[k],
                                   !.deadline = seen[k].deadline] \in Family
        BY <1>a, <3>1, RotatedType DEF TypeOK
      <3> QED BY <1>9, <1>a, <3>2 DEF TypeOK, PersistRotation
    <2> QED
      BY <1>9, <2>1, <2>2, <2>3 DEF TypeOK, ControlOK, PersistRotation, locals
  <1>10. CASE RevokeReusedFamily(k)
    BY <1>10, <1>a, RevokedType, TimeAssumption
    DEF TypeOK, RevokeReusedFamily, Steps, Replies, locals, history
  <1>11. CASE CreateAccess(k)
    <2>1. [row |-> "live", exp |-> AccessExpiry(k)] \in Access
      BY TimeAssumption DEF TypeOK, Access, AccessExpiry, Earlier, Times
    <2>2. access' \in [Calls -> Access]
      BY <1>11, <2>1 DEF TypeOK, CreateAccess
    <2>3. ControlOK
      BY <1>11, ControlType DEF CreateAccess, Steps, Replies
    <2>4. issued' \subseteq Calls /\ late' \subseteq issued'
      BY <1>11 DEF TypeOK, CreateAccess
    <2> QED
      BY <1>11, <2>2, <2>3, <2>4 DEF TypeOK, ControlOK, CreateAccess, locals
  <1>12. CASE OperationFails(k)
    BY <1>12, TimeAssumption
    DEF TypeOK, OperationFails, FailCall, Steps, Replies, rows, locals, history
  <1> QED
    BY <1>1, <1>2, <1>3, <1>4, <1>5, <1>6, <1>7, <1>8, <1>9, <1>10, <1>11,
       <1>12 DEF CallStep

\* Every step of the token endpoint and of the other actors keeps the types.
LEMMA NextType ==
    ASSUME TypeOK, CredKind, [Next]_vars
    PROVE  TypeOK'
  <1>1. ASSUME NEW k \in Calls, RevokeAccess(k) PROVE TypeOK'
    BY <1>1 DEF TypeOK, RevokeAccess, Access, locals, history
  <1>2. ASSUME NEW f \in Families, RevokeFamily(f) PROVE TypeOK'
    BY <1>2, RevokedType DEF TypeOK, RevokeFamily, locals, history
  <1>3. CASE EndSession
    BY <1>3 DEF TypeOK, EndSession, locals, history
  <1>4. CASE DeleteUser
    <2>1. family' \in [Families -> Family]
      <3>1. \A f \in Families : Gone(family[f]) \in Family
        BY DEF TypeOK, Gone, Family
      <3> QED BY <1>4, <3>1 DEF DeleteUser
    <2>2. access' \in [Calls -> Access]
      BY <1>4 DEF TypeOK, DeleteUser, Gone, Access
    <2> QED
      BY <1>4, <2>1, <2>2 DEF TypeOK, DeleteUser, locals, history
  <1>5. CASE Tick
    BY <1>5, TimeAssumption DEF TypeOK, Tick, Times, locals, history
  <1>6. CASE UNCHANGED vars
    BY <1>6 DEF TypeOK, vars, rows, locals, history
  <1> QED
    BY <1>1, <1>2, <1>3, <1>4, <1>5, <1>6, CallStepType DEF Next

\* A call presents a code or a refresh token, as its grant type says.
LEMMA NextCredKind ==
    ASSUME TypeOK, CredKind, [Next]_vars
    PROVE  CredKind'
  <1>1. ASSUME NEW k \in Calls, CallStep(k) PROVE CredKind'
    <2>1. ASSUME NEW c \in Codes, RedeemCode(k, c) PROVE CredKind'
      BY <2>1 DEF TypeOK, CredKind, RefreshSteps, RedeemCode, Goto, Answer
    <2>2. CASE MarkCodeUsed(k) \/ ReadCodeUser(k) \/ CreateFamily(k)
      BY <2>2
      DEF TypeOK, CredKind, RefreshSteps, MarkCodeUsed, ReadCodeUser,
          CreateFamily, Goto, Answer, FailCall, locals
    <2>3. ASSUME NEW h \in Tokens, PresentRefresh(k, h) PROVE CredKind'
      BY <2>3 DEF TypeOK, CredKind, RefreshSteps, PresentRefresh, Goto, Answer
    <2>4. CASE ReadSession(k) \/ ReadUser(k) \/ Rotate(k)
      BY <2>4
      DEF TypeOK, CredKind, RefreshSteps, ReadSession, ReadUser, Rotate, Goto,
          Answer, FailCall, AfterSession, locals
    <2>5. CASE PersistRotation(k) \/ RevokeReusedFamily(k) \/ CreateAccess(k)
                 \/ OperationFails(k)
      BY <2>5
      DEF TypeOK, CredKind, RefreshSteps, PersistRotation, RevokeReusedFamily,
          CreateAccess, OperationFails, Goto, Answer, FailCall, locals
    <2> QED
      BY <1>1, <2>1, <2>2, <2>3, <2>4, <2>5 DEF CallStep
  <1>2. CASE UNCHANGED <<pc, cred>>
    BY <1>2 DEF CredKind
  <1> QED
    BY <1>1, <1>2
    DEF Next, RevokeAccess, RevokeFamily, EndSession, DeleteUser, Tick, vars,
        locals

\* Every variable of the token endpoint's model keeps its type, for any sets of
\* calls, codes and families (token_grant.rs, token_issue.rs, revoke.rs).
THEOREM GrantTypeCorrect == Spec => []TypeOK
  <1>1. Init => CredKind
    BY DEF Init, CredKind, RefreshSteps
  <1> QED
    BY <1>1, InitType, NextType, NextCredKind, PTL DEF Spec

-----------------------------------------------------------------------------
(* Claims *)

\* Until a call has answered nobody else holds the refresh token it mints.
LEMMA UnansweredIsUnknown ==
    ASSUME TypeOK, Presented, Owned, NEW k \in Calls, pc[k] # "done"
    PROVE  /\ ~Presentable(k) /\ owner[k] = NoCall
           /\ \A j \in Calls : cred[j] # k
  <1>1. ~Presentable(k)
    BY NameAssumption DEF Presented, Presentable
  <1>2. \A j \in Calls : cred[j] # k
    BY <1>1 DEF Presented, Tokens
  <1>3. k \in Creds
    BY DEF Creds, Tokens
  <1> QED
    BY <1>1, <1>2, <1>3 DEF TypeOK, Owned, OwnerRuns

\* The writes to a family row that keep the row: rotation and revocation.
LEMMA RotatedFields ==
    ASSUME NEW r \in Family, NEW h, NEW d
    PROVE  LET q == [r EXCEPT !.hash = h, !.deadline = d]
           IN  /\ q.row = r.row /\ q.revoked = r.revoked
               /\ q.hash = h /\ q.deadline = d
  <1> DEFINE p == [r EXCEPT !.hash = h]
  <1>1. p.row = r.row /\ p.revoked = r.revoked /\ p.hash = h
    BY DEF Family
  <1>2. [r EXCEPT !.hash = h, !.deadline = d] = [p EXCEPT !.deadline = d]
    OBVIOUS
  <1> QED BY <1>1, <1>2 DEF Family

\* Frame of a step of call k that issues nothing.
Frame(k) ==
    /\ \A j \in Calls : j # k => pc'[j] = pc[j] /\ reply'[j] = reply[j]
    /\ reply'[k] = "ok" => reply[k] = "ok"
    /\ UNCHANGED <<code, cred, fam, issued, late>>

\* What the three actions that write an existing family do to the rows.
RotateEffect(k) ==
    /\ Frame(k) /\ pc[k] = "rotate"
    /\ \A g \in Families :
         family'[g].row = family[g].row /\ family'[g].revoked = family[g].revoked
    /\ \/ UNCHANGED <<family, owner>> /\ pc'[k] \in {"revoke", "done"}
       \/ /\ owner[cred[k]] = NoCall /\ family[fam[k]].hash = cred[k]
          /\ ~family[fam[k]].revoked
          /\ \A g \in Families : family'[g].hash =
               IF g = fam[k] THEN k ELSE family[g].hash
          /\ \/ pc'[k] = "persist" /\ UNCHANGED owner
             \/ /\ pc'[k] \in {"access", "done"}
                /\ owner' = [owner EXCEPT ![cred[k]] = k]

\* A rotation in memory moves the hash of one family from the old to the new.
LEMMA RotateRows ==
    ASSUME TypeOK, CredKind, Owned, Presented, NEW k \in Calls, Rotate(k)
    PROVE  RotateEffect(k)
  <1>0. fam[k] \in Families /\ family[fam[k]] \in Family
    BY DEF TypeOK
  <1>f. Frame(k) /\ pc[k] = "rotate"
    BY DEF TypeOK, Frame, Rotate, Goto, Answer, FailCall, locals
  <1>1. CASE family[fam[k]].row = "live" /\ RotationValid(family[fam[k]], cred[k])
    <2>1. cred[k] \in Tokens /\ fam[k] = FamilyOf(cred[k])
      BY DEF Rotate, CredKind, RefreshSteps, Presented
    <2>2. owner[cred[k]] = NoCall /\ family[fam[k]].hash = cred[k]
             /\ ~family[fam[k]].revoked
      BY <1>1, <2>1 DEF RotationValid, Owned, OwnedIsSpent
    <2>3. family' = [family EXCEPT ![fam[k]] =
                        [@ EXCEPT !.hash = k, !.deadline = deadline[k]]]
      BY <1>1 DEF Rotate
    <2>4. \A g \in Families :
            /\ family'[g].row = family[g].row /\ family'[g].revoked = family[g].revoked
            /\ family'[g].hash = IF g = fam[k] THEN k ELSE family[g].hash
      BY <1>0, <2>3, RotatedFields DEF TypeOK
    <2>5. \/ pc'[k] = "persist" /\ UNCHANGED owner
          \/ /\ pc'[k] \in {"access", "done"}
             /\ owner' = [owner EXCEPT ![cred[k]] = k]
      BY <1>1 DEF Rotate, Goto, FailCall, TypeOK
    <2> QED BY <1>f, <2>2, <2>4, <2>5 DEF RotateEffect
  <1>2. CASE ~(family[fam[k]].row = "live" /\ RotationValid(family[fam[k]], cred[k]))
    BY <1>2, <1>f DEF RotateEffect, Rotate, Goto, Answer, TypeOK
  <1> QED BY <1>1, <1>2

PersistEffect(k) ==
    /\ Frame(k) /\ pc[k] = "persist"
    /\ \A g \in Families :
         family'[g].row = family[g].row /\ family'[g].revoked = family[g].revoked
    /\ \/ /\ UNCHANGED family /\ pc'[k] = "access"
          /\ owner' = [owner EXCEPT ![cred[k]] = k]
       \/ /\ \A g \in Families : \/ family'[g].hash = family[g].hash
                                 \/ g = fam[k] /\ family'[g].hash = cred[k]
          /\ pc'[k] = "done" /\ UNCHANGED owner

\* The file store's rotation, once persisted or rolled back, changes no other row.
LEMMA PersistRows ==
    ASSUME TypeOK, NEW k \in Calls, PersistRotation(k)
    PROVE  PersistEffect(k)
  <1>0. fam[k] \in Families /\ family[fam[k]] \in Family
    BY DEF TypeOK
  <1>f. Frame(k) /\ pc[k] = "persist"
    BY DEF TypeOK, Frame, PersistRotation, Goto, FailCall, locals
  <1>1. CASE UNCHANGED family
    BY <1>1, <1>f DEF PersistEffect, PersistRotation, Goto, FailCall, TypeOK
  <1>2. CASE family' = [family EXCEPT ![fam[k]] =
               [@ EXCEPT !.hash = cred[k], !.deadline = seen[k].deadline]]
    <2>1. \A g \in Families :
            /\ family'[g].row = family[g].row /\ family'[g].revoked = family[g].revoked
            /\ family'[g].hash = IF g = fam[k] THEN cred[k] ELSE family[g].hash
      BY <1>0, <1>2, RotatedFields DEF TypeOK
    <2>2. CASE UNCHANGED family
      BY <1>1, <2>2
    <2>3. CASE family' # family
      BY <1>f, <2>1, <2>3 DEF PersistEffect, PersistRotation, FailCall, TypeOK
    <2> QED BY <2>2, <2>3
  <1> QED BY <1>1, <1>2 DEF PersistRotation

\* Revocation changes no field but `revoked`.
LEMMA RevokedFields ==
    ASSUME TypeOK, NEW f \in Families, NEW g \in Families
    PROVE  /\ Revoked(f)[g].row = family[g].row
           /\ Revoked(f)[g].hash = family[g].hash
           /\ Revoked(f)[g].deadline = family[g].deadline
           /\ family[g].revoked => Revoked(f)[g].revoked
  BY DEF TypeOK, Revoked, Family

RevokeEffect(k) ==
    /\ Frame(k) /\ pc[k] = "revoke" /\ pc'[k] = "done" /\ UNCHANGED owner
    /\ \A g \in Families :
         family'[g].row = family[g].row /\ family'[g].hash = family[g].hash

\* Revocation leaves the hashes of every family alone.
LEMMA RevokeRows ==
    ASSUME TypeOK, NEW k \in Calls, RevokeReusedFamily(k)
    PROVE  RevokeEffect(k)
  <1>1. fam[k] \in Families
    BY DEF TypeOK
  <1>2. Frame(k) /\ pc[k] = "revoke" /\ pc'[k] = "done" /\ UNCHANGED owner
    BY DEF TypeOK, Frame, RevokeReusedFamily, locals, history
  <1>3. CASE UNCHANGED family
    BY <1>2, <1>3 DEF RevokeEffect
  <1>4. CASE family' = Revoked(fam[k])
    BY <1>1, <1>2, <1>4, RevokedFields DEF RevokeEffect
  <1> QED BY <1>3, <1>4 DEF RevokeReusedFamily

\* A call's step keeps the presented credentials in order.
LEMMA CallStepPresented ==
    ASSUME TypeOK, CredKind, ClaimInv, NEW k \in Calls, CallStep(k)
    PROVE  Presented'
  <1>a. \A j \in Calls : pc[j] # "done" =>
          ~Presentable(j) /\ owner[j] = NoCall /\ \A i \in Calls : cred[i] # j
    BY UnansweredIsUnknown DEF ClaimInv
  <1>b. Rotate(k) => RotateEffect(k)
    BY RotateRows DEF ClaimInv
  <1>c. PersistRotation(k) => PersistEffect(k)
    BY PersistRows
  <1>d. RevokeReusedFamily(k) => RevokeEffect(k)
    BY RevokeRows
  <1> USE NameAssumption
      DEF TypeOK, CredKind, ClaimInv, Creds, Tokens, Families, Presented,
          CodeSteps, RefreshSteps, Presentable, FamilyOf
  <1>1. CASE \E c \in Codes : RedeemCode(k, c)
    BY <1>1
    DEF RedeemCode, Goto, Answer, rows
  <1>2. CASE MarkCodeUsed(k)
    BY <1>2
    DEF MarkCodeUsed, Goto, Answer, FailCall, locals
  <1>3. CASE ReadCodeUser(k)
    BY <1>3
    DEF ReadCodeUser, Goto, Answer, rows, history
  <1>4. CASE CreateFamily(k)
    BY <1>4
    DEF CreateFamily, Goto, Answer, FailCall, locals, history
  <1>5. CASE \E h \in Tokens : PresentRefresh(k, h)
    BY <1>5, <1>a
    DEF PresentRefresh, Goto, Answer, AfterSession, rows
  <1>6. CASE ReadSession(k) \/ ReadUser(k)
    BY <1>6
    DEF ReadSession, ReadUser, Goto, Answer, AfterSession, rows, locals, history
  <1>7. CASE Rotate(k)
    BY <1>7, <1>b
    DEF RotateEffect, Frame
  <1>8. CASE PersistRotation(k)
    BY <1>8, <1>c
    DEF PersistEffect, Frame
  <1>9. CASE RevokeReusedFamily(k)
    BY <1>9, <1>d
    DEF RevokeEffect, Frame
  <1>10. CASE CreateAccess(k)
    BY <1>10, <1>a
    DEF CreateAccess, Answer, FailCall, locals
  <1>11. CASE OperationFails(k)
    BY <1>11
    DEF OperationFails, FailCall, rows, locals, history
  <1> QED
    BY <1>1, <1>2, <1>3, <1>4, <1>5, <1>6, <1>7, <1>8, <1>9, <1>10, <1>11
    DEF CallStep

\* A call's step keeps the rows behind them in order.
LEMMA CallStepRowsExist ==
    ASSUME TypeOK, CredKind, ClaimInv, NEW k \in Calls, CallStep(k)
    PROVE  RowsExist'
  <1>a. \A j \in Calls : pc[j] # "done" =>
          ~Presentable(j) /\ owner[j] = NoCall /\ \A i \in Calls : cred[i] # j
    BY UnansweredIsUnknown DEF ClaimInv
  <1>b. Rotate(k) => RotateEffect(k)
    BY RotateRows DEF ClaimInv
  <1>c. PersistRotation(k) => PersistEffect(k)
    BY PersistRows
  <1>d. RevokeReusedFamily(k) => RevokeEffect(k)
    BY RevokeRows
  <1> USE NameAssumption
      DEF TypeOK, CredKind, ClaimInv, Creds, Tokens, Families, RowsExist,
          CodeSteps, RefreshSteps, Presented, Presentable, FamilyOf
  <1>1. CASE \E c \in Codes : RedeemCode(k, c)
    BY <1>1
    DEF RedeemCode, Goto, Answer, rows
  <1>2. CASE MarkCodeUsed(k)
    BY <1>2
    DEF MarkCodeUsed, Goto, Answer, FailCall, locals
  <1>3. CASE ReadCodeUser(k)
    BY <1>3
    DEF ReadCodeUser, Goto, Answer, rows, history
  <1>4. CASE CreateFamily(k)
    BY <1>4, <1>a
    DEF CreateFamily, Goto, Answer, FailCall, locals, history
  <1>5. CASE \E h \in Tokens : PresentRefresh(k, h)
    BY <1>5, <1>a
    DEF PresentRefresh, Goto, Answer, AfterSession, rows
  <1>6. CASE ReadSession(k) \/ ReadUser(k)
    BY <1>6
    DEF ReadSession, ReadUser, Goto, Answer, AfterSession, rows, locals, history
  <1>7. CASE Rotate(k)
    BY <1>7, <1>b
    DEF RotateEffect, Frame
  <1>8. CASE PersistRotation(k)
    <2>1. /\ \A g \in Families : family'[g].row = family[g].row
          /\ UNCHANGED <<cred, fam, issued>>
          /\ pc[k] = "persist" /\ pc'[k] \in {"access", "done"}
          /\ \A j \in Calls : j # k => pc'[j] = pc[j]
      BY <1>8, <1>c DEF PersistEffect, Frame
    <2>2. cred[k] \in Tokens
      BY <2>1
    <2>3. \A l \in Legacy : family'[l].row # "none"
      BY <2>1
    <2>4. /\ pc'[k] \notin {"idle"} \cup CodeSteps
          /\ family'[fam'[k]].row # "none"
      BY <2>1, <2>2
    <2>5. ASSUME NEW j \in Calls, j # k
          PROVE  /\ pc'[j] \in {"idle"} \cup CodeSteps => family'[j].row = "none"
                 /\ cred'[j] \in Tokens \/ pc'[j] = "access" \/ j \in issued' =>
                      family'[fam'[j]].row # "none"
      BY <2>1, <2>5
    <2> QED BY <2>3, <2>4, <2>5
  <1>9. CASE RevokeReusedFamily(k)
    <2>1. /\ \A g \in Families : family'[g].row = family[g].row
          /\ UNCHANGED <<cred, fam, issued>>
          /\ \A j \in Calls : pc'[j] \in {pc[j], "done"}
      BY <1>9, <1>d DEF RevokeEffect, Frame
    <2>2. \A l \in Legacy : family'[l].row # "none"
      BY <2>1
    <2>3. ASSUME NEW j \in Calls
          PROVE  /\ pc'[j] \in {"idle"} \cup CodeSteps => family'[j].row = "none"
                 /\ cred'[j] \in Tokens \/ pc'[j] = "access" \/ j \in issued' =>
                      family'[fam'[j]].row # "none"
      BY <2>1, <2>3
    <2> QED BY <2>2, <2>3
  <1>10. CASE CreateAccess(k)
    BY <1>10
    DEF CreateAccess, Answer, FailCall, locals
  <1>11. CASE OperationFails(k)
    BY <1>11
    DEF OperationFails, FailCall, rows, locals, history
  <1> QED
    BY <1>1, <1>2, <1>3, <1>4, <1>5, <1>6, <1>7, <1>8, <1>9, <1>10, <1>11
    DEF CallStep

\* A call's step keeps the owners in order.
LEMMA CallStepOwnerRuns ==
    ASSUME TypeOK, CredKind, ClaimInv, NEW k \in Calls, CallStep(k)
    PROVE  OwnerRuns'
  <1>a. \A j \in Calls : pc[j] # "done" =>
          ~Presentable(j) /\ owner[j] = NoCall /\ \A i \in Calls : cred[i] # j
    BY UnansweredIsUnknown DEF ClaimInv
  <1>b. Rotate(k) => RotateEffect(k)
    BY RotateRows DEF ClaimInv
  <1>c. PersistRotation(k) => PersistEffect(k)
    BY PersistRows
  <1>d. RevokeReusedFamily(k) => RevokeEffect(k)
    BY RevokeRows
  <1> USE NameAssumption
      DEF TypeOK, CredKind, ClaimInv, Creds, Tokens, Families, Owned,
          OwnerRuns, Presented, CodeSteps, Presentable
  <1>1. CASE \E c \in Codes : RedeemCode(k, c)
    BY <1>1
    DEF RedeemCode, Goto, Answer, rows
  <1>2. CASE MarkCodeUsed(k)
    <2>1. CASE UNCHANGED owner
      BY <1>2, <2>1 DEF MarkCodeUsed, Goto, Answer, FailCall, locals
    <2>2. CASE owner' = [owner EXCEPT ![cred[k]] = k]
      BY <1>2, <2>2 DEF MarkCodeUsed, Goto, Answer, FailCall, locals
    <2> QED BY <1>2, <2>1, <2>2 DEF MarkCodeUsed
  <1>3. CASE ReadCodeUser(k)
    BY <1>3
    DEF ReadCodeUser, Goto, Answer, rows, history
  <1>4. CASE CreateFamily(k)
    BY <1>4
    DEF CreateFamily, Goto, Answer, FailCall, locals, history
  <1>5. CASE \E h \in Tokens : PresentRefresh(k, h)
    BY <1>5, <1>a
    DEF PresentRefresh, Goto, Answer, AfterSession, rows
  <1>6. CASE ReadSession(k) \/ ReadUser(k)
    BY <1>6
    DEF ReadSession, ReadUser, Goto, Answer, AfterSession, rows, locals, history
  <1>7. CASE Rotate(k)
    <2>1. CASE UNCHANGED owner
      BY <1>7, <1>b, <2>1 DEF RotateEffect, Frame
    <2>2. CASE owner' = [owner EXCEPT ![cred[k]] = k] /\ pc'[k] \in {"access", "done"}
      BY <1>7, <1>b, <2>2 DEF RotateEffect, Frame
    <2> QED BY <1>7, <1>b, <2>1, <2>2 DEF RotateEffect
  <1>8. CASE PersistRotation(k)
    BY <1>8, <1>c
    DEF PersistEffect, Frame
  <1>9. CASE RevokeReusedFamily(k)
    BY <1>9, <1>d
    DEF RevokeEffect, Frame
  <1>10. CASE CreateAccess(k)
    BY <1>10
    DEF CreateAccess, Answer, FailCall, locals
  <1>11. CASE OperationFails(k)
    BY <1>11
    DEF OperationFails, FailCall, rows, locals, history
  <1> QED
    BY <1>1, <1>2, <1>3, <1>4, <1>5, <1>6, <1>7, <1>8, <1>9, <1>10, <1>11
    DEF CallStep

\* A call's step keeps the claimants in order.
LEMMA CallStepClaimantOwns ==
    ASSUME TypeOK, CredKind, ClaimInv, NEW k \in Calls, CallStep(k)
    PROVE  ClaimantOwns'
  <1>a. \A j \in Calls : pc[j] # "done" =>
          ~Presentable(j) /\ owner[j] = NoCall /\ \A i \in Calls : cred[i] # j
    BY UnansweredIsUnknown DEF ClaimInv
  <1>b. Rotate(k) => RotateEffect(k)
    BY RotateRows DEF ClaimInv
  <1>c. PersistRotation(k) => PersistEffect(k)
    BY PersistRows
  <1>d. RevokeReusedFamily(k) => RevokeEffect(k)
    BY RevokeRows
  <1> USE NameAssumption
      DEF TypeOK, CredKind, ClaimInv, Creds, Tokens, Families, Owned,
          OwnerRuns, ClaimantOwns, OwnedIsSpent, Presented, CodeSteps,
          RefreshSteps, Chain
  <1>1. CASE \E c \in Codes : RedeemCode(k, c)
    BY <1>1
    DEF RedeemCode, Goto, Answer, rows
  <1>2. CASE MarkCodeUsed(k)
    BY <1>2
    DEF MarkCodeUsed, Goto, Answer, FailCall, locals
  <1>3. CASE ReadCodeUser(k)
    BY <1>3
    DEF ReadCodeUser, Goto, Answer, rows, history
  <1>4. CASE CreateFamily(k)
    BY <1>4
    DEF CreateFamily, Goto, Answer, FailCall, locals, history
  <1>5. CASE \E h \in Tokens : PresentRefresh(k, h)
    BY <1>5
    DEF PresentRefresh, Goto, Answer, AfterSession, rows
  <1>6. CASE ReadSession(k) \/ ReadUser(k)
    BY <1>6
    DEF ReadSession, ReadUser, Goto, Answer, AfterSession, rows, locals, history
  <1>7. CASE Rotate(k)
    BY <1>7, <1>a, <1>b
    DEF RotateEffect, Frame
  <1>8. CASE PersistRotation(k)
    BY <1>8, <1>a, <1>c
    DEF PersistEffect, Frame
  <1>9. CASE RevokeReusedFamily(k)
    BY <1>9, <1>d
    DEF RevokeEffect, Frame
  <1>10. CASE CreateAccess(k)
    BY <1>10
    DEF CreateAccess, Answer, FailCall, locals
  <1>11. CASE OperationFails(k)
    BY <1>11
    DEF OperationFails, FailCall, rows, locals, history
  <1> QED
    BY <1>1, <1>2, <1>3, <1>4, <1>5, <1>6, <1>7, <1>8, <1>9, <1>10, <1>11
    DEF CallStep

\* A call's step keeps the spent credentials in order.
LEMMA CallStepOwnedIsSpent ==
    ASSUME TypeOK, CredKind, ClaimInv, NEW k \in Calls, CallStep(k)
    PROVE  OwnedIsSpent'
  <1>a. \A j \in Calls : pc[j] # "done" =>
          ~Presentable(j) /\ owner[j] = NoCall /\ \A i \in Calls : cred[i] # j
    BY UnansweredIsUnknown DEF ClaimInv
  <1>b. Rotate(k) => RotateEffect(k)
    BY RotateRows DEF ClaimInv
  <1>c. PersistRotation(k) => PersistEffect(k)
    BY PersistRows
  <1>d. RevokeReusedFamily(k) => RevokeEffect(k)
    BY RevokeRows
  <1> USE NameAssumption
      DEF TypeOK, CredKind, ClaimInv, Creds, Tokens, Families, Owned,
          OwnerRuns, OwnedIsSpent, Presented, CodeSteps, RefreshSteps, Chain,
          Presentable, FamilyOf
  <1>1. CASE \E c \in Codes : RedeemCode(k, c)
    BY <1>1
    DEF RedeemCode, Goto, Answer, rows
  <1>2. CASE MarkCodeUsed(k)
    BY <1>2
    DEF MarkCodeUsed, Goto, Answer, FailCall, locals
  <1>3. CASE ReadCodeUser(k)
    BY <1>3
    DEF ReadCodeUser, Goto, Answer, rows, history
  <1>4. CASE CreateFamily(k)
    BY <1>4, <1>a
    DEF CreateFamily, Goto, Answer, FailCall, locals, history
  <1>5. CASE \E h \in Tokens : PresentRefresh(k, h)
    BY <1>5, <1>a
    DEF PresentRefresh, Goto, Answer, AfterSession, rows
  <1>6. CASE ReadSession(k) \/ ReadUser(k)
    BY <1>6
    DEF ReadSession, ReadUser, Goto, Answer, AfterSession, rows, locals, history
  <1>7. CASE Rotate(k)
    BY <1>7, <1>a, <1>b
    DEF RotateEffect, Frame
  <1>8. CASE PersistRotation(k)
    BY <1>8, <1>a, <1>c
    DEF PersistEffect, Frame
  <1>9. CASE RevokeReusedFamily(k)
    BY <1>9, <1>d
    DEF RevokeEffect, Frame
  <1>10. CASE CreateAccess(k)
    BY <1>10
    DEF CreateAccess, Answer, FailCall, locals
  <1>11. CASE OperationFails(k)
    BY <1>11
    DEF OperationFails, FailCall, rows, locals, history
  <1> QED
    BY <1>1, <1>2, <1>3, <1>4, <1>5, <1>6, <1>7, <1>8, <1>9, <1>10, <1>11
    DEF CallStep

\* A call's step keeps the chain of hashes in order.
LEMMA CallStepChain ==
    ASSUME TypeOK, CredKind, ClaimInv, NEW k \in Calls, CallStep(k)
    PROVE  Chain'
  <1>a. \A j \in Calls : pc[j] # "done" =>
          ~Presentable(j) /\ owner[j] = NoCall /\ \A i \in Calls : cred[i] # j
    BY UnansweredIsUnknown DEF ClaimInv
  <1>b. Rotate(k) => RotateEffect(k)
    BY RotateRows DEF ClaimInv
  <1>c. PersistRotation(k) => PersistEffect(k)
    BY PersistRows
  <1>d. RevokeReusedFamily(k) => RevokeEffect(k)
    BY RevokeRows
  <1> USE NameAssumption
      DEF TypeOK, CredKind, ClaimInv, Creds, Tokens, Families, Chain,
          Presented, RowsExist, CodeSteps, RefreshSteps, Presentable, FamilyOf
  <1>1. CASE \E c \in Codes : RedeemCode(k, c)
    BY <1>1
    DEF RedeemCode, Goto, Answer, rows
  <1>2. CASE MarkCodeUsed(k)
    BY <1>2
    DEF MarkCodeUsed, Goto, Answer, FailCall, locals
  <1>3. CASE ReadCodeUser(k)
    BY <1>3
    DEF ReadCodeUser, Goto, Answer, rows, history
  <1>4. CASE CreateFamily(k)
    BY <1>4, <1>a
    DEF CreateFamily, Goto, Answer, FailCall, locals, history
  <1>5. CASE \E h \in Tokens : PresentRefresh(k, h)
    BY <1>5
    DEF PresentRefresh, Goto, Answer, AfterSession, rows
  <1>6. CASE ReadSession(k) \/ ReadUser(k)
    BY <1>6
    DEF ReadSession, ReadUser, Goto, Answer, AfterSession, rows, locals, history
  <1>7. CASE Rotate(k)
    BY <1>7, <1>a, <1>b
    DEF RotateEffect, Frame
  <1>8. CASE PersistRotation(k)
    BY <1>8, <1>a, <1>c
    DEF PersistEffect, Frame
  <1>9. CASE RevokeReusedFamily(k)
    <2>1. \A j \in late : family'[fam[j]].revoked
      <3> SUFFICES ASSUME NEW j \in late PROVE family'[fam[j]].revoked
        OBVIOUS
      <3>1. fam[j] \in Families /\ fam[k] \in Families /\ family[fam[j]].revoked
        OBVIOUS
      <3>2. CASE UNCHANGED family
        BY <3>1, <3>2
      <3>3. CASE family' = Revoked(fam[k])
        BY <3>1, <3>3 DEF Revoked, Family
      <3> QED BY <1>9, <3>2, <3>3 DEF RevokeReusedFamily
    <2>3. /\ UNCHANGED <<fam, late, cred, owner>>
          /\ \A g \in Families : family'[g].hash = family[g].hash
          /\ \A j \in Calls : pc'[j] \in {pc[j], "done"}
      BY <1>9, <1>d DEF RevokeEffect, Frame
    <2>2. /\ \A j \in Calls : pc'[j] \in {"persist", "access"} =>
                family'[fam'[j]].hash = j
          /\ \A j \in Calls : pc'[j] = "persist" =>
                owner'[cred'[j]] = NoCall
          /\ \A j \in late' : family'[fam'[j]].hash = j
      BY <2>3
    <2> QED BY <2>1, <2>2, <2>3
  <1>10. CASE CreateAccess(k)
    BY <1>10, <1>a
    DEF CreateAccess, Answer, FailCall, locals
  <1>11. CASE OperationFails(k)
    BY <1>11
    DEF OperationFails, FailCall, rows, locals, history
  <1> QED
    BY <1>1, <1>2, <1>3, <1>4, <1>5, <1>6, <1>7, <1>8, <1>9, <1>10, <1>11
    DEF CallStep

\* Before the first call no credential is claimed.
LEMMA InitClaims == Init => ClaimInv
  BY NameAssumption
  DEF Init, ClaimInv, Presented, RowsExist, Owned, OwnerRuns, ClaimantOwns,
      OwnedIsSpent, Chain, CodeSteps, RefreshSteps, Creds, Tokens, Families,
      FamilyOf

\* The other actors only revoke, delete, or do not touch what ClaimInv is about.
LEMMA OtherStepClaims ==
    ASSUME TypeOK, ClaimInv,
           \/ \E k \in Calls : RevokeAccess(k)
           \/ \E f \in Families : RevokeFamily(f)
           \/ EndSession \/ DeleteUser \/ Tick \/ UNCHANGED vars
    PROVE  ClaimInv'
  <1> USE DEF ClaimInv, Presented, RowsExist, Owned, OwnerRuns, ClaimantOwns,
          OwnedIsSpent, Chain, FamilyOf, Presentable
  <1>1. UNCHANGED <<pc, cred, fam, reply, owner, issued, late>>
    BY DEF RevokeAccess, RevokeFamily, EndSession, DeleteUser, Tick, vars, locals,
       history
  <1>2. \A c \in Codes : code'[c] = "fresh" => code[c] = "fresh"
    BY DEF TypeOK, RevokeAccess, RevokeFamily, EndSession, DeleteUser, Tick, vars,
       rows
  <1>3. \A g \in Families :
          /\ family'[g].hash = family[g].hash
          /\ family'[g].row = "none" <=> family[g].row = "none"
    <2>1. CASE \E f \in Families : RevokeFamily(f)
      BY <2>1, RevokedFields DEF RevokeFamily
    <2>2. CASE DeleteUser
      BY <2>2 DEF DeleteUser, Gone, TypeOK, Family
    <2>3. CASE UNCHANGED family
      BY <2>3
    <2> QED
      BY <2>1, <2>2, <2>3 DEF RevokeAccess, EndSession, Tick, vars, rows
  <1>4. \A g \in Families : family[g].revoked => family'[g].revoked
    <2>1. CASE \E f \in Families : RevokeFamily(f)
      BY <2>1, RevokedFields DEF RevokeFamily
    <2>2. CASE DeleteUser
      BY <2>2 DEF DeleteUser, Gone, TypeOK, Family
    <2>3. CASE UNCHANGED family
      BY <2>3
    <2> QED
      BY <2>1, <2>2, <2>3 DEF RevokeAccess, EndSession, Tick, vars, rows
  <1>5. Presented'
    BY <1>1
  <1>6. RowsExist'
    BY <1>1, <1>3 DEF TypeOK, Families
  <1>7. Owned'
    BY <1>1, <1>2, <1>3, FamilyOfType
  <1>8. Chain'
    <2>1. \A k \in late : family'[fam[k]].revoked
      BY <1>4 DEF TypeOK
    <2>2. \A k \in Calls : family'[fam[k]].hash = family[fam[k]].hash
      BY <1>3 DEF TypeOK
    <2> QED BY <1>1, <2>1, <2>2 DEF TypeOK
  <1> QED BY <1>5, <1>6, <1>7, <1>8

GrantInv == TypeOK /\ CredKind /\ ClaimInv

\* Every step keeps the invariant: call steps part by part, the other actors at once.
LEMMA NextGrant ==
    ASSUME GrantInv, [Next]_vars
    PROVE  GrantInv'
  <1>1. TypeOK' /\ CredKind'
    BY NextType, NextCredKind DEF GrantInv
  <1>2. ASSUME NEW k \in Calls, CallStep(k) PROVE ClaimInv'
    BY <1>2, CallStepPresented, CallStepRowsExist, CallStepOwnerRuns,
       CallStepClaimantOwns, CallStepOwnedIsSpent, CallStepChain
    DEF GrantInv, ClaimInv, Owned
  <1> QED
    BY <1>1, <1>2, OtherStepClaims DEF GrantInv, Next

\* The inductive invariant of the token endpoint holds: each presented
\* credential has at most one owner, its row exists, and a spent one is never
\* the current hash of its family (token_grant.rs, token_issue.rs).
THEOREM GrantInvariant == Spec => []GrantInv
  <1>1. Init => GrantInv
    <2>1. Init => CredKind
      BY DEF Init, CredKind, RefreshSteps
    <2> QED BY <2>1, InitType, InitClaims DEF GrantInv
  <1> QED BY <1>1, NextGrant, PTL DEF Spec

\* token_grant.rs:535: for any number of calls and any interleaving, two calls
\* that issued an access token never presented the same code or refresh token.
THEOREM OneWinner == Spec => []OneWinnerPerCredential
  <1>1. GrantInv => OneWinnerPerCredential
    BY DEF GrantInv, TypeOK, ClaimInv, Owned, ClaimantOwns, OneWinnerPerCredential
  <1> QED BY <1>1, GrantInvariant, PTL

\* revoke_token_family races create_access_token: a revoked family gives out at
\* most one more access token, to the call that holds its last rotation.
THEOREM OneAfterRevocation == Spec => []OneTokenAfterRevocation
  <1>1. GrantInv => OneTokenAfterRevocation
    BY DEF GrantInv, TypeOK, ClaimInv, Chain, OneTokenAfterRevocation
  <1> QED BY <1>1, GrantInvariant, PTL

\* sql/user.rs delete_user with the foreign keys of token_families and
\* access_tokens: whatever calls are in flight when a user is deleted, no token
\* family and no access token of theirs is live afterwards.
THEOREM DeletionIsComplete == Spec => []DeletedUserHasNoTokens
  <1> DEFINE Inv == DeletedUserHasNoTokens
  <1>1. Init => Inv
    BY DEF Init, DeletedUserHasNoTokens
  <1>2. ASSUME GrantInv, Inv, [Next]_vars PROVE Inv'
    <2>1. ASSUME NEW k \in Calls, CreateFamily(k) PROVE Inv'
      BY <1>2, <2>1
      DEF CreateFamily, UserForeignKey, DeletedUserHasNoTokens
    <2>2. ASSUME NEW k \in Calls, CreateAccess(k) PROVE Inv'
      BY <1>2, <2>2
      DEF CreateAccess, FamilyForeignKey, DeletedUserHasNoTokens, GrantInv, TypeOK
    <2>3. ASSUME NEW k \in Calls, Rotate(k) PROVE Inv'
      <3>1. RotateEffect(k)
        BY <1>2, <2>3, RotateRows DEF GrantInv, ClaimInv
      <3> QED
        BY <1>2, <2>3, <3>1 DEF RotateEffect, Rotate, DeletedUserHasNoTokens
    <2>4. ASSUME NEW k \in Calls, PersistRotation(k) PROVE Inv'
      <3>1. PersistEffect(k)
        BY <1>2, <2>4, PersistRows DEF GrantInv
      <3> QED
        BY <1>2, <2>4, <3>1
        DEF PersistEffect, PersistRotation, DeletedUserHasNoTokens
    <2>5. ASSUME NEW k \in Calls, RevokeReusedFamily(k) PROVE Inv'
      <3>1. RevokeEffect(k)
        BY <1>2, <2>5, RevokeRows DEF GrantInv
      <3> QED
        BY <1>2, <2>5, <3>1
        DEF RevokeEffect, RevokeReusedFamily, DeletedUserHasNoTokens
    <2>6. ASSUME NEW f \in Families, RevokeFamily(f) PROVE Inv'
      <3>1. \A g \in Families : family'[g].row = family[g].row
        BY <1>2, <2>6, RevokedFields DEF RevokeFamily, GrantInv
      <3> QED
        BY <1>2, <2>6, <3>1 DEF RevokeFamily, DeletedUserHasNoTokens
    <2>7. ASSUME NEW k \in Calls, RevokeAccess(k) PROVE Inv'
      BY <1>2, <2>7 DEF RevokeAccess, DeletedUserHasNoTokens, GrantInv, TypeOK, Access
    <2>8. CASE DeleteUser
      BY <1>2, <2>8
      DEF DeleteUser, Gone, DeletedUserHasNoTokens, GrantInv, TypeOK, Family, Access
    <2>9. CASE UNCHANGED <<backend, user, family, access>>
      BY <1>2, <2>9 DEF DeletedUserHasNoTokens
    <2>10. ASSUME NEW k \in Calls, CallStep(k) PROVE Inv'
      BY <2>1, <2>2, <2>3, <2>4, <2>5, <2>9, <2>10
      DEF CallStep, RedeemCode, MarkCodeUsed, ReadCodeUser, PresentRefresh,
          ReadSession, ReadUser, OperationFails, rows
    <2> QED
      BY <1>2, <2>6, <2>7, <2>8, <2>9, <2>10 DEF Next, EndSession, Tick, vars, rows
  <1> QED BY <1>1, <1>2, GrantInvariant, PTL DEF Spec

-----------------------------------------------------------------------------
(* Reuse, unspent tokens and deadlines *)

\* What a step leaves of a family's row: it exists on, it is live on only if
\* it was, and a revocation stands.  A row that is created was not there.
RowsStay ==
    \A g \in Families :
        \/ family[g].row = "none" /\ g \in Calls /\ CreateFamily(g)
        \/ /\ family'[g].row = "none" <=> family[g].row = "none"
           /\ family[g].row = "gone" => family'[g].row = "gone"
           /\ family'[g].row = "live" => family[g].row = "live"
           /\ family[g].revoked => family'[g].revoked

\* Every step keeps the rows of families and their revocation.
LEMMA NextRowsStay ==
    ASSUME GrantInv, [Next]_vars
    PROVE  RowsStay
  <1> SUFFICES ASSUME NEW g \in Families
               PROVE  \/ family[g].row = "none" /\ g \in Calls /\ CreateFamily(g)
                      \/ /\ family'[g].row = "none" <=> family[g].row = "none"
                         /\ family[g].row = "gone" => family'[g].row = "gone"
                         /\ family'[g].row = "live" => family[g].row = "live"
                         /\ family[g].revoked => family'[g].revoked
    BY DEF RowsStay
  <1>1. CASE UNCHANGED family
    BY <1>1
  <1>2. ASSUME NEW k \in Calls, CreateFamily(k) PROVE
             \/ family[g].row = "none" /\ g \in Calls /\ CreateFamily(g)
             \/ family'[g] = family[g]
    <2>1. family[k].row = "none"
      BY <1>2 DEF CreateFamily, GrantInv, ClaimInv, RowsExist, CodeSteps
    <2> QED BY <1>2, <2>1 DEF CreateFamily, GrantInv, TypeOK
  <1>3. ASSUME NEW k \in Calls, Rotate(k) PROVE
             family'[g].row = family[g].row /\ family'[g].revoked = family[g].revoked
    BY <1>3, RotateRows DEF GrantInv, ClaimInv, RotateEffect
  <1>4. ASSUME NEW k \in Calls, PersistRotation(k) PROVE
             family'[g].row = family[g].row /\ family'[g].revoked = family[g].revoked
    BY <1>4, PersistRows DEF GrantInv, PersistEffect
  <1>5. ASSUME NEW f \in Families, family' = Revoked(f) PROVE
             family'[g].row = family[g].row /\ (family[g].revoked => family'[g].revoked)
    BY <1>5, RevokedFields DEF GrantInv
  <1>6. ASSUME NEW k \in Calls, RevokeReusedFamily(k) PROVE
             \/ UNCHANGED family
             \/ \E f \in Families : family' = Revoked(f)
    BY <1>6 DEF RevokeReusedFamily, GrantInv, TypeOK
  <1>7. CASE DeleteUser
    BY <1>7 DEF DeleteUser, Gone, GrantInv, TypeOK, Family
  <1>8. ASSUME NEW k \in Calls, CallStep(k), ~CreateFamily(k), ~Rotate(k), ~PersistRotation(k),
               ~RevokeReusedFamily(k)
        PROVE  UNCHANGED family
    BY <1>8 DEF CallStep, RedeemCode, MarkCodeUsed, ReadCodeUser, PresentRefresh, ReadSession,
                ReadUser, CreateAccess, OperationFails, rows
  <1>9. ASSUME NEW k \in Calls, CallStep(k)
        PROVE  \/ family[g].row = "none" /\ g \in Calls /\ CreateFamily(g)
               \/ /\ family'[g].row = family[g].row
                  /\ family[g].revoked => family'[g].revoked
    BY <1>2, <1>3, <1>4, <1>5, <1>6, <1>8, <1>9
  <1>10. ASSUME NEW f \in Families, RevokeFamily(f) PROVE family' = Revoked(f)
    BY <1>10 DEF RevokeFamily
  <1> QED BY <1>1, <1>5, <1>7, <1>9, <1>10 DEF Next, RevokeAccess, EndSession, Tick, vars, rows

\* A call that answered "reuse" presented a refresh token, and without a
\* failure its family is revoked.
ReuseAnswered ==
    \A k \in Calls : reply[k] = "reuse" =>
        /\ pc[k] = "done" /\ cred[k] \in Tokens
        /\ faults = MaxFaults => family[fam[k]].row = "gone" \/ family[fam[k]].revoked

\* docs/configuration.md:903: with no failed repository operation a superseded
\* or concurrently redeemed refresh token has revoked its family for good.
THEOREM ReuseRevokes == Spec => []ReuseRevokesFamily
  <1>1. Init => ReuseAnswered
    BY DEF Init, ReuseAnswered
  <1>2. ASSUME GrantInv, ReuseAnswered, [Next]_vars PROVE ReuseAnswered'
    <2> SUFFICES ASSUME NEW j \in Calls, reply'[j] = "reuse"
                 PROVE  /\ pc'[j] = "done" /\ cred'[j] \in Tokens
                        /\ faults' = MaxFaults =>
                              family'[fam'[j]].row = "gone" \/ family'[fam'[j]].revoked
      BY DEF ReuseAnswered
    <2>0. /\ fam[j] \in Families /\ faults \in 0..MaxFaults /\ MaxFaults \in Nat
          /\ faults' = faults \/ faults' = faults - 1
      <3>1. ASSUME NEW k \in Calls, CallStep(k) PROVE faults' = faults \/ faults' = faults - 1
        <4>1. CASE (\E c \in Codes : RedeemCode(k, c)) \/ \E h \in Tokens : PresentRefresh(k, h)
          BY <4>1 DEF RedeemCode, PresentRefresh, Goto, Answer
        <4>2. CASE MarkCodeUsed(k) \/ ReadCodeUser(k) \/ CreateFamily(k)
          BY <4>2 DEF MarkCodeUsed, ReadCodeUser, CreateFamily, Goto, Answer, FailCall
        <4>3. CASE ReadSession(k) \/ ReadUser(k) \/ Rotate(k) \/ PersistRotation(k)
          BY <4>3 DEF ReadSession, ReadUser, Rotate, PersistRotation, Goto, Answer, FailCall
        <4>4. CASE RevokeReusedFamily(k) \/ CreateAccess(k) \/ OperationFails(k)
          BY <4>4 DEF RevokeReusedFamily, CreateAccess, OperationFails, Answer, FailCall
        <4> QED BY <3>1, <4>1, <4>2, <4>3, <4>4 DEF CallStep
      <3>2. faults' = faults \/ faults' = faults - 1
        BY <1>2, <3>1 DEF Next, RevokeAccess, RevokeFamily, EndSession, DeleteUser, Tick, vars
      <3> QED BY <1>2, <3>2, TimeAssumption DEF GrantInv, TypeOK
    <2>1. CASE reply[j] = "reuse" /\ pc'[j] = pc[j] /\ cred'[j] = cred[j] /\ fam'[j] = fam[j]
      <3>1. /\ pc[j] = "done" /\ cred[j] \in Tokens
            /\ faults = MaxFaults => family[fam[j]].row = "gone" \/ family[fam[j]].revoked
        BY <1>2, <2>1 DEF ReuseAnswered
      <3>2. family[fam[j]].row # "none"
        BY <1>2, <3>1 DEF GrantInv, ClaimInv, RowsExist
      <3>3. faults' = MaxFaults => faults = MaxFaults
        BY <2>0
      <3>4. family[fam[j]].row = "gone" \/ family[fam[j]].revoked =>
              family'[fam[j]].row = "gone" \/ family'[fam[j]].revoked
        BY <1>2, <2>0, <3>2, NextRowsStay DEF RowsStay
      <3> QED BY <2>1, <3>1, <3>3, <3>4
    <2>2. CASE RevokeReusedFamily(j)
      <3>1. /\ pc[j] = "revoke" /\ pc'[j] = "done" /\ UNCHANGED <<cred, fam>>
            /\ (family' = Revoked(fam[j]) /\ UNCHANGED faults) \/ faults' # MaxFaults
        BY <1>2, <2>0, <2>2 DEF RevokeReusedFamily, locals, GrantInv, TypeOK
      <3>2. cred[j] \in Tokens
        BY <1>2, <3>1 DEF GrantInv, CredKind, RefreshSteps
      <3>3. family[fam[j]].row \in {"live", "gone"} /\ family[fam[j]] \in Family
        BY <1>2, <2>0, <3>2 DEF GrantInv, TypeOK, Family, ClaimInv, RowsExist
      <3>4. family' = Revoked(fam[j]) => family'[fam[j]].row = "gone" \/ family'[fam[j]].revoked
        BY <1>2, <2>0, <3>3 DEF Revoked, GrantInv, TypeOK, Family
      <3> QED BY <3>1, <3>2, <3>4
    <2>3. ASSUME NEW k \in Calls, CallStep(k), j # k \/ ~RevokeReusedFamily(k)
          PROVE  reply[j] = "reuse" /\ pc'[j] = pc[j] /\ cred'[j] = cred[j] /\ fam'[j] = fam[j]
      <3>1. pc[k] = "idle" => reply[k] # "reuse"
        BY <1>2 DEF ReuseAnswered
      <3> USE <1>2, <2>3, <3>1 DEF GrantInv, TypeOK, ReuseAnswered
      <3>2. CASE \E c \in Codes : RedeemCode(k, c)
        BY <3>2 DEF RedeemCode, Goto, Answer
      <3>3. CASE \E h \in Tokens : PresentRefresh(k, h)
        BY <3>3 DEF PresentRefresh, Goto, Answer
      <3>4. CASE MarkCodeUsed(k) \/ ReadCodeUser(k) \/ CreateFamily(k)
        BY <3>4 DEF MarkCodeUsed, ReadCodeUser, CreateFamily, Goto, Answer, FailCall, locals
      <3>5. CASE ReadSession(k) \/ ReadUser(k) \/ Rotate(k) \/ PersistRotation(k)
        BY <3>5 DEF ReadSession, ReadUser, Rotate, PersistRotation, Goto, Answer, FailCall, locals
      <3>6. CASE RevokeReusedFamily(k)
        BY <3>6 DEF RevokeReusedFamily, locals
      <3>7. CASE CreateAccess(k) \/ OperationFails(k)
        BY <3>7 DEF CreateAccess, OperationFails, Answer, FailCall, locals
      <3> QED BY <3>2, <3>3, <3>4, <3>5, <3>6, <3>7 DEF CallStep
    <2>4. CASE UNCHANGED <<pc, cred, fam, reply>>
      BY <2>1, <2>4
    <2> QED BY <1>2, <2>1, <2>2, <2>3, <2>4
        DEF Next, RevokeAccess, RevokeFamily, EndSession, DeleteUser, Tick, vars, locals
  <1>3. ReuseAnswered => ReuseRevokesFamily
    BY DEF ReuseAnswered, ReuseRevokesFamily
  <1> QED BY <1>1, <1>2, <1>3, GrantInvariant, PTL DEF Spec

\* A token the client holds and nobody has consumed is the current one, or a
\* rotation of it waits for its flush and will be rolled back to it.
UnspentIsHeld ==
    \A h \in Tokens :
        Presentable(h) /\ owner[h] = NoCall /\ family[FamilyOf(h)].row = "live"
        => \/ family[FamilyOf(h)].hash = h
           \/ \E k \in Calls : pc[k] = "persist" /\ cred[k] = h

\* Every step keeps UnspentIsHeld.
LEMMA NextUnspent ==
    ASSUME GrantInv, UnspentIsHeld, [Next]_vars
    PROVE  UnspentIsHeld'
  <1> USE DEF GrantInv
  <1> SUFFICES ASSUME NEW h \in Tokens, Presentable(h)', owner'[h] = NoCall,
                      family'[FamilyOf(h)'].row = "live"
               PROVE  \/ family'[FamilyOf(h)'].hash = h
                      \/ \E k \in Calls : pc'[k] = "persist" /\ cred'[k] = h
    BY DEF UnspentIsHeld
  <1>1. FamilyOf(h) \in Families /\ h \in Creds
    BY FamilyOfType DEF Creds
  <1>a. \A j \in Calls : pc[j] # "done" =>
          ~Presentable(j) /\ owner[j] = NoCall /\ \A i \in Calls : cred[i] # j
    BY UnansweredIsUnknown DEF ClaimInv
  <1>b. \A k \in Calls : pc[k] = "persist" => cred[k] \in Tokens /\ fam[k] = FamilyOf(cred[k])
    BY DEF CredKind, RefreshSteps, ClaimInv, Presented
  <1>2. ASSUME NEW k \in Calls, CreateFamily(k) PROVE FamilyOf(h) # k
    <2>1. family[k].row = "none" /\ pc[k] = "create" /\ UNCHANGED <<cred, fam, issued>>
      BY <1>2 DEF CreateFamily, ClaimInv, RowsExist, CodeSteps, locals, history
    <2>a. \A q \in Calls : reply'[q] = "ok" => reply[q] = "ok"
      BY <1>2 DEF CreateFamily, Goto, Answer, FailCall, TypeOK
    <2>2. Presentable(h)
      BY <2>a DEF Presentable
    <2> QED BY <2>1, <2>2, NameAssumption DEF FamilyOf, Presentable, ClaimInv, Presented, RowsExist
  \* A token that was the client's before.
  <1>3. ASSUME Presentable(h), owner[h] = NoCall, FamilyOf(h)' = FamilyOf(h)
        PROVE  \/ family[FamilyOf(h)].hash = h
               \/ \E k \in Calls : pc[k] = "persist" /\ cred[k] = h
    <2>1. family[FamilyOf(h)].row = "live"
      BY <1>1, <1>2, <1>3, NextRowsStay DEF RowsStay
    <2> QED BY <1>3, <2>1 DEF UnspentIsHeld
  <1>4. ASSUME UNCHANGED <<cred, fam, reply, owner>>,
               \A k \in Calls : pc[k] = "persist" => pc'[k] = "persist",
               family'[FamilyOf(h)].hash = family[FamilyOf(h)].hash
        PROVE  \/ family'[FamilyOf(h)'].hash = h
               \/ \E k \in Calls : pc'[k] = "persist" /\ cred'[k] = h
    <2>1. Presentable(h) /\ owner[h] = NoCall /\ FamilyOf(h)' = FamilyOf(h)
      BY <1>4 DEF Presentable, FamilyOf
    <2> QED BY <1>3, <1>4, <2>1
  <1>5. ASSUME NEW k \in Calls, CallStep(k)
        PROVE  \/ family'[FamilyOf(h)'].hash = h
               \/ \E q \in Calls : pc'[q] = "persist" /\ cred'[q] = h
    <2>1. CASE CreateAccess(k)
      <3>1. /\ UNCHANGED <<cred, fam, owner, family>> /\ pc[k] = "access"
            /\ \A q \in Calls : q # k => pc'[q] = pc[q] /\ reply'[q] = reply[q]
        BY <2>1 DEF CreateAccess, locals, Answer, FailCall, TypeOK
      <3>2. CASE h = k
        <4>1. FamilyOf(h)' = fam[k] /\ family[fam[k]].hash = k
          BY <3>1, <3>2, NameAssumption DEF FamilyOf, ClaimInv, Chain
        <4> QED BY <3>1, <3>2, <4>1
      <3>3. CASE h # k
        <4>1. Presentable(h) /\ owner[h] = NoCall /\ FamilyOf(h)' = FamilyOf(h)
          BY <3>1, <3>3 DEF Presentable, FamilyOf
        <4> QED BY <1>3, <3>1, <4>1
      <3> QED BY <3>2, <3>3
    <2>2. CASE (\E c \in Codes : RedeemCode(k, c)) \/ \E t \in Tokens : PresentRefresh(k, t)
      <3>1. /\ UNCHANGED <<family, owner>> /\ pc[k] = "idle"
            /\ \A q \in Calls : q # k => /\ pc'[q] = pc[q] /\ reply'[q] = reply[q]
                                         /\ fam'[q] = fam[q] /\ cred'[q] = cred[q]
            /\ reply'[k] = "ok" => reply[k] = "ok"
        BY <2>2 DEF RedeemCode, PresentRefresh, rows, Goto, Answer, TypeOK
      <3>2. h # k
        BY <1>a, <3>1, NameAssumption DEF Presentable
      <3>3. Presentable(h) /\ owner[h] = NoCall /\ FamilyOf(h)' = FamilyOf(h)
        BY <3>1, <3>2 DEF Presentable, FamilyOf
      <3> QED BY <1>3, <3>1, <3>3
    <2>3. ASSUME Frame(k) /\ (UNCHANGED owner \/ owner' = [owner EXCEPT ![cred[k]] = k]), pc[k] # "idle"
          PROVE  /\ Presentable(h) /\ FamilyOf(h)' = FamilyOf(h) /\ owner[h] = NoCall
      <3>1. Presentable(h) /\ FamilyOf(h)' = FamilyOf(h)
        BY <2>3 DEF Frame, Presentable, FamilyOf
      <3>2. owner[h] = NoCall
        BY <1>1, <2>3, NameAssumption DEF TypeOK
      <3> QED BY <3>1, <3>2
    <2>4. CASE Rotate(k)
      <3>1. RotateEffect(k)
        BY <2>4, RotateRows DEF ClaimInv
      <3>2. Presentable(h) /\ FamilyOf(h)' = FamilyOf(h) /\ owner[h] = NoCall
        BY <2>3, <3>1 DEF RotateEffect
      <3>3. \/ family[FamilyOf(h)].hash = h
            \/ \E q \in Calls : pc[q] = "persist" /\ cred[q] = h
        BY <1>3, <3>2
      <3>4. CASE \E q \in Calls : pc[q] = "persist" /\ cred[q] = h
        BY <3>1, <3>4 DEF RotateEffect, Frame
      <3>5. CASE family[FamilyOf(h)].hash = h
        <4>1. CASE UNCHANGED <<family, owner>>
          BY <3>2, <3>5, <4>1
        <4>2. CASE FamilyOf(h) # fam[k]
          BY <1>1, <3>1, <3>2, <3>5, <4>2 DEF RotateEffect
        <4>3. CASE FamilyOf(h) = fam[k] /\ ~UNCHANGED <<family, owner>>
          <5>1. cred[k] = h /\ UNCHANGED cred
            BY <3>1, <3>5, <4>3 DEF RotateEffect, Frame
          <5>2. CASE pc'[k] = "persist"
            BY <5>1, <5>2
          <5>3. CASE owner' = [owner EXCEPT ![cred[k]] = k]
            <6>1. owner'[h] = k
              BY <1>1, <5>1, <5>3 DEF TypeOK
            <6> QED BY <6>1, NameAssumption
          <5> QED BY <3>1, <4>3, <5>2, <5>3 DEF RotateEffect
        <4> QED BY <4>1, <4>2, <4>3
      <3> QED BY <3>3, <3>4, <3>5
    <2>5. CASE PersistRotation(k)
      <3>1. PersistEffect(k)
        BY <2>5, PersistRows
      <3>2. Presentable(h) /\ FamilyOf(h)' = FamilyOf(h) /\ owner[h] = NoCall
        BY <2>3, <3>1 DEF PersistEffect
      <3>3. family[fam[k]].hash = k /\ k # h /\ fam[k] = FamilyOf(cred[k]) /\ fam[k] \in Families
            /\ UNCHANGED cred
        BY <1>a, <1>b, <3>1, <3>2 DEF PersistEffect, Frame, ClaimInv, Chain, TypeOK
      <3>4. CASE cred[k] = h
        <4>1. CASE owner' = [owner EXCEPT ![cred[k]] = k]
          <5>1. owner'[h] = k
            BY <1>1, <3>4, <4>1 DEF TypeOK
          <5> QED BY <5>1, NameAssumption
        <4>2. CASE FailCall(k) /\ family' = IF family[fam[k]].row = "live"
                         THEN [family EXCEPT ![fam[k]] =
                                [@ EXCEPT !.hash = cred[k], !.deadline = seen[k].deadline]]
                         ELSE family
          <5>1. family[fam[k]].row = "live"
            BY <3>1, <3>2, <3>3, <3>4 DEF PersistEffect
          <5>2. family'[fam[k]].hash = cred[k]
            BY <3>3, <4>2, <5>1, RotatedFields DEF TypeOK
          <5> QED BY <3>2, <3>3, <3>4, <5>2
        <4> QED BY <2>5, <4>1, <4>2 DEF PersistRotation
      <3>5. CASE cred[k] # h
        <4>1. CASE \E q \in Calls : pc[q] = "persist" /\ cred[q] = h
          BY <3>1, <3>3, <3>5, <4>1 DEF PersistEffect, Frame
        <4>2. CASE family[FamilyOf(h)].hash = h
          <5>1. FamilyOf(h) # fam[k]
            BY <3>3, <4>2
          <5> QED BY <1>1, <3>1, <3>2, <4>2, <5>1 DEF PersistEffect
        <4> QED BY <1>3, <3>2, <4>1, <4>2
      <3> QED BY <3>4, <3>5
    <2>6. CASE CreateFamily(k)
      <3>1. /\ UNCHANGED <<cred, fam, owner>> /\ pc[k] = "create"
            /\ \A q \in Calls : q # k => pc'[q] = pc[q] /\ reply'[q] = reply[q]
            /\ reply'[k] = "ok" => reply[k] = "ok"
            /\ \A g \in Families : g # k => family'[g] = family[g]
        BY <2>6 DEF CreateFamily, locals, history, Goto, Answer, FailCall, TypeOK
      <3>2. Presentable(h) /\ owner[h] = NoCall /\ FamilyOf(h)' = FamilyOf(h)
        BY <3>1 DEF Presentable, FamilyOf
      <3>3. family'[FamilyOf(h)] = family[FamilyOf(h)]
        BY <1>1, <1>2, <2>6, <3>1
      <3> QED BY <1>3, <3>1, <3>2, <3>3
    <2>7. CASE RevokeReusedFamily(k)
      <3>1. RevokeEffect(k)
        BY <2>7, RevokeRows
      <3>2. Presentable(h) /\ FamilyOf(h)' = FamilyOf(h) /\ owner[h] = NoCall
        BY <2>3, <3>1 DEF RevokeEffect
      <3> QED BY <1>1, <1>3, <3>1, <3>2 DEF RevokeEffect, Frame
    <2>8. CASE MarkCodeUsed(k)
      <3>1. /\ UNCHANGED <<family, cred, fam>> /\ pc[k] = "mark" /\ cred[k] \in Codes
            /\ \A q \in Calls : q # k => pc'[q] = pc[q] /\ reply'[q] = reply[q]
            /\ reply'[k] = "ok" => reply[k] = "ok"
            /\ UNCHANGED owner \/ owner' = [owner EXCEPT ![cred[k]] = k]
        BY <2>8 DEF MarkCodeUsed, locals, Goto, Answer, FailCall, TypeOK, ClaimInv, Presented, CodeSteps
      <3>2. owner[h] = NoCall
        BY <1>1, <3>1, NameAssumption DEF TypeOK
      <3>3. Presentable(h) /\ FamilyOf(h)' = FamilyOf(h)
        BY <3>1 DEF Presentable, FamilyOf
      <3> QED BY <1>3, <3>1, <3>2, <3>3
    <2>9. CASE ReadCodeUser(k) \/ ReadSession(k) \/ ReadUser(k) \/ OperationFails(k)
      <3>1. /\ UNCHANGED <<family, cred, fam, owner>> /\ pc[k] # "persist"
            /\ \A q \in Calls : q # k => pc'[q] = pc[q] /\ reply'[q] = reply[q]
            /\ reply'[k] = "ok" => reply[k] = "ok"
        BY <2>9 DEF ReadCodeUser, ReadSession, ReadUser, OperationFails, rows, locals, history,
                    Goto, Answer, FailCall, TypeOK
      <3>2. Presentable(h) /\ owner[h] = NoCall /\ FamilyOf(h)' = FamilyOf(h)
        BY <3>1 DEF Presentable, FamilyOf
      <3> QED BY <1>3, <3>1, <3>2
    <2> QED BY <1>5, <2>1, <2>2, <2>4, <2>5, <2>6, <2>7, <2>8, <2>9 DEF CallStep
  <1>6. ASSUME \/ \E k \in Calls : RevokeAccess(k)
               \/ \E f \in Families : RevokeFamily(f)
               \/ EndSession \/ DeleteUser \/ Tick \/ UNCHANGED vars
        PROVE  \/ family'[FamilyOf(h)'].hash = h
               \/ \E k \in Calls : pc'[k] = "persist" /\ cred'[k] = h
    <2>1. UNCHANGED <<pc, cred, fam, reply, owner>>
      BY <1>6 DEF RevokeAccess, RevokeFamily, EndSession, DeleteUser, Tick, vars, locals, history
    <2>2. family'[FamilyOf(h)].hash = family[FamilyOf(h)].hash
      <3>1. CASE \E f \in Families : RevokeFamily(f)
        BY <1>1, <3>1, RevokedFields DEF RevokeFamily
      <3>2. CASE DeleteUser
        BY <1>1, <3>2 DEF DeleteUser, Gone, TypeOK, Family
      <3>3. CASE UNCHANGED family
        BY <3>3
      <3> QED BY <1>6, <3>1, <3>2, <3>3 DEF RevokeAccess, EndSession, Tick, vars, rows
    <2> QED BY <1>4, <2>1, <2>2
  <1> QED BY <1>5, <1>6 DEF Next

\* update_token_family_refresh_hash: a refresh token the client was given and
\* no call has consumed is the current one unless a rotation of its family is
\* being flushed, so the retry of a rotation that was rolled back succeeds.
THEOREM UnspentIsCurrent == Spec => []UnspentTokenIsCurrent
  <1>1. Init => UnspentIsHeld
    BY NameAssumption DEF Init, UnspentIsHeld, Presentable, FamilyOf, Tokens, Families
  <1>2. GrantInv /\ UnspentIsHeld => UnspentTokenIsCurrent
    BY DEF GrantInv, CredKind, RefreshSteps, ClaimInv, Presented, UnspentIsHeld, UnspentTokenIsCurrent
  <1> QED BY <1>1, <1>2, NextUnspent, GrantInvariant, PTL DEF Spec

-----------------------------------------------------------------------------
(* Deadlines *)

\* A call that presented the token it read as current, up to its rotation.
AcceptSteps == {"session", "user", "rotate", "persist"}
Accepted(k) == pc[k] \in AcceptSteps /\ seen[k].hash = cred[k]

\* As long as a token is current, the deadline of its family is the one that
\* every call that presents it has read.
DeadlineIsSeen ==
    /\ \A k \in Calls : Accepted(k) /\ family[fam[k]].hash = cred[k] =>
          family[fam[k]].deadline = seen[k].deadline
    /\ \A j, k \in Calls : Accepted(j) /\ Accepted(k) /\ cred[j] = cred[k] =>
          seen[j].deadline = seen[k].deadline

\* A rotation writes a deadline that was stored back, and a family that has
\* issued has one, which the rollback of a first rotation cannot take away.
DeadlineIsKept ==
    \A k \in Calls :
        /\ pc[k] \in {"user", "rotate", "persist"} => seen[k].hash = cred[k]
        /\ Accepted(k) /\ seen[k].deadline # NoDeadline => deadline[k] = seen[k].deadline
        /\ pc[k] = "persist" => family[fam[k]].deadline = deadline[k]
        /\ pc[k] = "access" \/ k \in issued => family[fam[k]].deadline # NoDeadline
        /\ pc[k] = "persist" /\ seen[k].deadline = NoDeadline =>
              \A i \in issued : fam[i] # fam[k]

DeadlinesAgree == DeadlineIsSeen /\ DeadlineIsKept

\* A step that writes no hash and no deadline of a family, and whose call
\* either keeps what it read or has nothing to rotate.
Quiet ==
    /\ \A g \in Families : /\ family'[g].hash = family[g].hash
                           /\ family'[g].deadline = family[g].deadline
    /\ issued' \subseteq Calls
    /\ \A j \in Calls :
         \/ pc'[j] \notin AcceptSteps \cup {"access"} /\ j \notin issued'
         \/ /\ cred'[j] = cred[j] /\ fam'[j] = fam[j] /\ seen'[j] = seen[j]
            /\ deadline'[j] = deadline[j] \/ pc'[j] \notin AcceptSteps
            /\ pc'[j] \in AcceptSteps => pc[j] \in AcceptSteps
            /\ pc'[j] \in {"user", "rotate"} => seen[j].hash = cred[j]
            /\ pc'[j] = "persist" => pc[j] = "persist"
            /\ pc'[j] = "access" => pc[j] \in {"persist", "access"}
            /\ j \in issued' => j \in issued \/ pc[j] = "access"

\* A step that writes no deadline keeps the deadlines in agreement.
LEMMA QuietDeadlines ==
    ASSUME GrantInv, DeadlinesAgree, Quiet
    PROVE  DeadlinesAgree'
  <1>0. \A j \in Calls : fam[j] \in Families /\ deadline[j] # NoDeadline
    BY NameAssumption DEF GrantInv, TypeOK
  <1>1. ASSUME NEW j \in Calls, Accepted(j)'
        PROVE  /\ Accepted(j) /\ cred'[j] = cred[j] /\ fam'[j] = fam[j]
               /\ seen'[j] = seen[j] /\ deadline'[j] = deadline[j]
    BY <1>1 DEF Quiet, Accepted
  <1>2. DeadlineIsSeen'
    <2>1. ASSUME NEW k \in Calls, Accepted(k)', family'[fam'[k]].hash = cred'[k]
          PROVE  family'[fam'[k]].deadline = seen'[k].deadline
      BY <1>0, <1>1, <2>1 DEF Quiet, DeadlinesAgree, DeadlineIsSeen
    <2>2. ASSUME NEW j \in Calls, NEW k \in Calls, Accepted(j)', Accepted(k)', cred'[j] = cred'[k]
          PROVE  seen'[j].deadline = seen'[k].deadline
      BY <1>1, <2>2 DEF DeadlinesAgree, DeadlineIsSeen
    <2> QED BY <2>1, <2>2 DEF DeadlineIsSeen
  <1>3. ASSUME NEW k \in Calls
        PROVE  /\ pc'[k] \in {"user", "rotate", "persist"} => seen'[k].hash = cred'[k]
               /\ Accepted(k)' /\ seen'[k].deadline # NoDeadline => deadline'[k] = seen'[k].deadline
               /\ pc'[k] = "persist" => family'[fam'[k]].deadline = deadline'[k]
               /\ pc'[k] = "access" \/ k \in issued' => family'[fam'[k]].deadline # NoDeadline
               /\ pc'[k] = "persist" /\ seen'[k].deadline = NoDeadline =>
                     \A i \in issued' : fam'[i] # fam'[k]
    <2>1. pc'[k] \in {"user", "rotate", "persist"} => seen'[k].hash = cred'[k]
      BY DEF Quiet, AcceptSteps, DeadlinesAgree, DeadlineIsKept
    <2>2. Accepted(k)' /\ seen'[k].deadline # NoDeadline => deadline'[k] = seen'[k].deadline
      BY <1>1 DEF DeadlinesAgree, DeadlineIsKept
    <2>3. ASSUME pc'[k] = "persist"
          PROVE  pc[k] = "persist" /\ fam'[k] = fam[k] /\ deadline'[k] = deadline[k] /\ seen'[k] = seen[k]
      BY <2>3 DEF Quiet, AcceptSteps
    <2>4. pc'[k] = "persist" => family'[fam'[k]].deadline = deadline'[k]
      BY <1>0, <2>3 DEF Quiet, DeadlinesAgree, DeadlineIsKept
    <2>5. pc'[k] = "access" \/ k \in issued' => family'[fam'[k]].deadline # NoDeadline
      <3>1. SUFFICES ASSUME pc'[k] = "access" \/ k \in issued'
                     PROVE  family'[fam'[k]].deadline # NoDeadline
        OBVIOUS
      <3>2. fam'[k] = fam[k] /\ (pc[k] \in {"persist", "access"} \/ k \in issued)
        BY <3>1 DEF Quiet
      <3>3. family[fam[k]].deadline # NoDeadline
        BY <1>0, <3>2 DEF DeadlinesAgree, DeadlineIsKept
      <3> QED BY <1>0, <3>2, <3>3 DEF Quiet
    <2>6. ASSUME pc'[k] = "persist", seen'[k].deadline = NoDeadline, NEW i \in issued'
          PROVE  fam'[i] # fam'[k]
      <3>1. i \in Calls /\ fam'[i] = fam[i] /\ (i \in issued \/ pc[i] = "access")
        BY DEF Quiet
      <3>2. CASE i \in issued
        BY <2>3, <2>6, <3>1, <3>2 DEF DeadlinesAgree, DeadlineIsKept
      <3>3. CASE pc[i] = "access"
        <4>1. family[fam[i]].hash = i /\ family[fam[k]].hash = k /\ i # k
          BY <2>3, <2>6, <3>1, <3>3 DEF GrantInv, ClaimInv, Chain
        <4> QED BY <2>3, <2>6, <3>1, <4>1
      <3> QED BY <3>1, <3>2, <3>3
    <2> QED BY <2>1, <2>2, <2>4, <2>5, <2>6
  <1> QED BY <1>2, <1>3 DEF DeadlinesAgree, DeadlineIsKept

\* The rows after a rotation that took effect, or after its rollback.
Rewritten(f, h, d) ==
    \A g \in Families : /\ family'[g].hash = IF g = f THEN h ELSE family[g].hash
                        /\ family'[g].deadline = IF g = f THEN d ELSE family[g].deadline

\* A rotation and its rollback rewrite one row.
LEMMA RotationWrites ==
    ASSUME GrantInv, NEW k \in Calls, NEW h \in Tokens, NEW d \in Deadlines,
           family' = [family EXCEPT ![fam[k]] = [@ EXCEPT !.hash = h, !.deadline = d]]
    PROVE  Rewritten(fam[k], h, d)
  <1>1. fam[k] \in Families /\ family[fam[k]] \in Family /\ family \in [Families -> Family]
    BY DEF GrantInv, TypeOK
  <1> QED BY <1>1, RotatedFields DEF Rewritten

\* get_token_family: what the call reads agrees with the row and with the calls
\* that read the same token before it.
LEMMA PresentDeadlines ==
    ASSUME GrantInv, DeadlinesAgree, NEW k \in Calls, NEW h \in Tokens, PresentRefresh(k, h)
    PROVE  DeadlinesAgree'
  <1>0. /\ FamilyOf(h) \in Families /\ fam'[k] = FamilyOf(h) /\ cred'[k] = h /\ pc[k] = "idle"
        /\ seen'[k].hash = family[FamilyOf(h)].hash
        /\ seen'[k].deadline = family[FamilyOf(h)].deadline
        /\ k \notin issued /\ UNCHANGED <<family, issued>>
        /\ \A j \in Calls : j # k => /\ pc'[j] = pc[j] /\ cred'[j] = cred[j] /\ fam'[j] = fam[j]
                                     /\ seen'[j] = seen[j] /\ deadline'[j] = deadline[j]
    <2>1. FamilyOf(h) \in Families
      BY FamilyOfType DEF GrantInv
    <2>2. /\ cred' = [cred EXCEPT ![k] = h] /\ fam' = [fam EXCEPT ![k] = FamilyOf(h)]
          /\ seen' = [seen EXCEPT ![k] = [hash |-> family[FamilyOf(h)].hash,
                                         deadline |-> family[FamilyOf(h)].deadline]]
          /\ pc[k] = "idle" /\ UNCHANGED <<family, issued>>
      BY DEF PresentRefresh, rows
    <2>3. \A j \in Calls : j # k => pc'[j] = pc[j] /\ deadline'[j] = deadline[j]
      BY DEF PresentRefresh, Goto, Answer, GrantInv, TypeOK
    <2>4. k \notin issued
      BY <2>2 DEF GrantInv, ClaimInv, Presented
    <2> QED BY <2>1, <2>2, <2>3, <2>4 DEF GrantInv, TypeOK
  <1>1. PICK ttl \in RefreshTTLs :
          deadline' = [deadline EXCEPT ![k] = RefreshDeadline(family[FamilyOf(h)], ttl)]
    BY DEF PresentRefresh
  <1>2. deadline'[k] = RefreshDeadline(family[FamilyOf(h)], ttl)
    BY <1>1 DEF GrantInv, TypeOK
  <1>3. /\ pc'[k] \in {"session", "user", "revoke", "done"}
        /\ pc'[k] = "user" => seen'[k].hash = h
    BY <1>0 DEF PresentRefresh, Goto, Answer, AfterSession, GrantInv, TypeOK
  <1>4. \A j \in Calls : j # k => (Accepted(j)' <=> Accepted(j))
    BY <1>0 DEF Accepted
  <1>5. \A j \in Calls : Accepted(j) /\ cred[j] = h =>
          fam[j] = FamilyOf(h)
    BY DEF GrantInv, ClaimInv, Presented
  <1>6. DeadlineIsSeen'
    <2>1. ASSUME NEW j \in Calls, Accepted(j)', family'[fam'[j]].hash = cred'[j]
          PROVE  family'[fam'[j]].deadline = seen'[j].deadline
      BY <1>0, <1>4, <2>1 DEF DeadlinesAgree, DeadlineIsSeen
    <2>2. ASSUME NEW j \in Calls, j # k, Accepted(j)', Accepted(k)', cred'[j] = cred'[k]
          PROVE  seen'[j].deadline = seen'[k].deadline
      <3>1. Accepted(j) /\ cred[j] = h /\ fam[j] = FamilyOf(h) /\ family[FamilyOf(h)].hash = h
        BY <1>0, <1>4, <1>5, <2>2 DEF Accepted
      <3> QED BY <1>0, <2>2, <3>1 DEF DeadlinesAgree, DeadlineIsSeen
    <2>3. ASSUME NEW i \in Calls, NEW j \in Calls, i # k, j # k, Accepted(i)', Accepted(j)',
                 cred'[i] = cred'[j]
          PROVE  seen'[i].deadline = seen'[j].deadline
      BY <1>0, <1>4, <2>3 DEF DeadlinesAgree, DeadlineIsSeen
    <2> QED BY <2>1, <2>2, <2>3 DEF DeadlineIsSeen
  <1>7. DeadlineIsKept'
    <2> SUFFICES ASSUME NEW j \in Calls
        PROVE  /\ pc'[j] \in {"user", "rotate", "persist"} => seen'[j].hash = cred'[j]
               /\ Accepted(j)' /\ seen'[j].deadline # NoDeadline => deadline'[j] = seen'[j].deadline
               /\ pc'[j] = "persist" => family'[fam'[j]].deadline = deadline'[j]
               /\ pc'[j] = "access" \/ j \in issued' => family'[fam'[j]].deadline # NoDeadline
               /\ pc'[j] = "persist" /\ seen'[j].deadline = NoDeadline =>
                     \A i \in issued' : fam'[i] # fam'[j]
      BY DEF DeadlineIsKept
    <2>1. CASE j = k
      BY <1>0, <1>2, <1>3, <2>1 DEF RefreshDeadline
    <2>2. CASE j # k
      <3>1. \A i \in issued : i \in Calls /\ fam'[i] = fam[i]
        BY <1>0 DEF GrantInv, TypeOK
      <3> QED BY <1>0, <1>4, <2>2, <3>1 DEF DeadlinesAgree, DeadlineIsKept
    <2> QED BY <2>1, <2>2
  <1> QED BY <1>6, <1>7 DEF DeadlinesAgree

\* create_token_family writes a family that nobody has worked on.
LEMMA CreateDeadlines ==
    ASSUME GrantInv, DeadlinesAgree, NEW k \in Calls, CreateFamily(k)
    PROVE  DeadlinesAgree'
  <1>0. /\ pc[k] = "create" /\ family[k].row = "none" /\ fam[k] = k /\ k \in Families
        /\ deadline[k] \in Nat /\ UNCHANGED <<cred, fam, seen, deadline, issued>>
        /\ k \notin issued
        /\ \A j \in Calls : j # k => pc'[j] = pc[j]
    BY NameAssumption DEF GrantInv, TypeOK, ClaimInv, RowsExist, Presented, CodeSteps, CreateFamily,
       Goto, Answer, FailCall, locals, history, Families, Creds
  <1>1. CASE UNCHANGED family
    <2>1. pc'[k] \in {"done"} \/ family'[k] # family[k]
      BY <1>0, <1>1 DEF CreateFamily, Answer, FailCall, GrantInv, TypeOK
    <2> QED BY <1>0, <1>1, <2>1, QuietDeadlines DEF Quiet, GrantInv, TypeOK, AcceptSteps, DeadlinesAgree, DeadlineIsKept
  <1>2. CASE ~UNCHANGED family
    <2>1. /\ family'[k].deadline = deadline[k]
          /\ \A g \in Families : g # k => family'[g] = family[g]
          /\ pc'[k] \in {"access", "done"}
      BY <1>0, <1>2 DEF CreateFamily, Goto, FailCall, GrantInv, TypeOK
    <2>2. \A j \in Calls : j # k /\ (pc[j] \in AcceptSteps \cup {"access"} \/ j \in issued) =>
            fam[j] # k /\ fam[j] \in Families
      BY <1>0 DEF GrantInv, TypeOK, CredKind, RefreshSteps, AcceptSteps, ClaimInv, RowsExist
    <2>3. \A j \in Calls : Accepted(j)' => Accepted(j) /\ j # k
      BY <1>0, <2>1 DEF Accepted, AcceptSteps
    <2>4. DeadlineIsSeen'
      <3>1. ASSUME NEW j \in Calls, Accepted(j)', family'[fam'[j]].hash = cred'[j]
            PROVE  family'[fam'[j]].deadline = seen'[j].deadline
        BY <1>0, <2>1, <2>2, <2>3, <3>1 DEF Accepted, DeadlinesAgree, DeadlineIsSeen
      <3>2. ASSUME NEW i \in Calls, NEW j \in Calls, Accepted(i)', Accepted(j)', cred'[i] = cred'[j]
            PROVE  seen'[i].deadline = seen'[j].deadline
        BY <1>0, <2>3, <3>2 DEF DeadlinesAgree, DeadlineIsSeen
      <3> QED BY <3>1, <3>2 DEF DeadlineIsSeen
    <2>5. DeadlineIsKept'
      BY <1>0, <2>1, <2>2, <2>3, NameAssumption DEF Accepted, AcceptSteps, DeadlinesAgree, DeadlineIsKept
    <2> QED BY <2>4, <2>5 DEF DeadlinesAgree
  <1> QED BY <1>1, <1>2

\* A rotation puts back the deadline that was stored; the deadline of a legacy
\* family is set when nothing has been issued from it.
LEMMA RotateDeadlines ==
    ASSUME GrantInv, DeadlinesAgree, NEW k \in Calls, Rotate(k)
    PROVE  /\ DeadlinesAgree'
           /\ \A i \in issued : family'[fam[i]].deadline = family[fam[i]].deadline
  <1>0. /\ RotateEffect(k) /\ pc[k] = "rotate" /\ cred[k] \in Tokens /\ fam[k] \in Families
        /\ UNCHANGED <<cred, fam, seen, deadline, issued>>
        /\ \A j \in Calls : j # k => pc'[j] = pc[j]
        /\ k \notin issued /\ issued \subseteq Calls
    <2>1. RotateEffect(k)
      BY RotateRows DEF GrantInv, ClaimInv
    <2> QED BY <2>1 DEF RotateEffect, Frame, Rotate, locals, GrantInv, TypeOK, CredKind, RefreshSteps,
                    ClaimInv, Presented
  <1>1. CASE UNCHANGED family
    <2>1. pc'[k] \in {"revoke", "done"} \/ family[fam[k]].hash = cred[k]
      BY <1>0 DEF RotateEffect
    <2>2. k \in Tokens /\ \A i \in Calls : cred[i] # k
      BY <1>0, UnansweredIsUnknown DEF GrantInv, ClaimInv, Tokens
    <2>3. pc'[k] \in {"revoke", "done"}
      BY <1>0, <1>1, <2>2 DEF RotateEffect
    <2> QED BY <1>0, <1>1, <2>3, QuietDeadlines
            DEF Quiet, AcceptSteps, DeadlinesAgree, DeadlineIsKept
  <1>2. CASE ~UNCHANGED family
    <2>1. /\ family[fam[k]].hash = cred[k]
          /\ family' = [family EXCEPT ![fam[k]] = [@ EXCEPT !.hash = k, !.deadline = deadline[k]]]
          /\ pc'[k] \in {"persist", "access", "done"}
      BY <1>2 DEF Rotate, RotationValid, Goto, FailCall, GrantInv, TypeOK
    <2>2. k \in Tokens /\ deadline[k] \in Nat /\ deadline[k] \in Deadlines
          /\ deadline[k] # NoDeadline /\ \A i \in Calls : cred[i] # k
      BY <1>0, NameAssumption, UnansweredIsUnknown DEF GrantInv, ClaimInv, TypeOK, Tokens, Deadlines
    <2>3. Rewritten(fam[k], k, deadline[k])
      BY <2>1, <2>2, RotationWrites
    <2>4. /\ Accepted(k) /\ family[fam[k]].deadline = seen[k].deadline
          /\ seen[k].deadline # NoDeadline => deadline[k] = seen[k].deadline
      BY <1>0, <2>1 DEF Accepted, AcceptSteps, DeadlinesAgree, DeadlineIsKept, DeadlineIsSeen
    <2>5. \A j \in Calls : Accepted(j)' => Accepted(j)
      BY <1>0, <2>4 DEF Accepted
    <2>6. ASSUME NEW j \in Calls, pc[j] \in {"persist", "access"} PROVE fam[j] # fam[k]
      <3>1. cred[k] # j /\ family[fam[j]].hash = j
        BY <2>6, UnansweredIsUnknown DEF GrantInv, ClaimInv, Chain
      <3> QED BY <2>1, <3>1
    <2>7. \A j \in Calls : fam[j] \in Families
      BY DEF GrantInv, TypeOK
    <2>8. \A i \in issued : family'[fam[i]].deadline = family[fam[i]].deadline
      <3>1. ASSUME NEW i \in issued, fam[i] = fam[k] PROVE seen[k].deadline # NoDeadline
        BY <1>0, <2>4, <3>1 DEF DeadlinesAgree, DeadlineIsKept
      <3> QED BY <1>0, <2>3, <2>4, <2>7, <3>1 DEF Rewritten
    <2>9. DeadlineIsSeen'
      <3>1. ASSUME NEW j \in Calls, Accepted(j)', family'[fam'[j]].hash = cred'[j]
            PROVE  family'[fam'[j]].deadline = seen'[j].deadline
        <4>1. fam[j] # fam[k]
          BY <1>0, <2>2, <2>3, <2>7, <3>1 DEF Rewritten
        <4> QED BY <1>0, <2>3, <2>5, <2>7, <3>1, <4>1 DEF Rewritten, DeadlinesAgree, DeadlineIsSeen
      <3>2. ASSUME NEW i \in Calls, NEW j \in Calls, Accepted(i)', Accepted(j)', cred'[i] = cred'[j]
            PROVE  seen'[i].deadline = seen'[j].deadline
        BY <1>0, <2>5, <3>2 DEF DeadlinesAgree, DeadlineIsSeen
      <3> QED BY <3>1, <3>2 DEF DeadlineIsSeen
    <2>10. DeadlineIsKept'
      <3> SUFFICES ASSUME NEW j \in Calls
          PROVE  /\ pc'[j] \in {"user", "rotate", "persist"} => seen'[j].hash = cred'[j]
                 /\ Accepted(j)' /\ seen'[j].deadline # NoDeadline => deadline'[j] = seen'[j].deadline
                 /\ pc'[j] = "persist" => family'[fam'[j]].deadline = deadline'[j]
                 /\ pc'[j] = "access" \/ j \in issued' => family'[fam'[j]].deadline # NoDeadline
                 /\ pc'[j] = "persist" /\ seen'[j].deadline = NoDeadline =>
                       \A i \in issued' : fam'[i] # fam'[j]
        BY DEF DeadlineIsKept
      <3>1. pc'[j] \in {"user", "rotate", "persist"} => seen'[j].hash = cred'[j]
        BY <1>0, <2>4 DEF Accepted, DeadlinesAgree, DeadlineIsKept
      <3>2. Accepted(j)' /\ seen'[j].deadline # NoDeadline => deadline'[j] = seen'[j].deadline
        BY <1>0, <2>5 DEF DeadlinesAgree, DeadlineIsKept
      <3>3. pc'[j] = "persist" => family'[fam'[j]].deadline = deadline'[j]
        BY <1>0, <2>3, <2>6, <2>7 DEF Rewritten, DeadlinesAgree, DeadlineIsKept
      <3>4. pc'[j] = "access" \/ j \in issued' => family'[fam'[j]].deadline # NoDeadline
        BY <1>0, <2>2, <2>3, <2>7 DEF Rewritten, DeadlinesAgree, DeadlineIsKept
      <3>5. pc'[j] = "persist" /\ seen'[j].deadline = NoDeadline => \A i \in issued' : fam'[i] # fam'[j]
        BY <1>0, <2>4 DEF DeadlinesAgree, DeadlineIsKept
      <3> QED BY <3>1, <3>2, <3>3, <3>4, <3>5
    <2> QED BY <2>8, <2>9, <2>10 DEF DeadlinesAgree
  <1> QED BY <1>1, <1>2

\* A rollback restores the deadline the call read, which is the stored one if
\* the family has issued.
LEMMA PersistDeadlines ==
    ASSUME GrantInv, DeadlinesAgree, NEW k \in Calls, PersistRotation(k)
    PROVE  /\ DeadlinesAgree'
           /\ \A i \in issued : family'[fam[i]].deadline = family[fam[i]].deadline
  <1>0. /\ pc[k] = "persist" /\ cred[k] \in Tokens /\ fam[k] \in Families
        /\ UNCHANGED <<cred, fam, seen, deadline, issued>>
        /\ \A j \in Calls : j # k => pc'[j] = pc[j]
        /\ pc'[k] \in {"access", "done"}
        /\ k \notin issued /\ issued \subseteq Calls /\ seen[k].deadline \in Deadlines
    BY DEF PersistRotation, Goto, FailCall, locals, GrantInv, TypeOK, CredKind, RefreshSteps,
                    ClaimInv, Presented
  <1>1. CASE UNCHANGED family
    <2> QED BY <1>0, <1>1, QuietDeadlines
            DEF Quiet, AcceptSteps, DeadlinesAgree, DeadlineIsKept
  <1>2. CASE ~UNCHANGED family
    <2>1. /\ pc'[k] = "done"
          /\ family' = [family EXCEPT ![fam[k]] =
                          [@ EXCEPT !.hash = cred[k], !.deadline = seen[k].deadline]]
      BY <1>2 DEF PersistRotation, FailCall, GrantInv, TypeOK
    <2>3. Rewritten(fam[k], cred[k], seen[k].deadline)
      BY <1>0, <2>1, RotationWrites
    <2>4. /\ Accepted(k) /\ family[fam[k]].deadline = deadline[k]
          /\ seen[k].deadline # NoDeadline => deadline[k] = seen[k].deadline
      BY <1>0 DEF Accepted, AcceptSteps, DeadlinesAgree, DeadlineIsKept
    <2>5. \A j \in Calls : Accepted(j)' => Accepted(j)
      BY <1>0, <2>1 DEF Accepted, AcceptSteps
    <2>6. \A j \in Calls : j # k /\ pc[j] \in {"persist", "access"} => fam[j] # fam[k]
      BY <1>0 DEF GrantInv, ClaimInv, Chain
    <2>7. \A j \in Calls : fam[j] \in Families
      BY DEF GrantInv, TypeOK
    <2>8. \A i \in issued : family'[fam[i]].deadline = family[fam[i]].deadline
      <3>1. ASSUME NEW i \in issued, fam[i] = fam[k] PROVE seen[k].deadline # NoDeadline
        BY <1>0, <3>1 DEF DeadlinesAgree, DeadlineIsKept
      <3> QED BY <1>0, <2>3, <2>4, <2>7, <3>1 DEF Rewritten
    <2>9. DeadlineIsSeen'
      <3>1. ASSUME NEW j \in Calls, Accepted(j)', family'[fam'[j]].hash = cred'[j]
            PROVE  family'[fam'[j]].deadline = seen'[j].deadline
        <4>1. CASE fam[j] # fam[k]
          BY <1>0, <2>3, <2>5, <2>7, <3>1, <4>1 DEF Rewritten, DeadlinesAgree, DeadlineIsSeen
        <4>2. CASE fam[j] = fam[k]
          <5>1. cred[j] = cred[k]
            BY <1>0, <2>3, <2>7, <3>1, <4>2 DEF Rewritten
          <5>2. seen[j].deadline = seen[k].deadline
            BY <2>4, <2>5, <3>1, <5>1 DEF DeadlinesAgree, DeadlineIsSeen
          <5> QED BY <1>0, <2>3, <4>2, <5>2 DEF Rewritten
        <4> QED BY <4>1, <4>2
      <3>2. ASSUME NEW i \in Calls, NEW j \in Calls, Accepted(i)', Accepted(j)', cred'[i] = cred'[j]
            PROVE  seen'[i].deadline = seen'[j].deadline
        BY <1>0, <2>5, <3>2 DEF DeadlinesAgree, DeadlineIsSeen
      <3> QED BY <3>1, <3>2 DEF DeadlineIsSeen
    <2>10. DeadlineIsKept'
      <3> SUFFICES ASSUME NEW j \in Calls
          PROVE  /\ pc'[j] \in {"user", "rotate", "persist"} => seen'[j].hash = cred'[j]
                 /\ Accepted(j)' /\ seen'[j].deadline # NoDeadline => deadline'[j] = seen'[j].deadline
                 /\ pc'[j] = "persist" => family'[fam'[j]].deadline = deadline'[j]
                 /\ pc'[j] = "access" \/ j \in issued' => family'[fam'[j]].deadline # NoDeadline
                 /\ pc'[j] = "persist" /\ seen'[j].deadline = NoDeadline =>
                       \A i \in issued' : fam'[i] # fam'[j]
        BY DEF DeadlineIsKept
      <3>1. CASE j = k
        BY <1>0, <2>1, <3>1 DEF Accepted, AcceptSteps
      <3>2. CASE j # k
        <4>1. pc'[j] = pc[j] /\ (Accepted(j)' => Accepted(j))
          BY <1>0, <2>5, <3>2
        <4>2. pc[j] \in {"persist", "access"} => family'[fam[j]].deadline = family[fam[j]].deadline
          BY <2>3, <2>6, <2>7, <3>2 DEF Rewritten
        <4>3. j \in issued => family'[fam[j]].deadline = family[fam[j]].deadline
          BY <2>8
        <4> QED BY <1>0, <4>1, <4>2, <4>3 DEF DeadlinesAgree, DeadlineIsKept
      <3> QED BY <3>1, <3>2
    <2> QED BY <2>8, <2>9, <2>10 DEF DeadlinesAgree
  <1> QED BY <1>1, <1>2

\* Every step keeps the deadlines in agreement, and those of the families that
\* have issued as they are.
LEMMA NextDeadlines ==
    ASSUME GrantInv, DeadlinesAgree, [Next]_vars
    PROVE  /\ DeadlinesAgree'
           /\ \A i \in issued : family'[fam[i]].deadline = family[fam[i]].deadline
  <1>0. issued \subseteq Calls /\ \A j \in Calls : fam[j] \in Families
    BY DEF GrantInv, TypeOK
  <1>1. ASSUME Quiet PROVE DeadlinesAgree'
                           /\ \A i \in issued : family'[fam[i]].deadline = family[fam[i]].deadline
    BY <1>0, <1>1, QuietDeadlines DEF Quiet
  <1>2. ASSUME NEW k \in Calls, CallStep(k)
        PROVE  DeadlinesAgree' /\ \A i \in issued : family'[fam[i]].deadline = family[fam[i]].deadline
    <2>1. CASE \E c \in Codes : RedeemCode(k, c)
      <3>1. Quiet
        BY <2>1 DEF RedeemCode, rows, Goto, Answer, Quiet, AcceptSteps, GrantInv, TypeOK, ClaimInv,
                    Presented, DeadlinesAgree, DeadlineIsKept
      <3> QED BY <1>1, <3>1
    <2>2. CASE \E h \in Tokens : PresentRefresh(k, h)
      BY <2>2, PresentDeadlines DEF PresentRefresh, rows
    <2>3. CASE MarkCodeUsed(k) \/ ReadCodeUser(k)
      <3>1. /\ UNCHANGED <<family, issued, fam, cred, seen>> /\ pc[k] \in {"mark", "codeUser"}
            /\ pc'[k] \in {"codeUser", "create", "done"}
            /\ \A j \in Calls : j # k => pc'[j] = pc[j] /\ deadline'[j] = deadline[j]
        BY <2>3 DEF MarkCodeUsed, ReadCodeUser, rows, locals, history, Goto, Answer, FailCall, GrantInv,
                    TypeOK
      <3>2. Quiet
        BY <3>1 DEF Quiet, AcceptSteps, GrantInv, TypeOK, ClaimInv, Presented, DeadlinesAgree, DeadlineIsKept
      <3> QED BY <1>1, <3>2
    <2>4. CASE CreateFamily(k)
      <3>1. /\ family[k].row = "none"
            /\ \A g \in Families : g # k => family'[g] = family[g]
        BY <2>4 DEF CreateFamily, GrantInv, TypeOK, ClaimInv, RowsExist, CodeSteps
      <3>2. \A i \in issued : fam[i] # k
        BY <1>0, <3>1 DEF GrantInv, ClaimInv, RowsExist
      <3> QED BY <1>0, <2>4, <3>1, <3>2, CreateDeadlines
    <2>5. CASE ReadSession(k)
      <3>1. Quiet
        BY <2>5 DEF ReadSession, rows, locals, history, Goto, Answer, AfterSession, Quiet, AcceptSteps,
                    GrantInv, TypeOK, DeadlinesAgree, DeadlineIsKept
      <3> QED BY <1>1, <3>1
    <2>6. CASE ReadUser(k) \/ OperationFails(k)
      <3>1. /\ UNCHANGED <<family, issued, fam, cred, seen, deadline>>
            /\ pc'[k] = "done" \/ (pc[k] = "user" /\ pc'[k] = "rotate")
            /\ \A j \in Calls : j # k => pc'[j] = pc[j]
        BY <2>6 DEF ReadUser, OperationFails, rows, locals, history, Goto, Answer, FailCall, GrantInv, TypeOK
      <3>2. Quiet
        BY <3>1 DEF Quiet, AcceptSteps, GrantInv, TypeOK, DeadlinesAgree, DeadlineIsKept
      <3> QED BY <1>1, <3>2
    <2>7. CASE RevokeReusedFamily(k)
      <3>1. /\ UNCHANGED <<issued, fam, cred, seen, deadline>> /\ pc'[k] = "done"
            /\ \A j \in Calls : j # k => pc'[j] = pc[j]
            /\ UNCHANGED family \/ family' = Revoked(fam[k])
        BY <2>7 DEF RevokeReusedFamily, locals, history, GrantInv, TypeOK
      <3>2. \A g \in Families : /\ family'[g].hash = family[g].hash
                                /\ family'[g].deadline = family[g].deadline
        BY <1>0, <3>1, RevokedFields DEF GrantInv
      <3>3. Quiet
        BY <3>1, <3>2 DEF Quiet, AcceptSteps, GrantInv, TypeOK, DeadlinesAgree, DeadlineIsKept
      <3> QED BY <1>1, <3>3
    <2>8. CASE CreateAccess(k)
      <3>1. /\ UNCHANGED <<family, fam, cred, seen, deadline>> /\ pc[k] = "access" /\ pc'[k] = "done"
            /\ \A j \in Calls : j # k => pc'[j] = pc[j]
            /\ issued' \subseteq issued \cup {k}
        BY <2>8 DEF CreateAccess, locals, Answer, FailCall, GrantInv, TypeOK
      <3>2. Quiet
        BY <3>1 DEF Quiet, AcceptSteps, GrantInv, TypeOK, DeadlinesAgree, DeadlineIsKept
      <3> QED BY <1>1, <3>2
    <2> QED BY <1>2, <2>1, <2>2, <2>3, <2>4, <2>5, <2>6, <2>7, <2>8, RotateDeadlines, PersistDeadlines
            DEF CallStep
  <1>3. ASSUME \/ \E k \in Calls : RevokeAccess(k)
               \/ \E f \in Families : RevokeFamily(f)
               \/ EndSession \/ DeleteUser \/ Tick \/ UNCHANGED vars
        PROVE  Quiet
    <2>1. UNCHANGED <<pc, cred, fam, seen, deadline, issued>>
      BY <1>3 DEF RevokeAccess, RevokeFamily, EndSession, DeleteUser, Tick, vars, locals, history
    <2>2. \A g \in Families : /\ family'[g].hash = family[g].hash
                              /\ family'[g].deadline = family[g].deadline
      <3>1. CASE UNCHANGED family
        BY <3>1
      <3>2. ASSUME NEW f \in Families, RevokeFamily(f)
            PROVE  \A g \in Families : /\ family'[g].hash = family[g].hash
                                       /\ family'[g].deadline = family[g].deadline
        BY <3>2, RevokedFields DEF RevokeFamily, GrantInv
      <3>3. CASE DeleteUser
        BY <3>3 DEF DeleteUser, Gone, GrantInv, TypeOK, Family
      <3> QED BY <1>3, <3>1, <3>2, <3>3 DEF RevokeAccess, EndSession, Tick, vars, rows
    <2> QED BY <2>1, <2>2 DEF Quiet, AcceptSteps, GrantInv, TypeOK, DeadlinesAgree, DeadlineIsKept
  <1> QED BY <1>1, <1>2, <1>3 DEF Next

\* A call that began with a dead grant never reaches the issue of a token: it
\* has answered, or stands before the check that refuses it.  A deletion takes
\* the codes with the user.
BarredIsRefused ==
    /\ ~user => \A c \in Codes : code[c] # "fresh"
    /\ \A k \in barred :
        /\ k \notin issued
        /\ \/ pc[k] = "done"
           \/ ~user /\ pc[k] \in {"session", "user", "revoke"}
           \/ session # "active" /\ pc[k] = "session"

\* Every step keeps BarredIsRefused.
LEMMA NextBarred ==
    ASSUME GrantInv, BarredIsRefused, [Next]_vars
    PROVE  BarredIsRefused'
  <1>0. /\ barred \subseteq Calls /\ issued \subseteq Calls /\ user \in BOOLEAN
        /\ \A k \in Calls : k \in issued => pc[k] = "done"
        /\ pc \in [Calls -> Steps] /\ code \in [Codes -> {"fresh", "used", "gone"}]
    BY DEF GrantInv, TypeOK, ClaimInv, Presented
  <1>1. ASSUME NEW k \in Calls, CallStep(k) PROVE BarredIsRefused'
    <2> USE <1>0 DEF BarredIsRefused
    <2>1. ASSUME NEW c \in Codes, RedeemCode(k, c) PROVE BarredIsRefused'
      <3>1. /\ pc[k] = "idle" /\ UNCHANGED <<user, code, session, issued>>
            /\ \A j \in Calls : j # k => pc'[j] = pc[j]
            /\ barred' = barred \/ (barred' = barred \cup {k} /\ (code[c] # "fresh" \/ now >= CodeExpiry \/ ~user))
        BY <2>1 DEF RedeemCode, rows, Goto, Answer
      <3>2. code[c] # "fresh" \/ now >= CodeExpiry \/ ~user => pc'[k] = "done"
        BY <2>1, TimeAssumption DEF RedeemCode, Goto, Answer, GrantInv, TypeOK, Times
      <3>3. k \notin issued /\ k \notin barred
        BY <3>1
      <3> QED BY <3>1, <3>2, <3>3
    <2>2. ASSUME NEW h \in Tokens, PresentRefresh(k, h) PROVE BarredIsRefused'
      <3>1. /\ pc[k] = "idle" /\ UNCHANGED <<user, code, session, issued>>
            /\ \A j \in Calls : j # k => pc'[j] = pc[j]
        BY <2>2 DEF PresentRefresh, rows, Goto, Answer
      <3>2. \/ barred' = barred
            \/ /\ barred' = barred \cup {k}
               /\ \/ pc'[k] = "done"
                  \/ ~user /\ pc'[k] \in {"session", "user", "revoke"}
                  \/ session # "active" /\ pc'[k] = "session"
        BY <2>2 DEF PresentRefresh, Goto, Answer, AfterSession
      <3>3. k \notin issued /\ k \notin barred
        BY <3>1
      <3> QED BY <3>1, <3>2, <3>3
    <2>3. CASE MarkCodeUsed(k) \/ ReadCodeUser(k)
      <3>1. /\ pc[k] \in {"mark", "codeUser"} /\ UNCHANGED <<user, session, issued, barred>>
            /\ \A j \in Calls : j # k => pc'[j] = pc[j]
            /\ \A c \in Codes : code'[c] = code[c] \/ code'[c] = "used"
        BY <2>3 DEF MarkCodeUsed, ReadCodeUser, rows, history, Goto, Answer, FailCall
      <3>2. k \notin barred
        BY <3>1
      <3> QED BY <3>1, <3>2
    <2>4. CASE CreateFamily(k) \/ Rotate(k) \/ PersistRotation(k)
      <3>1. /\ pc[k] \in {"create", "rotate", "persist"} /\ UNCHANGED <<user, session, code, issued, barred>>
            /\ \A j \in Calls : j # k => pc'[j] = pc[j]
        BY <2>4 DEF CreateFamily, Rotate, PersistRotation, history, Goto, Answer, FailCall
      <3>2. k \notin barred
        BY <3>1
      <3> QED BY <3>1, <3>2
    <2>5. CASE ReadSession(k)
      <3>1. /\ pc[k] = "session" /\ UNCHANGED <<user, session, code, issued, barred>>
            /\ \A j \in Calls : j # k => pc'[j] = pc[j]
            /\ pc'[k] = "done" \/ (session = "active" /\ pc'[k] \in {"user", "revoke"})
        BY <2>5 DEF ReadSession, rows, history, Goto, Answer, AfterSession
      <3> QED BY <3>1
    <2>6. CASE ReadUser(k)
      <3>1. /\ pc[k] = "user" /\ UNCHANGED <<user, session, code, issued, barred>>
            /\ \A j \in Calls : j # k => pc'[j] = pc[j]
            /\ pc'[k] = "done" \/ user
        BY <2>6 DEF ReadUser, rows, history, Goto, Answer
      <3> QED BY <3>1
    <2>7. CASE RevokeReusedFamily(k) \/ OperationFails(k)
      <3>1. /\ UNCHANGED <<user, session, code, issued, barred>>
            /\ \A j \in Calls : j # k => pc'[j] = pc[j]
            /\ pc'[k] = "done"
        BY <2>7 DEF RevokeReusedFamily, OperationFails, rows, history, FailCall
      <3> QED BY <3>1
    <2>8. CASE CreateAccess(k)
      <3>1. /\ pc[k] = "access" /\ UNCHANGED <<user, session, code, barred>>
            /\ \A j \in Calls : j # k => pc'[j] = pc[j]
            /\ issued' = issued \/ issued' = issued \cup {k}
        BY <2>8 DEF CreateAccess, Answer, FailCall
      <3>2. k \notin barred
        BY <3>1
      <3> QED BY <3>1, <3>2
    <2> QED BY <1>1, <2>1, <2>2, <2>3, <2>4, <2>5, <2>6, <2>7, <2>8 DEF CallStep
  <1>2. ASSUME NEW k \in Calls, RevokeAccess(k) PROVE BarredIsRefused'
    BY <1>2 DEF RevokeAccess, history, BarredIsRefused
  <1>3. ASSUME NEW f \in Families, RevokeFamily(f) PROVE BarredIsRefused'
    BY <1>3 DEF RevokeFamily, history, BarredIsRefused
  <1>4. CASE EndSession \/ Tick
    BY <1>4 DEF EndSession, Tick, history, BarredIsRefused
  <1>5. CASE DeleteUser
    BY <1>0, <1>5 DEF DeleteUser, history, BarredIsRefused
  <1>6. CASE UNCHANGED vars
    BY <1>6 DEF vars, rows, history, BarredIsRefused
  <1> QED BY <1>1, <1>2, <1>3, <1>4, <1>5, <1>6 DEF Next

\* token_grant.rs:394: no rotation, rollback or TTL changes the deadline of a
\* family that has issued tokens; and a call that began with a spent or expired
\* code, a dead family, an ended session or a deleted user issues nothing.
THEOREM DeadlineFinal == Spec => DeadlineIsFinal
  <1> DEFINE Stays == \A f \in Families :
            (\E k \in issued : fam[k] = f) /\ family[f].row = "live"
            => family'[f].deadline = family[f].deadline
  <1>1. Init => DeadlinesAgree /\ BarredIsRefused
    BY DEF Init, DeadlinesAgree, DeadlineIsSeen, DeadlineIsKept, Accepted, AcceptSteps, BarredIsRefused
  <1>2. GrantInv /\ DeadlinesAgree /\ [Next]_vars => DeadlinesAgree' /\ [Stays]_vars
    BY NextDeadlines
  <1>3. GrantInv /\ BarredIsRefused /\ [Next]_vars => BarredIsRefused'
    BY NextBarred
  <1>4. BarredIsRefused => barred \cap issued = {}
    BY DEF BarredIsRefused
  <1>5. Spec => [](GrantInv /\ DeadlinesAgree /\ BarredIsRefused)
    BY <1>1, <1>2, <1>3, GrantInvariant, PTL DEF Spec
  <1>6. Spec => [][Stays]_vars
    BY <1>2, <1>5, PTL DEF Spec
  <1> QED BY <1>4, <1>5, <1>6, PTL DEF DeadlineIsFinal

-----------------------------------------------------------------------------
(* Refinement of CredentialClaims *)

\* A step of the endpoint claims a credential nobody owns for a call that owns
\* none, pays for a claim, or changes neither.
LEMMA StepClaims ==
    ASSUME GrantInv, [Next]_vars
    PROVE  [Claims!ClaimNext]_(Claims!claimVars)
  <1> USE DEF Claims!ClaimNext, Claims!claimVars, Claims!Claim, Claims!Pay
  <1>1. ASSUME NEW k \in Calls, MarkCodeUsed(k) PROVE [Claims!ClaimNext]_(Claims!claimVars)
    <2>1. CASE UNCHANGED owner
      BY <1>1, <2>1 DEF MarkCodeUsed
    <2>2. CASE code[cred[k]] = "fresh" /\ owner' = [owner EXCEPT ![cred[k]] = k]
      <3>1. cred[k] \in Codes /\ cred[k] \in Creds
        BY <1>1 DEF MarkCodeUsed, GrantInv, ClaimInv, Presented, CodeSteps, Creds
      <3>2. owner[cred[k]] = NoCall
        BY <2>2, <3>1 DEF GrantInv, ClaimInv, Owned, OwnedIsSpent
      <3>3. \A d \in Creds : owner[d] # k
        BY <1>1 DEF MarkCodeUsed, GrantInv, ClaimInv, Owned, OwnerRuns
      <3> QED BY <1>1, <2>2, <3>1, <3>2, <3>3 DEF MarkCodeUsed
    <2> QED BY <1>1, <2>1, <2>2 DEF MarkCodeUsed
  <1>2. ASSUME NEW k \in Calls, Rotate(k) PROVE [Claims!ClaimNext]_(Claims!claimVars)
    <2>1. RotateEffect(k)
      BY <1>2, RotateRows DEF GrantInv, ClaimInv
    <2>2. CASE UNCHANGED owner
      BY <2>1, <2>2 DEF RotateEffect, Frame
    <2>3. CASE owner' = [owner EXCEPT ![cred[k]] = k] /\ owner[cred[k]] = NoCall
      <3>1. cred[k] \in Creds
        BY <1>2 DEF Rotate, GrantInv, CredKind, RefreshSteps, Creds
      <3>2. \A d \in Creds : owner[d] # k
        BY <1>2 DEF Rotate, GrantInv, ClaimInv, Owned, OwnerRuns
      <3> QED BY <2>1, <2>3, <3>1, <3>2 DEF RotateEffect, Frame
    <2> QED BY <2>1, <2>2, <2>3 DEF RotateEffect
  <1>3. ASSUME NEW k \in Calls, PersistRotation(k)
        PROVE  [Claims!ClaimNext]_(Claims!claimVars)
    <2>1. PersistEffect(k)
      BY <1>3, PersistRows DEF GrantInv
    <2>2. CASE UNCHANGED owner
      BY <2>1, <2>2 DEF PersistEffect, Frame
    <2>3. CASE owner' = [owner EXCEPT ![cred[k]] = k]
      <3>1. cred[k] \in Creds
        BY <1>3 DEF PersistRotation, GrantInv, CredKind, RefreshSteps, Creds
      <3>2. \A d \in Creds : owner[d] # k
        BY <1>3 DEF PersistRotation, GrantInv, ClaimInv, Owned, OwnerRuns
      <3>3. owner[cred[k]] = NoCall
        BY <1>3 DEF PersistRotation, GrantInv, ClaimInv, Chain
      <3> QED BY <2>1, <2>3, <3>1, <3>2, <3>3 DEF PersistEffect, Frame
    <2> QED BY <2>1, <2>2, <2>3 DEF PersistEffect
  <1>4. ASSUME NEW k \in Calls, CreateAccess(k) PROVE [Claims!ClaimNext]_(Claims!claimVars)
    <2>1. owner[cred[k]] = k /\ k \notin issued
      BY <1>4 DEF CreateAccess, GrantInv, ClaimInv, Owned, ClaimantOwns, Presented
    <2>2. cred[k] \in Creds
      BY <1>4 DEF CreateAccess, GrantInv, TypeOK, ClaimInv, Presented
    <2> QED BY <1>4, <2>1, <2>2 DEF CreateAccess
  <1>5. CASE UNCHANGED <<owner, issued>>
    BY <1>5
  <1>6. ASSUME NEW k \in Calls, CallStep(k) PROVE [Claims!ClaimNext]_(Claims!claimVars)
    BY <1>1, <1>2, <1>3, <1>4, <1>5, <1>6
    DEF CallStep, RedeemCode, ReadCodeUser, CreateFamily, PresentRefresh, ReadSession,
        ReadUser, RevokeReusedFamily, OperationFails, history
  <1> QED
    BY <1>5, <1>6
    DEF Next, RevokeAccess, RevokeFamily, EndSession, DeleteUser, Tick, vars, history

\* mark_authorization_code_used and update_token_family_refresh_hash, on both
\* backends: the endpoint implements the abstract single-use credential.
THEOREM ClaimedOnce == Spec => EachCredentialClaimedOnce
  <1>1. Init => Claims!ClaimInit
    BY DEF Init, Claims!ClaimInit
  <1> QED
    BY <1>1, GrantInvariant, StepClaims, PTL
    DEF Spec, EachCredentialClaimedOnce, Claims!ClaimSpec
=============================================================================
