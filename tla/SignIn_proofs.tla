---------------------------- MODULE SignIn_proofs ----------------------------
(***************************************************************************)
(* Proofs about TOTP proofs, passkey ceremonies and pushed authorization   *)
(* requests: each for any number of requests, credentials and challenges   *)
(* and any values of the lifetimes and capacities; and that a behaviour of *)
(* MCSignIn is one of the component it is a part of.                       *)
(***************************************************************************)
EXTENDS Login_proofs, MCSignIn

-----------------------------------------------------------------------------
(* TotpProof.  What every accepted step is compared with is the stored      *)
(* row, so the row must never forget one: neither a claim nor the write     *)
(* back of a confirmation takes its last step below an accepted one.        *)

\* A proof that is under way is of a row that is still there.
ProofHasRow ==
    \A p \in Proofs : proof[p].pc \in {"verify", "claim", "confirm"} =>
        totp[proof[p].id] # NoTotp

\* The stored row knows every step accepted.
RowKnowsWins ==
    \A i \in DOMAIN wins :
        /\ totp[wins[i].id] # NoTotp
        /\ wins[i].step <= totp[wins[i].id].last

TotpInv == TotpTypeOK /\ ProofHasRow /\ RowKnowsWins /\ TotpStepsRise

\* The larger of two steps, one of which may be None.
LEMMA LargerStep ==
    ASSUME NEW a \in Nat \cup {None}, NEW b \in Nat \cup {None}
    PROVE  /\ Max({a, b}) \in Nat \cup {None}
           /\ Max({a, b}) >= a /\ Max({a, b}) >= b
  <1>1. \E x \in {a, b} : \A y \in {a, b} : x >= y
    BY DEF None
  <1>2. Max({a, b}) \in {a, b} /\ \A y \in {a, b} : Max({a, b}) >= y
    BY <1>1 DEF Max
  <1> QED BY <1>2

\* What the history of accepted steps holds.
LEMMA WinTyped ==
    ASSUME TotpTypeOK, NEW i \in DOMAIN wins
    PROVE  i \in Nat /\ wins[i].id \in TotpIds /\ wins[i].step \in Nat
  <1>1. wins \in Seq([id: TotpIds, step: Nat])
    BY DEF TotpTypeOK
  <1>2. DOMAIN wins = 1..Len(wins) /\ Len(wins) \in Nat
    BY <1>1
  <1>3. wins[i] \in [id: TotpIds, step: Nat]
    BY <1>1, <1>2, ElementOfSeq
  <1> QED BY <1>2, <1>3

\* A step that replaces the row of id by one whose last step is not lower,
\* accepts nothing and leaves every proof it moves on with its row.
LEMMA RowRises ==
    ASSUME TotpInv, NEW id \in TotpIds, NEW row \in TotpRow,
           totp' = [totp EXCEPT ![id] = row],
           totp[id] # NoTotp => totp[id].last <= row.last
    PROVE  /\ totp' \in [TotpIds -> TotpRow \cup {NoTotp}]
           /\ \A i \in TotpIds : totp[i] # NoTotp =>
                 totp'[i] # NoTotp /\ totp[i].last <= totp'[i].last
  <1>1. \A i \in TotpIds : totp[i] # NoTotp => totp[i] \in TotpRow
    BY DEF TotpInv, TotpTypeOK
  <1>2. \A r \in TotpRow : r.last <= r.last
    BY DEF TotpRow, None
  <1> QED BY <1>1, <1>2, NoTotpAssumption DEF TotpInv, TotpTypeOK

\* Rows that do not change keep their last step.
LEMMA RowsKept ==
    ASSUME TotpInv, UNCHANGED totp
    PROVE  /\ totp' \in [TotpIds -> TotpRow \cup {NoTotp}]
           /\ \A i \in TotpIds : totp[i] # NoTotp =>
                 totp'[i] # NoTotp /\ totp[i].last <= totp'[i].last
  <1>1. \A i \in TotpIds : totp[i] # NoTotp => totp[i] \in TotpRow
    BY DEF TotpInv, TotpTypeOK
  <1>2. \A r \in TotpRow : r.last <= r.last
    BY DEF TotpRow, None
  <1> QED BY <1>1, <1>2 DEF TotpInv, TotpTypeOK

\* Whatever a step does to the rows, if they rise and nothing is accepted, the
\* accepted steps stay covered.
LEMMA NothingAccepted ==
    ASSUME TotpInv, UNCHANGED wins,
           totp' \in [TotpIds -> TotpRow \cup {NoTotp}],
           \A i \in TotpIds : totp[i] # NoTotp =>
               totp'[i] # NoTotp /\ totp[i].last <= totp'[i].last
    PROVE  RowKnowsWins' /\ TotpStepsRise'
  <1>1. \A i \in DOMAIN wins : wins[i].id \in TotpIds /\ wins[i].step \in Nat
    BY WinTyped DEF TotpInv
  <1>2. \A i \in TotpIds : /\ totp[i] # NoTotp => totp[i].last \in Nat \cup {None}
                           /\ totp'[i] # NoTotp => totp'[i].last \in Nat \cup {None}
    BY DEF TotpInv, TotpTypeOK, TotpRow
  <1>3. RowKnowsWins'
    <2> SUFFICES ASSUME NEW i \in DOMAIN wins
                 PROVE  /\ totp'[wins[i].id] # NoTotp
                        /\ wins[i].step <= totp'[wins[i].id].last
      BY DEF RowKnowsWins
    <2>1. totp[wins[i].id] # NoTotp /\ wins[i].step <= totp[wins[i].id].last
      BY DEF TotpInv, RowKnowsWins
    <2> QED BY <1>1, <1>2, <2>1 DEF None
  <1> QED BY <1>3 DEF TotpInv, TotpStepsRise

\* How a proof moves.
LEMMA ProofMoved ==
    ASSUME TotpInv, NEW p \in Proofs, NEW c \in TotpCall,
           proof' = [proof EXCEPT ![p] = c],
           c.pc \in {"verify", "claim", "confirm"} => totp[c.id] # NoTotp /\ c.id \in TotpIds,
           \A i \in TotpIds : totp[i] # NoTotp => totp'[i] # NoTotp
    PROVE  proof' \in [Proofs -> TotpCall] /\ ProofHasRow'
  <1>1. \A q \in Proofs : proof[q].pc \in {"verify", "claim", "confirm"} => proof[q].id \in TotpIds
    BY DEF TotpInv, TotpTypeOK, TotpCall
  <1> QED BY <1>1 DEF TotpInv, TotpTypeOK, ProofHasRow

\* The states a proof moves to.
LEMMA ProofStates ==
    ASSUME TotpInv, NEW p \in Proofs
    PROVE  /\ [pc |-> "done"] \in TotpCall
           /\ proof[p].pc \in {"verify", "claim", "confirm"} =>
                 /\ proof[p].id \in TotpIds /\ totp[proof[p].id] # NoTotp
                 /\ proof[p].row \in TotpRow /\ proof[p].step \in Nat
                 /\ \A pc \in {"claim", "confirm"}, s \in Nat :
                       LET c == [proof[p] EXCEPT !.pc = pc, !.step = s]
                       IN c \in TotpCall /\ c.id = proof[p].id
  <1>1. proof[p] \in TotpCall
    BY DEF TotpInv, TotpTypeOK
  <1>2. [pc |-> "done"] \in TotpCall
    BY DEF TotpCall
  <1>3. ASSUME proof[p].pc \in {"verify", "claim", "confirm"}
        PROVE  proof[p] \in [pc: {"verify", "claim", "confirm"}, confirms: BOOLEAN, id: TotpIds,
                             row: TotpRow, step: Nat]
    BY <1>1, <1>3 DEF TotpCall
  <1> QED BY <1>2, <1>3 DEF TotpCall, TotpInv, ProofHasRow

\* Enrolling a credential keeps the TOTP invariant.
LEMMA EnrollStep ==
    ASSUME TotpInv, NEW id \in TotpIds, Enroll(id)
    PROVE  TotpInv'
  <1> DEFINE row == [enabled |-> FALSE, last |-> None]
  <1>1. row \in TotpRow
    BY DEF TotpRow
  <1>2. totp' = [totp EXCEPT ![id] = row] /\ totp[id] = NoTotp /\ UNCHANGED <<now, proof, wins>>
    BY DEF Enroll
  <1> HIDE DEF row
  <1>3. /\ totp' \in [TotpIds -> TotpRow \cup {NoTotp}]
        /\ \A i \in TotpIds : totp[i] # NoTotp =>
              totp'[i] # NoTotp /\ totp[i].last <= totp'[i].last
    BY <1>1, <1>2, RowRises
  <1>4. RowKnowsWins' /\ TotpStepsRise'
    BY <1>2, <1>3, NothingAccepted
  <1>5. ProofHasRow'
    <2>1. \A q \in Proofs :
             proof[q].pc \in {"verify", "claim", "confirm"} => proof[q].id \in TotpIds
      BY DEF TotpInv, TotpTypeOK, TotpCall
    <2> QED BY <1>2, <1>3, <2>1 DEF TotpInv, ProofHasRow
  <1> QED BY <1>2, <1>3, <1>4, <1>5 DEF TotpInv, TotpTypeOK

\* Reading the credential keeps the TOTP invariant.
LEMMA ReadTotpStep ==
    ASSUME TotpInv, NEW p \in Proofs, ReadTotp(p)
    PROVE  TotpInv'
  <1>1. UNCHANGED <<now, totp, wins>>
    BY DEF ReadTotp
  <1>2. PICK id \in TotpIds, confirms \in BOOLEAN :
          /\ totp[id] # NoTotp
          /\ proof' = [proof EXCEPT ![p] =
                [pc |-> "verify", confirms |-> confirms, id |-> id, row |-> totp[id],
                 step |-> 0]]
    BY DEF ReadTotp
  <1> DEFINE c == [pc |-> "verify", confirms |-> confirms, id |-> id, row |-> totp[id],
                   step |-> 0]
  <1>3. c \in TotpCall /\ c.id = id
    <2>1. totp[id] \in TotpRow
      BY <1>2 DEF TotpInv, TotpTypeOK
    <2> QED BY <2>1 DEF TotpCall
  <1> HIDE DEF c
  <1>4. proof' \in [Proofs -> TotpCall] /\ ProofHasRow'
    <2>1. proof' = [proof EXCEPT ![p] = c]
      BY <1>2 DEF c
    <2> QED BY <1>1, <1>2, <1>3, <2>1, ProofMoved
  <1>5. RowKnowsWins' /\ TotpStepsRise'
    BY <1>1, RowsKept, NothingAccepted
  <1> QED BY <1>1, <1>4, <1>5 DEF TotpInv, TotpTypeOK

\* Verifying the code keeps the TOTP invariant.
LEMMA VerifyTotpStep ==
    ASSUME TotpInv, NEW p \in Proofs, VerifyTotp(p)
    PROVE  TotpInv'
  <1>1. UNCHANGED <<now, totp, wins>> /\ proof[p].pc = "verify"
    BY DEF VerifyTotp
  <1>2. \E c \in TotpCall :
          /\ proof' = [proof EXCEPT ![p] = c]
          /\ c.pc \in {"verify", "claim", "confirm"} =>
                totp[c.id] # NoTotp /\ c.id \in TotpIds
    <2>1. CASE ProofEnds(p)
      BY <2>1, ProofStates DEF ProofEnds
    <2>2. ASSUME NEW s \in AcceptedSteps(proof[p].row),
                 proof' = [proof EXCEPT ![p].pc = "claim", ![p].step = s]
          PROVE  \E c \in TotpCall :
                    /\ proof' = [proof EXCEPT ![p] = c]
                    /\ c.pc \in {"verify", "claim", "confirm"} =>
                          totp[c.id] # NoTotp /\ c.id \in TotpIds
      <3> DEFINE c == [proof[p] EXCEPT !.pc = "claim", !.step = s]
      <3>1. c \in TotpCall /\ c.id = proof[p].id
        BY <1>1, <2>2, ProofStates DEF AcceptedSteps
      <3>2. proof' = [proof EXCEPT ![p] = c]
        BY <2>2 DEF TotpInv, TotpTypeOK
      <3> HIDE DEF c
      <3> QED BY <1>1, <3>1, <3>2, ProofStates
    <2> QED BY <2>1, <2>2 DEF VerifyTotp
  <1>3. proof' \in [Proofs -> TotpCall] /\ ProofHasRow'
    BY <1>1, <1>2, ProofMoved
  <1>4. RowKnowsWins' /\ TotpStepsRise'
    BY <1>1, RowsKept, NothingAccepted
  <1> QED BY <1>1, <1>3, <1>4 DEF TotpInv, TotpTypeOK

\* A claim succeeds only beyond the stored step, so beyond every accepted one.
LEMMA ClaimStepStep ==
    ASSUME TotpInv, NEW p \in Proofs, ClaimStep(p)
    PROVE  TotpInv'
  <1> DEFINE id == proof[p].id
             step == proof[p].step
             row == [totp[id] EXCEPT !.last = step]
             win == [id |-> id, step |-> step]
  <1>1. UNCHANGED now /\ proof[p].pc = "claim"
    BY DEF ClaimStep
  <1>2. id \in TotpIds /\ totp[id] \in TotpRow /\ totp[id] # NoTotp /\ step \in Nat
    BY <1>1, ProofStates DEF TotpInv, TotpTypeOK
  <1>3. row \in TotpRow /\ row.last = step
    BY <1>2 DEF TotpRow
  <1>4. \/ UNCHANGED totp /\ UNCHANGED wins
        \/ /\ totp[id].last < step /\ totp' = [totp EXCEPT ![id] = row]
           /\ wins' = Append(wins, win) \/ UNCHANGED wins
    BY DEF ClaimStep, Claimable, TotpInv, TotpTypeOK
  <1>5. \E c \in TotpCall :
          /\ proof' = [proof EXCEPT ![p] = c]
          /\ c.pc \in {"verify", "claim", "confirm"} =>
                totp[c.id] # NoTotp /\ c.id \in TotpIds
    <2>1. CASE ProofEnds(p)
      BY <2>1, ProofStates DEF ProofEnds
    <2>2. CASE ProofMoves(p, "confirm")
      <3> DEFINE c == [proof[p] EXCEPT !.pc = "confirm", !.step = step]
      <3>1. c \in TotpCall /\ c.id = proof[p].id
        BY <1>1, <1>2, ProofStates
      <3>2. proof' = [proof EXCEPT ![p] = [proof[p] EXCEPT !.pc = "confirm"]]
        BY <2>2 DEF ProofMoves, TotpInv, TotpTypeOK
      <3>3. [proof[p] EXCEPT !.pc = "confirm"] = c
        <4>1. proof[p] \in [pc: {"verify", "claim", "confirm"}, confirms: BOOLEAN, id: TotpIds,
                            row: TotpRow, step: Nat]
          BY <1>1 DEF TotpInv, TotpTypeOK, TotpCall
        <4> QED BY <4>1
      <3> HIDE DEF c
      <3> QED BY <1>2, <3>1, <3>2, <3>3
    <2> QED BY <2>1, <2>2 DEF ClaimStep
  <1> HIDE DEF row
  <1>6. /\ totp' \in [TotpIds -> TotpRow \cup {NoTotp}]
        /\ \A i \in TotpIds : totp[i] # NoTotp =>
              totp'[i] # NoTotp /\ totp[i].last <= totp'[i].last
    <2>1. CASE UNCHANGED totp
      BY <2>1, RowsKept
    <2>2. CASE totp[id].last < step /\ totp' = [totp EXCEPT ![id] = row]
      <3>1. totp[id].last <= row.last
        BY <1>2, <1>3, <2>2 DEF TotpRow, None
      <3> QED BY <1>2, <1>3, <2>2, <3>1, RowRises
    <2> QED BY <1>4, <2>1, <2>2
  <1>7. proof' \in [Proofs -> TotpCall] /\ ProofHasRow'
    BY <1>5, <1>6, ProofMoved
  <1>8. CASE UNCHANGED wins
    <2>1. RowKnowsWins' /\ TotpStepsRise'
      BY <1>6, <1>8, NothingAccepted
    <2> QED BY <1>1, <1>6, <1>7, <1>8, <2>1 DEF TotpInv, TotpTypeOK
  <1>9. CASE /\ totp[id].last < step /\ totp' = [totp EXCEPT ![id] = row]
             /\ wins' = Append(wins, win)
    <2>1. wins \in Seq([id: TotpIds, step: Nat]) /\ win \in [id: TotpIds, step: Nat]
      BY <1>2 DEF TotpInv, TotpTypeOK
    <2>2. /\ wins' \in Seq([id: TotpIds, step: Nat])
          /\ DOMAIN wins' = (DOMAIN wins) \cup {Len(wins) + 1}
          /\ \A i \in DOMAIN wins : i < Len(wins) + 1 /\ wins'[i] = wins[i]
          /\ wins'[Len(wins) + 1] = win
      BY <1>9, <2>1
    <2>3. \A i \in DOMAIN wins :
             /\ wins[i].id \in TotpIds /\ wins[i].step \in Nat /\ i \in Nat
             /\ totp[wins[i].id] # NoTotp /\ wins[i].step <= totp[wins[i].id].last
      BY WinTyped DEF TotpInv, RowKnowsWins
    <2>4. \A i \in DOMAIN wins : wins[i].id = id => wins[i].step < step
      <3>1. totp[id].last \in Nat \cup {None}
        BY <1>2 DEF TotpRow
      <3> QED BY <1>2, <1>9, <2>3, <3>1 DEF None
    <2>5. win.id = id /\ win.step = step
      OBVIOUS
    <2> HIDE DEF win, id, step
    <2>6. totp'[id] = row /\ row # NoTotp /\ step <= step
      BY <1>2, <1>3, <1>9, NoTotpAssumption DEF TotpInv, TotpTypeOK
    <2>7. RowKnowsWins'
      <3> SUFFICES ASSUME NEW i \in DOMAIN wins'
                   PROVE  /\ totp'[wins'[i].id] # NoTotp
                          /\ wins'[i].step <= totp'[wins'[i].id].last
        BY DEF RowKnowsWins
      <3>1. CASE i = Len(wins) + 1
        BY <1>3, <2>2, <2>5, <2>6, <3>1
      <3>2. CASE i \in DOMAIN wins
        <4>1. /\ totp'[wins[i].id] # NoTotp
              /\ totp[wins[i].id].last <= totp'[wins[i].id].last
          BY <1>6, <2>3, <3>2
        <4>2. totp[wins[i].id].last \in Nat \cup {None} /\ totp'[wins[i].id].last \in Nat \cup {None}
          BY <1>6, <2>3, <3>2, <4>1 DEF TotpInv, TotpTypeOK, TotpRow
        <4> QED BY <2>2, <2>3, <3>2, <4>1, <4>2 DEF None
      <3> QED BY <2>2, <3>1, <3>2
    <2>8. TotpStepsRise'
      <3> SUFFICES ASSUME NEW i \in DOMAIN wins', NEW j \in DOMAIN wins', i < j,
                          wins'[i].id = wins'[j].id
                   PROVE  wins'[i].step < wins'[j].step
        BY DEF TotpStepsRise
      <3>1. CASE j = Len(wins) + 1
        <4>1. i \in DOMAIN wins
          BY <2>1, <2>2, <3>1
        <4> QED BY <2>2, <2>4, <2>5, <3>1, <4>1
      <3>2. CASE j \in DOMAIN wins
        <4>1. i \in DOMAIN wins
          BY <2>1, <2>2, <3>2
        <4> QED BY <2>2, <3>2, <4>1 DEF TotpInv, TotpStepsRise
      <3> QED BY <2>2, <3>1, <3>2
    <2> QED BY <1>1, <1>6, <1>7, <2>2, <2>7, <2>8 DEF TotpInv, TotpTypeOK
  <1> QED BY <1>4, <1>8, <1>9

\* The row written back keeps the larger of the two last steps.
LEMMA ConfirmTotpStep ==
    ASSUME TotpInv, NEW p \in Proofs, ConfirmTotp(p)
    PROVE  TotpInv'
  <1> DEFINE id == proof[p].id
             given == [enabled |-> TRUE, last |-> proof[p].step]
             row == PreservedRow(totp[id], given)
  <1>1. UNCHANGED <<now, wins>> /\ proof[p].pc = "confirm" /\ ProofEnds(p)
    BY DEF ConfirmTotp
  <1>2. id \in TotpIds /\ totp[id] \in TotpRow /\ totp[id] # NoTotp /\ proof[p].step \in Nat
    BY <1>1, ProofStates DEF TotpInv, TotpTypeOK
  <1>3. row \in TotpRow /\ totp[id].last <= row.last
    <2>1. totp[id].last \in Nat \cup {None} /\ given.last = proof[p].step
      BY <1>2 DEF TotpRow
    <2>2. /\ Max({totp[id].last, given.last}) \in Nat \cup {None}
          /\ Max({totp[id].last, given.last}) >= totp[id].last
      BY <1>2, <2>1, LargerStep
    <2>3. \A m \in Nat \cup {None} :
             [given EXCEPT !.last = m] \in TotpRow /\ [given EXCEPT !.last = m].last = m
      BY DEF TotpRow
    <2> HIDE DEF given
    <2> QED BY <2>1, <2>2, <2>3 DEF PreservedRow, None
  <1>4. UNCHANGED totp \/ totp' = [totp EXCEPT ![id] = row]
    BY DEF ConfirmTotp, TotpInv, TotpTypeOK
  <1> HIDE DEF row
  <1>5. /\ totp' \in [TotpIds -> TotpRow \cup {NoTotp}]
        /\ \A i \in TotpIds : totp[i] # NoTotp =>
              totp'[i] # NoTotp /\ totp[i].last <= totp'[i].last
    <2>1. CASE UNCHANGED totp
      BY <2>1, RowsKept
    <2>2. CASE totp' = [totp EXCEPT ![id] = row]
      BY <1>2, <1>3, <2>2, RowRises
    <2> QED BY <1>4, <2>1, <2>2
  <1>6. proof' \in [Proofs -> TotpCall] /\ ProofHasRow'
    <2>1. proof' = [proof EXCEPT ![p] = [pc |-> "done"]]
      BY <1>1 DEF ProofEnds
    <2>2. [pc |-> "done"] \in TotpCall /\ [pc |-> "done"].pc = "done"
      BY ProofStates
    <2> QED BY <1>5, <2>1, <2>2, ProofMoved
  <1>7. RowKnowsWins' /\ TotpStepsRise'
    BY <1>1, <1>5, NothingAccepted
  <1> QED BY <1>1, <1>5, <1>6, <1>7 DEF TotpInv, TotpTypeOK

\* The steps accepted, the stored rows and the proofs under way fit together in
\* every state.
THEOREM TotpInvariant == TotpSpec => []TotpInv
  <1>1. TotpInit => TotpInv
    <2> SUFFICES ASSUME TotpInit PROVE TotpInv
      OBVIOUS
    <2>1. now \in 0..MaxTime
      BY ClockAssumption DEF TotpInit
    <2>2. totp \in [TotpIds -> TotpRow \cup {NoTotp}]
      BY DEF TotpInit, TotpRow
    <2>3. proof \in [Proofs -> TotpCall] /\ \A p \in Proofs : proof[p].pc = "idle"
      BY DEF TotpInit, TotpCall
    <2>4. wins \in Seq([id: TotpIds, step: Nat]) /\ DOMAIN wins = {}
      BY DEF TotpInit
    <2> QED BY <2>1, <2>2, <2>3, <2>4
            DEF TotpInv, TotpTypeOK, ProofHasRow, RowKnowsWins, TotpStepsRise
  <1>2. TotpInv /\ [TotpNext]_totpVars => TotpInv'
    <2> SUFFICES ASSUME TotpInv, [TotpNext]_totpVars PROVE TotpInv'
      OBVIOUS
    <2>1. ASSUME UNCHANGED <<totp, proof, wins>>, now' \in 0..MaxTime PROVE TotpInv'
      <3>1. TotpTypeOK'
        BY <2>1 DEF TotpInv, TotpTypeOK
      <3> QED BY <2>1, <3>1 DEF TotpInv, ProofHasRow, RowKnowsWins, TotpStepsRise
    <2>2. CASE UNCHANGED totpVars
      BY <2>1, <2>2 DEF totpVars, TotpInv, TotpTypeOK
    <2>3. CASE Tick /\ UNCHANGED <<totp, proof, wins>>
      BY <2>1, <2>3, ClockAssumption DEF Tick, TotpInv, TotpTypeOK
    <2>4. CASE \E id \in TotpIds : Enroll(id)
      BY <2>4, EnrollStep
    <2>5. CASE \E p \in Proofs : ReadTotp(p)
      BY <2>5, ReadTotpStep
    <2>6. CASE \E p \in Proofs : VerifyTotp(p)
      BY <2>6, VerifyTotpStep
    <2>7. CASE \E p \in Proofs : ClaimStep(p)
      BY <2>7, ClaimStepStep
    <2>8. CASE \E p \in Proofs : ConfirmTotp(p)
      BY <2>8, ConfirmTotpStep
    <2> QED BY <2>2, <2>3, <2>4, <2>5, <2>6, <2>7, <2>8 DEF TotpNext
  <1> QED BY <1>1, <1>2, PTL DEF TotpSpec

\* No code is accepted twice or after a later one (totp_api.rs:223), for any
\* number of proofs and credentials.
THEOREM TotpStepsOnlyRise == TotpSpec => [](TotpTypeOK /\ TotpStepsRise)
  <1>1. TotpInv => TotpTypeOK /\ TotpStepsRise
    BY DEF TotpInv
  <1> QED BY <1>1, TotpInvariant, PTL

-----------------------------------------------------------------------------
(* Passkey.  A challenge is in one place at a time: an entry of a ceremony  *)
(* map, a finish that took it out, or a proof.  The stored count covers     *)
(* every proof, and the count a finish read covers the proofs stored before *)
(* it read.                                                                 *)

Working == [pc: {"take", "read", "store"}, kind: Kinds, passkey: Passkeys,
            challenge: Challenges \cup {NoChallengeTaken},
            row: Nat \cup {NoPasskey}, knew: Nat, count: Nat]

InFinish(c) == c.pc \in {"read", "store"}

EntryInOnePlace ==
    \A k \in Kinds : \A e \in ceremonies[k] :
        /\ e.challenge \in started
        /\ \A l \in Kinds : \A d \in ceremonies[l] :
              e.challenge = d.challenge => k = l /\ e = d
        /\ \A f \in Finishes : InFinish(finish[f]) => finish[f].challenge # e.challenge
        /\ \A i \in DOMAIN proofs : proofs[i].challenge # e.challenge

TakenInOnePlace ==
    \A f \in Finishes : InFinish(finish[f]) =>
        /\ finish[f].challenge \in started
        /\ \A g \in Finishes : InFinish(finish[g]) /\ f # g =>
              finish[f].challenge # finish[g].challenge
        /\ \A i \in DOMAIN proofs : proofs[i].challenge # finish[f].challenge

\* Every proof's challenge was issued; it read before it was stored; the
\* stored count covers it.
ProofsAreKnown ==
    \A i \in DOMAIN proofs :
        /\ proofs[i].challenge \in started
        /\ proofs[i].knew < i
        /\ counter[proofs[i].passkey] # NoPasskey
        /\ proofs[i].count <= counter[proofs[i].passkey]

\* What a finish knows of the credential it is about.
InStep(c) ==
    c.pc \in {"take", "read", "store"} =>
        /\ c.knew <= Len(proofs)
        /\ c.row # NoPasskey => counter[c.passkey] # NoPasskey
        /\ \A i \in DOMAIN proofs :
              i <= c.knew /\ proofs[i].passkey = c.passkey =>
                  c.row # NoPasskey /\ proofs[i].count <= c.row
        /\ c.kind = "register" => c.knew = 0 /\ c.pc # "read"
        /\ c.pc = "store" /\ c.kind # "register" =>
              c.row # NoPasskey /\ CountRises(c.row, c.count)

MapsInBounds ==
    /\ ceremonies \in [Kinds -> SUBSET Entry]
    /\ \A k \in Kinds : IsFiniteSet(ceremonies[k])

PasskeyInv ==
    /\ PasskeyTypeOK /\ MapsInBounds
    /\ EntryInOnePlace /\ TakenInOnePlace /\ ProofsAreKnown
    /\ \A f \in Finishes : InStep(finish[f])
    /\ AnsweredOnce /\ CloneNeedsOverlap

\* The smaller and the larger of two counts.
LEMMA SmallerLarger ==
    ASSUME NEW a \in Nat, NEW b \in Nat
    PROVE  /\ Min({a, b}) \in Nat /\ Min({a, b}) <= a /\ Min({a, b}) <= b
           /\ Max({a, b}) \in Nat /\ Max({a, b}) >= a /\ Max({a, b}) >= b
  <1>1. (\E x \in {a, b} : \A y \in {a, b} : x >= y) /\ \E x \in {a, b} : \A y \in {a, b} : x =< y
    OBVIOUS
  <1>2. Max({a, b}) \in {a, b} /\ \A y \in {a, b} : Max({a, b}) >= y
    BY <1>1 DEF Max
  <1>3. Min({a, b}) \in {a, b} /\ \A y \in {a, b} : Min({a, b}) =< y
    BY <1>1 DEF Min
  <1> QED BY <1>2, <1>3

\* What the type invariant says of the accepted proofs.
LEMMA ProofTyped ==
    ASSUME PasskeyTypeOK
    PROVE  /\ Len(proofs) \in Nat /\ DOMAIN proofs = 1..Len(proofs)
           /\ \A i \in DOMAIN proofs :
                 /\ proofs[i].challenge \in Challenges /\ proofs[i].passkey \in Passkeys
                 /\ proofs[i].count \in Nat /\ proofs[i].knew \in Nat /\ i \in Nat
  <1> DEFINE R == [challenge: Challenges, passkey: Passkeys, count: Nat, knew: Nat]
  <1>1. proofs \in Seq(R)
    BY DEF PasskeyTypeOK
  <1>2. Len(proofs) \in Nat /\ DOMAIN proofs = 1..Len(proofs)
    BY <1>1
  <1>3. \A i \in DOMAIN proofs : proofs[i] \in R
    <2> HIDE DEF R
    <2> QED BY <1>1, <1>2, ElementOfSeq
  <1> QED BY <1>2, <1>3

\* What the type invariant says of a finish at work.
LEMMA WorkingTyped ==
    ASSUME PasskeyTypeOK, NEW f \in Finishes
    PROVE  /\ finish[f].pc \in {"take", "read", "store"} => finish[f] \in Working
           /\ Working \subseteq Finish /\ [pc |-> "done"] \in Finish
  BY DEF PasskeyTypeOK, Finish, Working

\* A ceremony map of at most Capacity entries, as insert leaves it.
LEMMA StartStep ==
    ASSUME PasskeyInv, NEW kind \in Kinds, NEW ch \in Challenges, StartCeremony(kind, ch)
    PROVE  PasskeyInv'
  <1> USE DEF PasskeyInv
  <1> DEFINE new == [key |-> KeyOf(kind, ch), challenge |-> ch, created |-> now]
  <1>1. /\ ch \notin started /\ started' = started \cup {ch}
        /\ UNCHANGED <<now, counter, finish, proofs>>
    BY DEF StartCeremony
  <1>2. PICK keep \in Kept(ceremonies[kind]) :
          ceremonies' = [ceremonies EXCEPT ![kind] =
              {e \in keep : e.key # KeyOf(kind, ch)} \cup {new}]
    BY DEF StartCeremony
  <1> DEFINE left == {e \in keep : e.key # KeyOf(kind, ch)}
             live == {e \in ceremonies[kind] : ~ExpiredEntry(e)}
  <1>3. new \in Entry /\ new.challenge = ch
    BY ClockAssumption DEF KeyOf, Entry, PasskeyTypeOK
  <1>4. live \in SUBSET ceremonies[kind] /\ keep \in SUBSET live /\ left \in SUBSET keep
        /\ Cardinality(keep) = Min({Cardinality(live), Capacity - 1})
    BY DEF Kept
  <1>5. /\ IsFiniteSet(left) /\ Cardinality(left) \in Nat /\ Cardinality(left) <= Capacity - 1
    <2> HIDE DEF live, left
    <2>1. IsFiniteSet(live) /\ Cardinality(live) \in Nat
      BY <1>4, FS_Subset, FS_CardinalityType DEF MapsInBounds
    <2>2. IsFiniteSet(keep) /\ Cardinality(keep) \in Nat
      BY <1>4, <2>1, FS_Subset, FS_CardinalityType
    <2>3. IsFiniteSet(left) /\ Cardinality(left) \in Nat /\ Cardinality(left) <= Cardinality(keep)
      BY <1>4, <2>2, FS_Subset, FS_CardinalityType
    <2>4. Capacity - 1 \in Nat
      BY PasskeyAssumption
    <2>5. Cardinality(keep) <= Capacity - 1
      BY <1>4, <2>1, <2>4, SmallerLarger
    <2> QED BY <2>2, <2>3, <2>4, <2>5
  <1>6. IsFiniteSet(left \cup {new}) /\ Cardinality(left \cup {new}) <= Capacity
    <2> HIDE DEF left, new
    <2>1. /\ IsFiniteSet(left \cup {new})
          /\ \/ Cardinality(left \cup {new}) = Cardinality(left)
             \/ Cardinality(left \cup {new}) = Cardinality(left) + 1
      BY <1>5, FS_AddElement
    <2> QED BY <1>5, <2>1, PasskeyAssumption
  <1>7. left \subseteq ceremonies[kind]
    BY <1>4
  <1>8. /\ ceremonies'[kind] = left \cup {new}
        /\ \A k \in Kinds : k # kind => ceremonies'[k] = ceremonies[k]
        /\ ceremonies' \in [Kinds -> SUBSET Entry]
    <2>1. ceremonies' = [ceremonies EXCEPT ![kind] = left \cup {new}]
      BY <1>2
    <2>2. left \cup {new} \in SUBSET Entry
      BY <1>3, <1>7 DEF MapsInBounds
    <2> HIDE DEF left, new
    <2> QED BY <2>1, <2>2 DEF MapsInBounds
  <1> HIDE DEF left, new, live
  <1>9. MapsInBounds' /\ PasskeyTypeOK'
    <2>1. MapsInBounds'
      BY <1>6, <1>8 DEF MapsInBounds
    <2> QED BY <1>1, <1>6, <1>8, <2>1 DEF PasskeyTypeOK, MapsInBounds
  <1>10. \A k \in Kinds : \A e \in ceremonies'[k] :
            \/ e \in ceremonies[k] /\ e.challenge \in started
            \/ k = kind /\ e = new /\ e.challenge \notin started
    BY <1>1, <1>3, <1>7, <1>8 DEF EntryInOnePlace
  <1>11. EntryInOnePlace'
    <2> SUFFICES ASSUME NEW k \in Kinds, NEW e \in ceremonies'[k]
                 PROVE  /\ e.challenge \in started'
                        /\ \A l \in Kinds : \A d \in ceremonies'[l] :
                              e.challenge = d.challenge => k = l /\ e = d
                        /\ \A f \in Finishes : InFinish(finish[f]) =>
                              finish[f].challenge # e.challenge
                        /\ \A i \in DOMAIN proofs : proofs[i].challenge # e.challenge
      BY <1>1 DEF EntryInOnePlace, InFinish
    <2>1. CASE e \in ceremonies[k] /\ e.challenge \in started
      BY <1>1, <1>10, <2>1 DEF EntryInOnePlace
    <2>2. CASE k = kind /\ e = new /\ e.challenge \notin started
      <3>1. \A l \in Kinds : \A d \in ceremonies'[l] : e.challenge = d.challenge => k = l /\ e = d
        BY <1>10, <2>2
      <3>2. e.challenge = ch
        BY <1>3, <2>2
      <3> QED BY <1>1, <2>2, <3>1, <3>2 DEF TakenInOnePlace, ProofsAreKnown
    <2> QED BY <1>10, <2>1, <2>2
  <1>12. TakenInOnePlace' /\ ProofsAreKnown'
    BY <1>1 DEF TakenInOnePlace, ProofsAreKnown, InFinish
  <1>13. (\A f \in Finishes : InStep(finish[f]))' /\ AnsweredOnce' /\ CloneNeedsOverlap'
    BY <1>1 DEF InStep, AnsweredOnce, CloneNeedsOverlap
  <1> QED BY <1>9, <1>11, <1>12, <1>13

\* A step of f that stores nothing: f is left in step, and holds a challenge
\* only if it held it before or takes it out of a map.
LEMMA FinishMoved ==
    ASSUME PasskeyInv, NEW f \in Finishes, NEW c \in Finish,
           finish' = [finish EXCEPT ![f] = c],
           UNCHANGED <<now, counter, started, proofs>>, InStep(c),
           \/ ~InFinish(c) /\ UNCHANGED ceremonies
           \/ InFinish(c) /\ InFinish(finish[f]) /\ c.challenge = finish[f].challenge
              /\ UNCHANGED ceremonies
           \/ \E k \in Kinds : \E e \in ceremonies[k] :
                 /\ ceremonies' = [ceremonies EXCEPT ![k] = @ \ {e}]
                 /\ InFinish(c) => c.challenge = e.challenge
    PROVE  PasskeyInv'
  <1> USE DEF PasskeyInv
  <1>1. /\ finish' \in [Finishes -> Finish] /\ finish'[f] = c
        /\ \A g \in Finishes : g # f => finish'[g] = finish[g]
    BY DEF PasskeyTypeOK
  <1>2. /\ ceremonies' \in [Kinds -> SUBSET Entry]
        /\ \A k \in Kinds : ceremonies'[k] \subseteq ceremonies[k]
    BY DEF MapsInBounds
  <1>3. MapsInBounds' /\ \A k \in Kinds : Cardinality(ceremonies'[k]) <= Capacity
    <2> SUFFICES ASSUME NEW k \in Kinds
                 PROVE  IsFiniteSet(ceremonies'[k]) /\ Cardinality(ceremonies'[k]) <= Capacity
      BY <1>2 DEF MapsInBounds
    <2>1. IsFiniteSet(ceremonies[k]) /\ Cardinality(ceremonies[k]) <= Capacity
          /\ Cardinality(ceremonies[k]) \in Nat
      BY FS_CardinalityType DEF MapsInBounds, PasskeyTypeOK
    <2>2. /\ IsFiniteSet(ceremonies'[k])
          /\ Cardinality(ceremonies'[k]) <= Cardinality(ceremonies[k])
      BY <1>2, <2>1, FS_Subset
    <2>3. Cardinality(ceremonies'[k]) \in Nat
      BY <2>2, FS_CardinalityType
    <2> QED BY <2>1, <2>2, <2>3, PasskeyAssumption
  <1>4. PasskeyTypeOK'
    BY <1>1, <1>2, <1>3 DEF PasskeyTypeOK
  <1>5. InFinish(c) =>
          /\ c.challenge \in started
          /\ \A k \in Kinds : \A e \in ceremonies'[k] : e.challenge # c.challenge
          /\ \A g \in Finishes : InFinish(finish[g]) /\ g # f =>
                finish[g].challenge # c.challenge
          /\ \A i \in DOMAIN proofs : proofs[i].challenge # c.challenge
    <2>1. CASE InFinish(finish[f]) /\ c.challenge = finish[f].challenge /\ UNCHANGED ceremonies
      BY <2>1 DEF EntryInOnePlace, TakenInOnePlace
    <2>2. ASSUME NEW k \in Kinds, NEW e \in ceremonies[k], c.challenge = e.challenge,
                 ceremonies' = [ceremonies EXCEPT ![k] = @ \ {e}]
          PROVE  /\ c.challenge \in started
                 /\ \A l \in Kinds : \A d \in ceremonies'[l] : d.challenge # c.challenge
                 /\ \A g \in Finishes : InFinish(finish[g]) /\ g # f =>
                       finish[g].challenge # c.challenge
                 /\ \A i \in DOMAIN proofs : proofs[i].challenge # c.challenge
      <3>1. e \notin ceremonies'[k]
        BY <2>2 DEF MapsInBounds
      <3> QED BY <1>2, <2>2, <3>1 DEF EntryInOnePlace
    <2> QED BY <2>1, <2>2
  <1>6. EntryInOnePlace'
    <2> SUFFICES ASSUME NEW k \in Kinds, NEW e \in ceremonies'[k]
                 PROVE  /\ e.challenge \in started
                        /\ \A l \in Kinds : \A d \in ceremonies'[l] :
                              e.challenge = d.challenge => k = l /\ e = d
                        /\ \A g \in Finishes : InFinish(finish'[g]) =>
                              finish'[g].challenge # e.challenge
                        /\ \A i \in DOMAIN proofs : proofs[i].challenge # e.challenge
      BY DEF EntryInOnePlace, InFinish
    <2>1. e \in ceremonies[k]
      BY <1>2
    <2>2. \A l \in Kinds : \A d \in ceremonies'[l] : e.challenge = d.challenge => k = l /\ e = d
      BY <1>2, <2>1 DEF EntryInOnePlace
    <2>3. \A g \in Finishes : InFinish(finish'[g]) => finish'[g].challenge # e.challenge
      BY <1>1, <1>5, <2>1 DEF EntryInOnePlace
    <2> QED BY <2>1, <2>2, <2>3 DEF EntryInOnePlace
  <1>7. TakenInOnePlace'
    BY <1>1, <1>5 DEF TakenInOnePlace, InFinish
  <1>8. ProofsAreKnown' /\ AnsweredOnce' /\ CloneNeedsOverlap'
    BY DEF ProofsAreKnown, AnsweredOnce, CloneNeedsOverlap
  <1>9. (\A g \in Finishes : InStep(finish[g]))'
    BY <1>1 DEF InStep
  <1> QED BY <1>3, <1>4, <1>6, <1>7, <1>8, <1>9

\* What a finish reads of a passkey covers every proof stored so far.
LEMMA ReadCovers ==
    ASSUME PasskeyInv, NEW p \in Passkeys
    PROVE  /\ counter[p] \in Nat \cup {NoPasskey}
           /\ Len(proofs) \in Nat
           /\ \A i \in DOMAIN proofs : proofs[i].passkey = p =>
                 counter[p] # NoPasskey /\ proofs[i].count <= counter[p]
  BY ProofTyped DEF PasskeyInv, ProofsAreKnown, PasskeyTypeOK

\* Beginning to finish a ceremony keeps the passkey invariant.
LEMMA BeginStep ==
    ASSUME PasskeyInv, NEW f \in Finishes, NEW kind \in Kinds, BeginFinish(f, kind)
    PROVE  PasskeyInv'
  <1>1. UNCHANGED <<now, counter, ceremonies, started, proofs>>
    BY DEF BeginFinish
  <1>2. PICK p \in Passkeys :
          finish' = [finish EXCEPT ![f] =
              [pc |-> "take", kind |-> kind, challenge |-> NoChallengeTaken, passkey |-> p,
               row |-> IF kind = "user" THEN counter[p] ELSE NoPasskey,
               knew |-> IF kind = "user" THEN Len(proofs) ELSE 0, count |-> 0]]
    BY DEF BeginFinish
  <1>3. PICK row \in Nat \cup {NoPasskey}, knew \in Nat :
          /\ row = IF kind = "user" THEN counter[p] ELSE NoPasskey
          /\ knew = IF kind = "user" THEN Len(proofs) ELSE 0
    BY ReadCovers
  <1> DEFINE c == [pc |-> "take", kind |-> kind, challenge |-> NoChallengeTaken, passkey |-> p,
                   row |-> row, knew |-> knew, count |-> 0]
  <1>4. /\ c \in Working /\ c.pc = "take" /\ c.kind = kind /\ c.passkey = p
        /\ c.row = row /\ c.knew = knew
    BY DEF Working
  <1>5. finish' = [finish EXCEPT ![f] = c]
    BY <1>2, <1>3
  <1> HIDE DEF c
  <1>6. InStep(c)
    <2>1. knew <= Len(proofs) /\ \A i \in DOMAIN proofs : i <= knew => kind = "user"
      <3>1. /\ Len(proofs) \in Nat /\ Len(proofs) <= Len(proofs) /\ 0 <= Len(proofs)
            /\ \A i \in DOMAIN proofs : ~(i <= 0)
        BY ProofTyped DEF PasskeyInv
      <3> QED BY <1>3, <3>1
    <2> QED BY <1>3, <1>4, <2>1, ReadCovers DEF InStep
  <1>7. c \in Finish
    BY <1>4, WorkingTyped DEF PasskeyInv
  <1> QED BY <1>1, <1>4, <1>5, <1>6, <1>7, FinishMoved DEF InFinish

\* A finish ends.
LEMMA EndedFinish ==
    ASSUME PasskeyInv
    PROVE  [pc |-> "done"] \in Finish /\ InStep([pc |-> "done"]) /\ ~InFinish([pc |-> "done"])
  BY DEF Finish, InStep, InFinish

\* A verified response leaves the finish in step, if what was compared is.
LEMMA VerifiedFinish ==
    ASSUME PasskeyInv, NEW f \in Finishes, NEW c \in Working, Verified(f, c), InStep(c)
    PROVE  \E d \in Finish : /\ finish' = [finish EXCEPT ![f] = d]
                             /\ InStep(d) /\ InFinish(d) /\ d.challenge = c.challenge
  <1>1. PICK count \in 0..MaxCount :
          /\ c.kind # "register" => c.row # NoPasskey /\ CountRises(c.row, count)
          /\ finish' = [finish EXCEPT ![f] = [c EXCEPT !.pc = "store", !.count = count]]
    BY DEF Verified
  <1> DEFINE d == [c EXCEPT !.pc = "store", !.count = count]
  <1>2. /\ d \in Working /\ d.pc = "store" /\ d.count = count /\ d.challenge = c.challenge
        /\ d.kind = c.kind /\ d.passkey = c.passkey /\ d.row = c.row /\ d.knew = c.knew
    <2>1. count \in Nat
      BY PasskeyAssumption
    <2> QED BY <2>1 DEF Working
  <1>3. finish' = [finish EXCEPT ![f] = d]
    BY <1>1
  <1>4. d \in Finish
    BY <1>2 DEF Working, Finish
  <1> HIDE DEF d
  <1>5. c.pc \in {"take", "read", "store"}
    BY DEF Working
  <1>6. InStep(d)
    BY <1>1, <1>2, <1>5 DEF InStep
  <1> QED BY <1>2, <1>3, <1>4, <1>6 DEF InFinish

\* Taking the challenge out of its map keeps the passkey invariant.
LEMMA TakeStep ==
    ASSUME PasskeyInv, NEW f \in Finishes, TakeChallenge(f)
    PROVE  PasskeyInv'
  <1> DEFINE c == finish[f]
  <1>1. UNCHANGED <<now, counter, started, proofs>> /\ c.pc = "take" /\ c \in Working /\ InStep(c)
    BY WorkingTyped DEF TakeChallenge, PasskeyInv
  <1>2. CASE FinishEnds(f) /\ UNCHANGED ceremonies
    BY <1>1, <1>2, EndedFinish, FinishMoved DEF FinishEnds
  <1>3. ASSUME NEW e \in ceremonies[c.kind], TakeOut(c.kind, e),
               \/ IF c.kind = "discoverable"
                  THEN finish' = [finish EXCEPT ![f].pc = "read", ![f].challenge = e.challenge]
                  ELSE Verified(f, [c EXCEPT !.challenge = e.challenge])
               \/ FinishEnds(f)
        PROVE  PasskeyInv'
    <2>1. c.kind \in Kinds /\ ceremonies' = [ceremonies EXCEPT ![c.kind] = @ \ {e}]
      BY <1>1, <1>3 DEF TakeOut, Working
    <2>2. e \in Entry /\ e.challenge \in Challenges
      BY <1>3, <2>1 DEF PasskeyInv, PasskeyTypeOK, Entry
    <2>3. CASE FinishEnds(f)
      BY <1>1, <1>3, <2>1, <2>3, EndedFinish, FinishMoved DEF FinishEnds
    <2>4. CASE c.kind = "discoverable"
               /\ finish' = [finish EXCEPT ![f].pc = "read", ![f].challenge = e.challenge]
      <3> DEFINE d == [c EXCEPT !.pc = "read", !.challenge = e.challenge]
      <3>1. /\ d \in Working /\ d.pc = "read" /\ d.challenge = e.challenge /\ d.kind = c.kind
            /\ d.passkey = c.passkey /\ d.row = c.row /\ d.knew = c.knew
        BY <1>1, <2>2 DEF Working
      <3>2. finish' = [finish EXCEPT ![f] = d]
        BY <2>4 DEF PasskeyInv, PasskeyTypeOK
      <3>3. d \in Finish
        BY <3>1 DEF Working, Finish
      <3> HIDE DEF d
      <3>4. InStep(d)
        BY <1>1, <2>4, <3>1 DEF InStep
      <3> QED BY <1>1, <1>3, <2>1, <3>1, <3>2, <3>3, <3>4, FinishMoved
    <2>5. CASE c.kind # "discoverable" /\ Verified(f, [c EXCEPT !.challenge = e.challenge])
      <3> DEFINE d == [c EXCEPT !.challenge = e.challenge]
      <3>1. /\ d \in Working /\ d.pc = c.pc /\ d.challenge = e.challenge /\ d.kind = c.kind
            /\ d.passkey = c.passkey /\ d.row = c.row /\ d.knew = c.knew /\ d.count = c.count
        BY <1>1, <2>2 DEF Working
      <3>2. Verified(f, d)
        BY <2>5
      <3> HIDE DEF d
      <3>3. InStep(d)
        BY <1>1, <3>1 DEF InStep
      <3>4. PICK n \in Finish : /\ finish' = [finish EXCEPT ![f] = n]
                                /\ InStep(n) /\ InFinish(n) /\ n.challenge = d.challenge
        BY <3>1, <3>2, <3>3, VerifiedFinish
      <3> QED BY <1>1, <1>3, <2>1, <3>1, <3>4, FinishMoved
    <2> QED BY <1>3, <2>3, <2>4, <2>5
  <1> QED BY <1>2, <1>3 DEF TakeChallenge

\* Reading the credentials and verifying keep the passkey invariant.
LEMMA ReadStep ==
    ASSUME PasskeyInv, NEW f \in Finishes, ReadAndVerify(f)
    PROVE  PasskeyInv'
  <1> DEFINE c == finish[f]
             d == [c EXCEPT !.row = counter[c.passkey], !.knew = Len(proofs)]
  <1>1. /\ UNCHANGED <<now, counter, ceremonies, started, proofs>> /\ c.pc = "read"
        /\ c \in Working /\ InStep(c)
    BY WorkingTyped DEF ReadAndVerify, PasskeyInv
  <1>2. CASE FinishEnds(f)
    BY <1>1, <1>2, EndedFinish, FinishMoved DEF FinishEnds
  <1>3. CASE Verified(f, d)
    <2>1. PICK row \in Nat \cup {NoPasskey}, knew \in Nat :
            row = counter[c.passkey] /\ knew = Len(proofs) /\ c.passkey \in Passkeys
      BY <1>1, ReadCovers DEF Working
    <2>2. /\ d \in Working /\ d.pc = c.pc /\ d.challenge = c.challenge /\ d.kind = c.kind
          /\ d.passkey = c.passkey /\ d.row = row /\ d.knew = knew
      BY <1>1, <2>1 DEF Working
    <2> HIDE DEF d
    <2>3. InStep(d)
      <3>1. Len(proofs) <= Len(proofs)
        BY ReadCovers, <2>1
      <3> QED BY <1>1, <2>1, <2>2, <3>1, ReadCovers DEF InStep
    <2>4. PICK n \in Finish : /\ finish' = [finish EXCEPT ![f] = n]
                              /\ InStep(n) /\ InFinish(n) /\ n.challenge = d.challenge
      BY <1>3, <2>2, <2>3, VerifiedFinish
    <2> QED BY <1>1, <2>2, <2>4, FinishMoved DEF InFinish
  <1> QED BY <1>2, <1>3 DEF ReadAndVerify

\* The stored counts only rise, whatever the order in which finishes store.
LEMMA CounterRises ==
    ASSUME PasskeyInv, NEW f \in Finishes, StoreResult(f)
    PROVE  /\ counter' \in [Passkeys -> Nat \cup {NoPasskey}]
           /\ \A p \in Passkeys : counter[p] # NoPasskey =>
                 counter'[p] # NoPasskey /\ counter[p] <= counter'[p]
           /\ proofs' # proofs =>
                 /\ counter'[finish[f].passkey] # NoPasskey
                 /\ finish[f].count <= counter'[finish[f].passkey]
  <1> USE DEF PasskeyInv
  <1> DEFINE c == finish[f]
  <1>1. c.pc = "store" /\ c \in Working /\ InStep(c)
    BY WorkingTyped DEF StoreResult
  <1>2. c.passkey \in Passkeys /\ c.count \in Nat /\ counter \in [Passkeys -> Nat \cup {NoPasskey}]
    BY <1>1 DEF Working, PasskeyTypeOK
  <1>3. CASE UNCHANGED <<counter, proofs>>
    <2>1. \A n \in Nat : n <= n
      OBVIOUS
    <2> QED BY <1>2, <1>3, <2>1
  <1>4. CASE /\ c.kind = "register" /\ counter[c.passkey] = NoPasskey
             /\ counter' = [counter EXCEPT ![c.passkey] = c.count]
    <2>1. \A n \in Nat : n <= n
      OBVIOUS
    <2> QED BY <1>2, <1>4, <2>1, PasskeyAssumption
  <1>5. CASE /\ c.kind # "register"
             /\ counter' = [counter EXCEPT ![c.passkey] = CountRaised(@, c.count)]
    <2>1. counter[c.passkey] \in Nat
      BY <1>1, <1>2, <1>5 DEF InStep
    <2>2. PICK n \in Nat : /\ n = CountRaised(counter[c.passkey], c.count)
                           /\ counter[c.passkey] <= n /\ c.count <= n
      BY <1>2, <2>1, SmallerLarger DEF CountRaised
    <2>3. counter' = [counter EXCEPT ![c.passkey] = n]
      BY <1>5, <2>2
    <2>4. \A m \in Nat : m <= m
      OBVIOUS
    <2> QED BY <1>2, <2>2, <2>3, <2>4, PasskeyAssumption
  <1> QED BY <1>3, <1>4, <1>5 DEF StoreResult

\* A result that is stored: its challenge is in no other place, and its count
\* exceeds those of the proofs it knew.
LEMMA StoreStep ==
    ASSUME PasskeyInv, NEW f \in Finishes, StoreResult(f)
    PROVE  PasskeyInv'
  <1> USE DEF PasskeyInv
  <1> DEFINE c == finish[f]
             new == [challenge |-> c.challenge, passkey |-> c.passkey,
                     count |-> c.count, knew |-> c.knew]
             R == [challenge: Challenges, passkey: Passkeys, count: Nat, knew: Nat]
  <1>1. /\ UNCHANGED <<now, ceremonies, started>> /\ c.pc = "store" /\ c \in Working /\ InStep(c)
        /\ finish' = [finish EXCEPT ![f] = [pc |-> "done"]]
    BY WorkingTyped DEF StoreResult, FinishEnds
  <1>2. /\ finish' \in [Finishes -> Finish] /\ ~InFinish(finish'[f]) /\ InStep(finish[f])'
        /\ \A g \in Finishes : g # f => finish'[g] = finish[g]
    <2>1. finish' \in [Finishes -> Finish] /\ finish'[f] = [pc |-> "done"]
          /\ \A g \in Finishes : g # f => finish'[g] = finish[g]
      BY <1>1, EndedFinish DEF PasskeyTypeOK
    <2>2. finish'[f].pc = "done"
      BY <2>1
    <2> QED BY <2>1, <2>2 DEF InFinish, InStep
  <1>3. /\ counter' \in [Passkeys -> Nat \cup {NoPasskey}]
        /\ \A p \in Passkeys : counter[p] # NoPasskey =>
              counter'[p] # NoPasskey /\ counter[p] <= counter'[p]
    BY CounterRises
  <1>4. \A i \in DOMAIN proofs :
           /\ counter'[proofs[i].passkey] # NoPasskey
           /\ proofs[i].count <= counter'[proofs[i].passkey]
    <2> SUFFICES ASSUME NEW i \in DOMAIN proofs
                 PROVE  /\ counter'[proofs[i].passkey] # NoPasskey
                        /\ proofs[i].count <= counter'[proofs[i].passkey]
      OBVIOUS
    <2> DEFINE p == proofs[i].passkey
    <2>1. p \in Passkeys /\ proofs[i].count \in Nat
      BY ProofTyped
    <2>2. counter[p] # NoPasskey /\ proofs[i].count <= counter[p]
      BY DEF ProofsAreKnown
    <2>3. counter[p] \in Nat /\ counter'[p] \in Nat /\ counter[p] <= counter'[p]
      BY <1>3, <2>1, <2>2 DEF PasskeyTypeOK
    <2> QED BY <2>1, <2>2, <2>3, PasskeyAssumption
  <1>5. CASE UNCHANGED proofs
    <2>1. PasskeyTypeOK' /\ MapsInBounds'
      BY <1>1, <1>2, <1>3, <1>5 DEF PasskeyTypeOK, MapsInBounds
    <2>2. EntryInOnePlace' /\ TakenInOnePlace'
      BY <1>1, <1>2, <1>5 DEF EntryInOnePlace, TakenInOnePlace, InFinish
    <2>3. ProofsAreKnown' /\ AnsweredOnce' /\ CloneNeedsOverlap'
      BY <1>1, <1>4, <1>5 DEF ProofsAreKnown, AnsweredOnce, CloneNeedsOverlap
    <2>4. ASSUME NEW g \in Finishes PROVE InStep(finish[g])'
      <3>1. CASE g = f
        BY <1>2, <3>1
      <3>2. CASE g # f
        <4>1. finish[g].pc \in {"take", "read", "store"} => finish[g].passkey \in Passkeys
          BY WorkingTyped DEF Working
        <4> QED BY <1>2, <1>3, <1>5, <3>2, <4>1 DEF InStep
      <3> QED BY <3>1, <3>2
    <2> QED BY <2>1, <2>2, <2>3, <2>4
  <1>6. CASE proofs' = Append(proofs, new)
    <2>1. /\ c.challenge \in Challenges /\ c.challenge \in started /\ c.passkey \in Passkeys
          /\ c.count \in Nat /\ c.knew \in Nat /\ c.knew <= Len(proofs)
      BY <1>1 DEF Working, TakenInOnePlace, InFinish, InStep, PasskeyTypeOK
    <2>2. proofs \in Seq(R) /\ new \in R
      BY <2>1 DEF PasskeyTypeOK
    <2>3. /\ new.challenge = c.challenge /\ new.passkey = c.passkey /\ new.count = c.count
          /\ new.knew = c.knew
      OBVIOUS
    <2> HIDE DEF R, new
    <2>4. /\ proofs' \in Seq(R) /\ Len(proofs') = Len(proofs) + 1
          /\ DOMAIN proofs' = DOMAIN proofs \cup {Len(proofs) + 1}
          /\ \A i \in DOMAIN proofs : proofs'[i] = proofs[i] /\ i < Len(proofs) + 1 /\ i \in Nat
          /\ proofs'[Len(proofs) + 1] = new /\ Len(proofs) \in Nat
      BY <1>6, <2>2
    <2>5. proofs' # proofs
      BY <2>4
    <2>6. counter'[c.passkey] # NoPasskey /\ c.count <= counter'[c.passkey]
      BY <2>5, CounterRises
    <2>7. PasskeyTypeOK' /\ MapsInBounds'
      BY <1>1, <1>2, <1>3, <2>4 DEF PasskeyTypeOK, MapsInBounds, R
    <2>8. /\ \A k \in Kinds : \A e \in ceremonies[k] : e.challenge # c.challenge
          /\ \A g \in Finishes : InFinish(finish[g]) /\ g # f =>
                finish[g].challenge # c.challenge
          /\ \A i \in DOMAIN proofs : proofs[i].challenge # c.challenge
      BY <1>1 DEF EntryInOnePlace, TakenInOnePlace, InFinish
    <2>9. EntryInOnePlace'
      <3> SUFFICES ASSUME NEW k \in Kinds, NEW e \in ceremonies[k]
                   PROVE  /\ e.challenge \in started
                          /\ \A l \in Kinds : \A d \in ceremonies[l] :
                                e.challenge = d.challenge => k = l /\ e = d
                          /\ \A g \in Finishes : InFinish(finish'[g]) =>
                                finish'[g].challenge # e.challenge
                          /\ \A i \in DOMAIN proofs' : proofs'[i].challenge # e.challenge
        BY <1>1 DEF EntryInOnePlace, InFinish
      <3>1. \A g \in Finishes : InFinish(finish'[g]) => finish'[g].challenge # e.challenge
        BY <1>2 DEF EntryInOnePlace
      <3>2. \A i \in DOMAIN proofs' : proofs'[i].challenge # e.challenge
        BY <2>3, <2>4, <2>8 DEF EntryInOnePlace
      <3> QED BY <3>1, <3>2 DEF EntryInOnePlace
    <2>10. TakenInOnePlace'
      <3> SUFFICES ASSUME NEW g \in Finishes, InFinish(finish'[g])
                   PROVE  /\ finish'[g].challenge \in started
                          /\ \A h \in Finishes : InFinish(finish'[h]) /\ g # h =>
                                finish'[g].challenge # finish'[h].challenge
                          /\ \A i \in DOMAIN proofs' : proofs'[i].challenge # finish'[g].challenge
        BY <1>1 DEF TakenInOnePlace, InFinish
      <3>1. g # f /\ finish'[g] = finish[g]
        BY <1>2
      <3>2. \A h \in Finishes : InFinish(finish'[h]) => h # f /\ finish'[h] = finish[h]
        BY <1>2
      <3>3. \A i \in DOMAIN proofs' : proofs'[i].challenge # finish'[g].challenge
        BY <2>3, <2>4, <2>8, <3>1 DEF TakenInOnePlace
      <3> QED BY <3>1, <3>2, <3>3 DEF TakenInOnePlace
    <2>11. ProofsAreKnown'
      <3> SUFFICES ASSUME NEW i \in DOMAIN proofs'
                   PROVE  /\ proofs'[i].challenge \in started /\ proofs'[i].knew < i
                          /\ counter'[proofs'[i].passkey] # NoPasskey
                          /\ proofs'[i].count <= counter'[proofs'[i].passkey]
        BY <1>1 DEF ProofsAreKnown
      <3>1. CASE i \in DOMAIN proofs
        BY <1>4, <2>4, <3>1 DEF ProofsAreKnown
      <3>2. CASE i = Len(proofs) + 1
        BY <2>1, <2>3, <2>4, <2>6, <3>2
      <3> QED BY <2>4, <3>1, <3>2
    <2>12. AnsweredOnce'
      BY <2>3, <2>4, <2>8 DEF AnsweredOnce
    <2>13. CloneNeedsOverlap'
      <3> SUFFICES ASSUME NEW i \in DOMAIN proofs', NEW j \in DOMAIN proofs',
                          i <= proofs'[j].knew, proofs'[i].passkey = proofs'[j].passkey
                   PROVE  proofs'[j].count > proofs'[i].count \/ proofs'[i].count = 0
        BY DEF CloneNeedsOverlap
      <3>1. i \in DOMAIN proofs
        <4>1. proofs'[j].knew < Len(proofs) + 1 /\ proofs'[j].knew \in Nat
          BY <2>1, <2>3, <2>4, ProofTyped DEF ProofsAreKnown
        <4> QED BY <2>4, <4>1
      <3>2. CASE j \in DOMAIN proofs
        BY <2>4, <3>1, <3>2 DEF CloneNeedsOverlap
      <3>3. CASE j = Len(proofs) + 1
        <4>1. i <= c.knew /\ proofs[i].passkey = c.passkey
          BY <2>3, <2>4, <3>1, <3>3
        <4>2. c.row # NoPasskey /\ proofs[i].count <= c.row
          BY <1>1, <3>1, <4>1 DEF InStep
        <4>3. c.kind # "register"
          <5>1. i >= 1
            BY <3>1, ProofTyped
          <5> QED BY <1>1, <2>1, <2>4, <3>1, <4>1, <5>1 DEF InStep
        <4>4. CountRises(c.row, c.count) /\ c.row \in Nat /\ proofs[i].count \in Nat
          BY <1>1, <3>1, <4>2, <4>3, ProofTyped DEF InStep, Working
        <4>5. c.count > proofs[i].count \/ proofs[i].count = 0
          BY <2>1, <4>2, <4>4 DEF CountRises
        <4> QED BY <2>3, <2>4, <3>1, <3>3, <4>5
      <3> QED BY <2>4, <3>2, <3>3
    <2>14. ASSUME NEW g \in Finishes PROVE InStep(finish[g])'
      <3>1. CASE g = f
        BY <1>2, <3>1
      <3>2. CASE g # f
        <4> DEFINE d == finish[g]
        <4>1. CASE d.pc \notin {"take", "read", "store"}
          BY <1>2, <3>2, <4>1 DEF InStep
        <4>2. CASE d.pc \in {"take", "read", "store"}
          <5>1. d.passkey \in Passkeys /\ d.knew \in Nat
            BY <4>2, WorkingTyped DEF Working
          <5>2. InStep(d) /\ d.knew <= Len(proofs)
            BY <4>2 DEF InStep
          <5>3. d.row # NoPasskey => counter'[d.passkey] # NoPasskey
            BY <1>3, <4>2, <5>1, <5>2 DEF InStep
          <5>4. \A i \in DOMAIN proofs' : i <= d.knew => i \in DOMAIN proofs
            BY <2>4, <5>1, <5>2
          <5>5. d.knew <= Len(proofs')
            BY <2>4, <5>1, <5>2
          <5> QED BY <1>2, <2>4, <3>2, <4>2, <5>2, <5>3, <5>4, <5>5 DEF InStep
        <4> QED BY <4>1, <4>2
      <3> QED BY <3>1, <3>2
    <2> QED BY <2>7, <2>9, <2>10, <2>11, <2>12, <2>13, <2>14
  <1> QED BY <1>5, <1>6 DEF StoreResult

\* Challenges, counts and finishes fit together in every state.
THEOREM PasskeyInvariant == PasskeySpec => []PasskeyInv
  <1>1. PasskeyInit => PasskeyInv
    <2> SUFFICES ASSUME PasskeyInit PROVE PasskeyInv
      OBVIOUS
    <2>1. now \in 0..MaxTime
      BY ClockAssumption DEF PasskeyInit
    <2>2. /\ counter \in [Passkeys -> Nat \cup {NoPasskey}]
          /\ ceremonies \in [Kinds -> SUBSET Entry] /\ \A k \in Kinds : ceremonies[k] = {}
          /\ started \subseteq Challenges
      BY DEF PasskeyInit
    <2>3. finish \in [Finishes -> Finish] /\ \A f \in Finishes : finish[f].pc = "idle"
      BY DEF PasskeyInit, Finish
    <2>4. /\ proofs \in Seq([challenge: Challenges, passkey: Passkeys, count: Nat, knew: Nat])
          /\ DOMAIN proofs = {}
      BY DEF PasskeyInit
    <2>5. \A k \in Kinds : /\ IsFiniteSet(ceremonies[k])
                           /\ Cardinality(ceremonies[k]) <= Capacity
      BY <2>2, FS_EmptySet, PasskeyAssumption
    <2>6. PasskeyTypeOK /\ MapsInBounds
      BY <2>1, <2>2, <2>3, <2>4, <2>5 DEF PasskeyTypeOK, MapsInBounds
    <2> QED BY <2>2, <2>3, <2>4, <2>6
            DEF PasskeyInv, EntryInOnePlace, TakenInOnePlace, ProofsAreKnown, InStep, InFinish,
                AnsweredOnce, CloneNeedsOverlap
  <1>2. PasskeyInv /\ [PasskeyNext]_passkeyVars => PasskeyInv'
    <2> SUFFICES ASSUME PasskeyInv, [PasskeyNext]_passkeyVars PROVE PasskeyInv'
      OBVIOUS
    <2>1. ASSUME UNCHANGED <<counter, ceremonies, started, finish, proofs>>, now' \in 0..MaxTime
          PROVE  PasskeyInv'
      <3>1. PasskeyTypeOK' /\ MapsInBounds'
        BY <2>1 DEF PasskeyInv, PasskeyTypeOK, MapsInBounds
      <3> QED BY <2>1, <3>1
              DEF PasskeyInv, EntryInOnePlace, TakenInOnePlace, ProofsAreKnown, InStep, InFinish,
                  AnsweredOnce, CloneNeedsOverlap
    <2>2. CASE UNCHANGED passkeyVars
      BY <2>1, <2>2 DEF passkeyVars, PasskeyInv, PasskeyTypeOK
    <2>3. CASE Tick /\ UNCHANGED <<counter, ceremonies, started, finish, proofs>>
      BY <2>1, <2>3, ClockAssumption DEF Tick, PasskeyInv, PasskeyTypeOK
    <2>4. CASE \E kind \in Kinds, ch \in Challenges : StartCeremony(kind, ch)
      BY <2>4, StartStep
    <2>5. CASE \E f \in Finishes, kind \in Kinds : BeginFinish(f, kind)
      BY <2>5, BeginStep
    <2>6. CASE \E f \in Finishes : TakeChallenge(f)
      BY <2>6, TakeStep
    <2>7. CASE \E f \in Finishes : ReadAndVerify(f)
      BY <2>7, ReadStep
    <2>8. CASE \E f \in Finishes : StoreResult(f)
      BY <2>8, StoreStep
    <2> QED BY <2>2, <2>3, <2>4, <2>5, <2>6, <2>7, <2>8 DEF PasskeyNext
  <1> QED BY <1>1, <1>2, PTL DEF PasskeySpec

\* No ceremony map exceeds its capacity, no challenge is answered twice, and a
\* count already seen is found out unless the proofs overlap (webauthn.rs:377,
\* api/webauthn.rs:281), for any number of challenges, finishes and passkeys.
THEOREM PasskeyIsFresh == PasskeySpec => [](PasskeyTypeOK /\ PasskeyProofIsFresh)
  <1>1. PasskeyInv => PasskeyTypeOK /\ PasskeyProofIsFresh
    BY DEF PasskeyInv, PasskeyProofIsFresh
  <1> QED BY <1>1, PasskeyInvariant, PTL

-----------------------------------------------------------------------------
(* PushedRequest.  One visit owns the request: the one that marked it.  It  *)
(* holds it, has stored the code, or has left it to an approval and a       *)
(* continuation, which one completion takes.                                *)

HoldsIn(r) ==
    \/ r.pc \in {"password", "prepare", "continue", "issue"}
    \/ r.pc = "factor" /\ r.post
Owns(v) == HoldsIn(visit[v]) \/ v \in codes \/ approval[v] # "none"
TookIn(c, r) == r.pc \in {"redeem", "issue"} \/ c \in codes

VisitAt(v, r) ==
    /\ r.pc \in {"idle", "session", "factor", "mark", "password", "prepare", "issue"} =>
          approval[v] = "none" /\ v \notin codes
    /\ r.pc = "continue" =>
          approval[v] # "none" /\ continuation[v] = "none" /\ v \notin codes
    /\ r.pc \in {"password", "prepare", "continue"} => r.post
    /\ r.pc = "session" => ~r.post
    /\ v \in codes => r.pc = "ended" /\ approval[v] = "none"
    /\ approval[v] = "none" => continuation[v] = "none"
    /\ approval[v] = "redeemed" => continuation[v] = "consumed"
    /\ approval[v] # "none" => device # "none"

CompletionAt(c, r) ==
    /\ TookIn(c, r) => r.pc # "idle" /\ continuation[r.of] = "consumed"
    /\ c \in codes => r.pc = "ended"
    /\ r.pc = "consume" => approval[r.of] \in {"approved", "redeemed"}
    /\ r.pc = "redeem" => approval[r.of] = "approved"

OneOwner ==
    /\ \A v \in Visits : Owns(v) => parUsed
    /\ \A v, w \in Visits : Owns(v) /\ Owns(w) => v = w

OneTaker ==
    \A c, d \in Completions :
        /\ TookIn(c, completion[c]) /\ TookIn(d, completion[d])
        /\ completion[c].of = completion[d].of
        => c = d

\* Why the request is not lost: the disjuncts of SpentGivesItsCode for v.
Waits(v) ==
    /\ continuation[v] # "none"
    /\ \/ Lapsed(v) \/ continuation[v] = "open"
       \/ \E c \in Completions : completion[c].pc \in {"redeem", "issue"} /\ completion[c].of = v
Accounted(v) == HoldsIn(visit[v]) \/ visit[v].pc = "rejected" \/ Waits(v)

SpentAccounted == parUsed /\ codes = {} => storeFaults < MaxStoreFaults \/ \E v \in Visits : Accounted(v)

PushedInv ==
    /\ PushedTypeOK /\ now \in 0..MaxTime
    /\ \A v \in Visits : VisitAt(v, visit[v])
    /\ \A c \in Completions : CompletionAt(c, completion[c])
    /\ OneOwner /\ OneTaker /\ SpentAccounted

\* The two forms of the statement about spent requests agree.
LEMMA SpentIs == SpentAccounted <=> SpentGivesItsCode
  <1>1. \A v \in Visits : HoldsIn(visit[v]) <=> Holds(v)
    BY DEF HoldsIn, Holds
  <1>2. (\E v \in Visits : Accounted(v)) <=>
          \E v \in Visits :
              \/ Holds(v) \/ visit[v].pc = "rejected"
              \/ /\ continuation[v] # "none"
                 /\ \/ Lapsed(v) \/ continuation[v] = "open"
                    \/ \E c \in Completions :
                          /\ completion[c].pc \in {"redeem", "issue"}
                          /\ completion[c].of = v
    BY <1>1 DEF Accounted, Waits
  <1> QED BY <1>2 DEF SpentAccounted, SpentGivesItsCode

\* A step that moves one visit on, without a code and without an approval.
LEMMA VisitWalks ==
    ASSUME PushedInv, NEW v \in Visits, NEW r \in Visit,
           visit' = [visit EXCEPT ![v] = r],
           UNCHANGED <<now, browser, waiting, completion, codes>>,
           parUsed' \in BOOLEAN, parUsed => parUsed',
           storeFaults' \in 0..storeFaults,
           VisitAt(v, r),
           HoldsIn(r) => HoldsIn(visit[v]) \/ (~parUsed /\ parUsed'),
           parUsed' => \/ storeFaults' < MaxStoreFaults
                       \/ HoldsIn(r) \/ r.pc = "rejected"
                       \/ parUsed /\ ~HoldsIn(visit[v]) /\ visit[v].pc # "rejected"
    PROVE  PushedInv'
  <1> USE DEF PushedInv
  <1>1. UNCHANGED <<signedIn, device, approval, continuation, waitsUntil>>
    BY DEF browser, waiting
  <1>2. /\ visit' \in [Visits -> Visit] /\ visit'[v] = r
        /\ \A w \in Visits : w # v => visit'[w] = visit[w]
    BY DEF PushedTypeOK
  <1>3. storeFaults \in 0..MaxStoreFaults /\ storeFaults' \in 0..MaxStoreFaults
        /\ (storeFaults < MaxStoreFaults => storeFaults' < MaxStoreFaults)
    BY PushedAssumption DEF PushedTypeOK
  <1>4. PushedTypeOK' /\ now' \in 0..MaxTime
    BY <1>1, <1>2, <1>3 DEF PushedTypeOK
  <1>5. (\A w \in Visits : VisitAt(w, visit[w]))'
    BY <1>1, <1>2 DEF VisitAt
  <1>6. (\A c \in Completions : CompletionAt(c, completion[c]))' /\ OneTaker'
    BY <1>1 DEF CompletionAt, OneTaker, TookIn
  <1>7. \A w \in Visits : Owns(w)' => Owns(w) \/ (w = v /\ ~parUsed /\ parUsed')
    BY <1>1, <1>2 DEF Owns, HoldsIn
  <1>8. OneOwner'
    BY <1>7 DEF OneOwner
  <1>9. \A w \in Visits : w # v /\ Accounted(w) => Accounted(w)'
    BY <1>1, <1>2 DEF Accounted, HoldsIn, Waits, Lapsed
  <1>10. Waits(v) => Accounted(v)'
    BY <1>1 DEF Accounted, Waits, Lapsed
  <1>11. HoldsIn(r) \/ r.pc = "rejected" => Accounted(v)'
    BY <1>2 DEF Accounted, HoldsIn
  <1>12. SpentAccounted'
    <2> SUFFICES ASSUME parUsed', codes' = {}, ~(storeFaults' < MaxStoreFaults)
                 PROVE  \E w \in Visits : Accounted(w)'
      BY DEF SpentAccounted
    <2>1. CASE HoldsIn(r) \/ r.pc = "rejected"
      BY <1>11, <2>1
    <2>2. CASE parUsed /\ ~HoldsIn(visit[v]) /\ visit[v].pc # "rejected"
      <3>1. PICK w \in Visits : Accounted(w)
        BY <1>3, <2>2 DEF SpentAccounted
      <3>2. CASE w = v
        BY <1>10, <2>2, <3>1, <3>2 DEF Accounted
      <3>3. CASE w # v
        BY <1>9, <3>1, <3>3
      <3> QED BY <3>2, <3>3
    <2> QED BY <2>1, <2>2
  <1> QED BY <1>4, <1>5, <1>6, <1>8, <1>12

\* What moving a visit to another step does to its record.
LEMMA VisitGoesTo ==
    ASSUME PushedInv, NEW v \in Visits,
           NEW step \in {"factor", "mark", "password", "prepare", "continue", "issue",
                         "rejected", "ended"},
           VisitGoes(v, step)
    PROVE  \E r \in Visit : /\ visit' = [visit EXCEPT ![v] = r]
                            /\ r.pc = step /\ r.post = visit[v].post
  <1>1. visit[v] \in Visit
    BY DEF PushedInv, PushedTypeOK
  <1> DEFINE r == [visit[v] EXCEPT !.pc = step]
  <1>2. r \in Visit /\ r.pc = step /\ r.post = visit[v].post
    BY <1>1 DEF Visit
  <1>3. visit' = [visit EXCEPT ![v] = r]
    BY DEF VisitGoes, PushedInv, PushedTypeOK
  <1> HIDE DEF r
  <1> QED BY <1>2, <1>3

\* A visit holds the request or is before the mark, until it ends.
LEMMA VisitStep ==
    ASSUME PushedInv, NEW v \in Visits,
           \/ Resolve(v) \/ ReadSession(v) \/ ReadFactor(v) \/ MarkUsed(v)
           \/ CheckPassword(v) \/ VisitFails(v)
    PROVE  PushedInv'
  <1> USE DEF PushedInv
  <1>1. /\ visit[v] \in Visit /\ parUsed \in BOOLEAN /\ VisitAt(v, visit[v])
        /\ MaxStoreFaults \in Nat /\ storeFaults \in 0..MaxStoreFaults
        /\ storeFaults \in 0..storeFaults
    BY PushedAssumption DEF PushedTypeOK
  <1>2. StoreFault => storeFaults' \in 0..storeFaults /\ storeFaults' < MaxStoreFaults
    BY <1>1 DEF StoreFault
  <1>3. UNCHANGED <<now, browser, waiting, completion, codes>>
    BY DEF Resolve, ReadSession, ReadFactor, MarkUsed, CheckPassword, VisitFails
  <1>4. CASE Resolve(v)
    <2>1. PICK post \in BOOLEAN, step \in {"ended", "mark", "session"} :
            /\ visit' = [visit EXCEPT ![v] = [post |-> post, pc |-> step]]
            /\ step = "session" => ~post
      BY <1>4 DEF Resolve
    <2> DEFINE r == [post |-> post, pc |-> step]
    <2>2. r \in Visit /\ r.pc = step /\ r.post = post
      BY DEF Visit
    <2>3. visit' = [visit EXCEPT ![v] = r] /\ visit[v].pc = "idle" /\ UNCHANGED <<parUsed, storeFaults>>
      BY <1>4, <2>1 DEF Resolve
    <2> HIDE DEF r
    <2>4. VisitAt(v, r) /\ ~HoldsIn(r) /\ ~HoldsIn(visit[v])
      BY <1>1, <2>1, <2>2, <2>3 DEF VisitAt, HoldsIn
    <2> QED BY <1>1, <1>3, <2>2, <2>3, <2>4, VisitWalks
  <1>5. CASE ReadSession(v)
    <2>1. PICK step \in {"factor", "ended"} : VisitGoes(v, step)
      BY <1>5 DEF ReadSession
    <2>2. PICK r \in Visit : /\ visit' = [visit EXCEPT ![v] = r]
                             /\ r.pc = step /\ r.post = visit[v].post
      BY <2>1, VisitGoesTo
    <2>3. visit[v].pc = "session" /\ UNCHANGED <<parUsed, storeFaults>>
      BY <1>5 DEF ReadSession
    <2>4. VisitAt(v, r) /\ ~HoldsIn(r) /\ ~HoldsIn(visit[v])
      BY <1>1, <2>1, <2>2, <2>3 DEF VisitAt, HoldsIn
    <2> QED BY <1>1, <1>3, <2>2, <2>3, <2>4, VisitWalks
  <1>6. CASE ReadFactor(v)
    <2>1. PICK step \in {"issue", "mark", "prepare", "ended"} :
            /\ VisitGoes(v, step)
            /\ step \in {"issue", "prepare"} <=> visit[v].post
      BY <1>6 DEF ReadFactor
    <2>2. PICK r \in Visit : /\ visit' = [visit EXCEPT ![v] = r]
                             /\ r.pc = step /\ r.post = visit[v].post
      BY <2>1, VisitGoesTo
    <2>3. visit[v].pc = "factor" /\ UNCHANGED <<parUsed, storeFaults>>
      BY <1>6 DEF ReadFactor
    <2>4. VisitAt(v, r) /\ (HoldsIn(r) <=> HoldsIn(visit[v]))
      BY <1>1, <2>1, <2>2, <2>3 DEF VisitAt, HoldsIn
    <2> QED BY <1>1, <1>3, <2>2, <2>3, <2>4, VisitWalks
  <1>7. CASE MarkUsed(v)
    <2>1. PICK step \in {"password", "issue", "ended"} :
            /\ VisitGoes(v, step)
            /\ step = "password" => visit[v].post
            /\ \/ ~parUsed /\ parUsed' = TRUE /\ UNCHANGED storeFaults /\ step # "ended"
               \/ UNCHANGED <<parUsed, storeFaults>> /\ step = "ended" /\ parUsed
               \/ StoreFault /\ parUsed' \in {parUsed, TRUE} /\ step = "ended"
      BY <1>7 DEF MarkUsed, Markable
    <2>2. PICK r \in Visit : /\ visit' = [visit EXCEPT ![v] = r]
                             /\ r.pc = step /\ r.post = visit[v].post
      BY <2>1, VisitGoesTo
    <2>3. visit[v].pc = "mark"
      BY <1>7 DEF MarkUsed
    <2>4. /\ VisitAt(v, r) /\ ~HoldsIn(visit[v])
          /\ step = "ended" => ~HoldsIn(r)
          /\ step # "ended" => HoldsIn(r)
      BY <1>1, <2>1, <2>2, <2>3 DEF VisitAt, HoldsIn
    <2>5. parUsed' \in BOOLEAN /\ (parUsed => parUsed') /\ storeFaults' \in 0..storeFaults
      <3>1. CASE ~parUsed /\ parUsed' = TRUE /\ UNCHANGED storeFaults
        BY <1>1, <3>1
      <3>2. CASE UNCHANGED <<parUsed, storeFaults>>
        BY <1>1, <3>2
      <3>3. CASE StoreFault /\ parUsed' = parUsed
        BY <1>1, <1>2, <3>3
      <3>4. CASE StoreFault /\ parUsed' = TRUE
        BY <1>1, <1>2, <3>4
      <3> QED BY <2>1, <3>1, <3>2, <3>3, <3>4
    <2>6. HoldsIn(r) => ~parUsed /\ parUsed'
      BY <2>1, <2>4
    <2>7. parUsed' => \/ storeFaults' < MaxStoreFaults \/ HoldsIn(r)
                      \/ parUsed /\ ~HoldsIn(visit[v]) /\ visit[v].pc # "rejected"
      BY <1>2, <2>1, <2>3, <2>4
    <2> QED BY <1>3, <2>2, <2>4, <2>5, <2>6, <2>7, VisitWalks
  <1>8. CASE CheckPassword(v)
    <2>1. PICK step \in {"factor", "rejected"} : VisitGoes(v, step)
      BY <1>8 DEF CheckPassword
    <2>2. PICK r \in Visit : /\ visit' = [visit EXCEPT ![v] = r]
                             /\ r.pc = step /\ r.post = visit[v].post
      BY <2>1, VisitGoesTo
    <2>3. visit[v].pc = "password" /\ UNCHANGED <<parUsed, storeFaults>>
      BY <1>8 DEF CheckPassword
    <2>4. VisitAt(v, r) /\ HoldsIn(visit[v]) /\ (HoldsIn(r) \/ r.pc = "rejected")
      BY <1>1, <2>1, <2>2, <2>3 DEF VisitAt, HoldsIn
    <2> QED BY <1>1, <1>3, <2>2, <2>3, <2>4, VisitWalks
  <1>9. CASE VisitFails(v)
    <2>1. VisitGoes(v, "ended") /\ StoreFault /\ UNCHANGED parUsed
      BY <1>9 DEF VisitFails
    <2>2. PICK r \in Visit : /\ visit' = [visit EXCEPT ![v] = r]
                             /\ r.pc = "ended" /\ r.post = visit[v].post
      BY <2>1, VisitGoesTo
    <2>3. VisitAt(v, r) /\ ~HoldsIn(r)
      BY <1>1, <2>2 DEF VisitAt, HoldsIn
    <2> QED BY <1>1, <1>2, <1>3, <2>1, <2>2, <2>3, VisitWalks
  <1> QED BY <1>4, <1>5, <1>6, <1>7, <1>8, <1>9

\* The owner stores an approval and its continuation, or the code.
LEMMA OwnerStep ==
    ASSUME PushedInv, NEW v \in Visits, Prepare(v) \/ Continue(v) \/ Issue(v)
    PROVE  PushedInv'
  <1> USE DEF PushedInv
  <1>1. /\ visit[v] \in Visit /\ VisitAt(v, visit[v]) /\ HoldsIn(visit[v])
        /\ UNCHANGED <<now, parUsed, browser, completion, storeFaults>>
        /\ parUsed \in BOOLEAN /\ storeFaults \in 0..storeFaults
    <2>1. visit[v].pc \in {"prepare", "continue", "issue"}
          /\ UNCHANGED <<now, parUsed, browser, completion, storeFaults>>
      BY DEF Prepare, Continue, Issue
    <2>2. /\ visit[v] \in Visit /\ VisitAt(v, visit[v]) /\ parUsed \in BOOLEAN
          /\ storeFaults \in 0..storeFaults
      BY PushedAssumption DEF PushedTypeOK
    <2> QED BY <2>1, <2>2 DEF HoldsIn
  <1>2. parUsed /\ Owns(v) /\ \A w \in Visits : Owns(w) => w = v
    BY <1>1 DEF Owns, OneOwner
  <1>3. v \notin Completions /\ \A c \in Completions : c \notin Visits
    BY PushedAssumption
  <1>4. /\ approval \in [Visits -> {"none", "pending", "approved", "denied", "redeemed"}]
        /\ continuation \in [Visits -> {"none", "open", "consumed"}]
        /\ waitsUntil \in [Visits -> Nat] /\ completion \in [Completions -> Completion]
    BY DEF PushedTypeOK
  <1>5. \A c \in Completions : completion[c].pc # "idle" => completion[c].of \in Visits
    BY <1>4 DEF Completion
  <1>6. CASE Prepare(v) /\ VisitGoes(v, "rejected") /\ UNCHANGED <<approval, waitsUntil>>
    <2>1. PICK r \in Visit : /\ visit' = [visit EXCEPT ![v] = r]
                             /\ r.pc = "rejected" /\ r.post = visit[v].post
      BY <1>6, VisitGoesTo
    <2>2. UNCHANGED <<waiting, codes>> /\ visit[v].pc = "prepare"
      BY <1>6 DEF Prepare, waiting
    <2>3. VisitAt(v, r) /\ ~HoldsIn(r)
      BY <1>1, <2>1, <2>2 DEF VisitAt, HoldsIn
    <2> QED BY <1>1, <2>1, <2>2, <2>3, VisitWalks
  <1>7. CASE /\ Prepare(v) /\ device = "active" /\ VisitGoes(v, "continue")
             /\ approval' = [approval EXCEPT ![v] = "pending"]
             /\ waitsUntil' = [waitsUntil EXCEPT ![v] = now + ApprovalTtl]
    <2>1. PICK r \in Visit : /\ visit' = [visit EXCEPT ![v] = r]
                             /\ r.pc = "continue" /\ r.post = visit[v].post
      BY <1>7, VisitGoesTo
    <2>2. UNCHANGED <<continuation, codes, signedIn, device>> /\ visit[v].pc = "prepare"
      BY <1>7 DEF Prepare, browser
    <2>3. approval[v] = "none" /\ continuation[v] = "none" /\ v \notin codes /\ visit[v].post
      BY <1>1, <2>2 DEF VisitAt
    <2>4. /\ visit' \in [Visits -> Visit] /\ visit'[v] = r
          /\ \A w \in Visits : w # v => visit'[w] = visit[w]
      BY <2>1 DEF PushedTypeOK
    <2>5. now + ApprovalTtl \in Nat
      BY PushedAssumption, ClockAssumption
    <2>6. /\ approval'[v] = "pending" /\ \A w \in Visits : w # v => approval'[w] = approval[w]
          /\ approval' \in [Visits -> {"none", "pending", "approved", "denied", "redeemed"}]
          /\ waitsUntil' \in [Visits -> Nat]
      BY <1>4, <1>7, <2>5
    <2>7. PushedTypeOK' /\ now' \in 0..MaxTime
      BY <1>1, <2>2, <2>4, <2>6 DEF PushedTypeOK
    <2>8. (\A w \in Visits : VisitAt(w, visit[w]))'
      BY <1>7, <2>1, <2>2, <2>3, <2>4, <2>6 DEF VisitAt
    <2>9. (\A c \in Completions : CompletionAt(c, completion[c]))'
      <3>1. \A c \in Completions : completion[c].pc \in {"consume", "redeem"} =>
               completion[c].of # v
        BY <2>3 DEF CompletionAt
      <3> QED BY <1>1, <1>5, <2>2, <2>6, <3>1 DEF CompletionAt, TookIn
    <2>10. OneTaker'
      BY <1>1, <2>2 DEF OneTaker, TookIn
    <2>11. OneOwner'
      <3>1. \A w \in Visits : w # v => (Owns(w)' <=> Owns(w))
        BY <2>2, <2>4, <2>6 DEF Owns, HoldsIn
      <3> QED BY <1>1, <1>2, <3>1 DEF OneOwner
    <2>12. SpentAccounted'
      BY <2>1, <2>4 DEF SpentAccounted, Accounted, HoldsIn
    <2> QED BY <2>7, <2>8, <2>9, <2>10, <2>11, <2>12
  <1>8. CASE Continue(v)
    <2>1. PICK r \in Visit : /\ visit' = [visit EXCEPT ![v] = r]
                             /\ r.pc = "ended" /\ r.post = visit[v].post
      BY <1>8, VisitGoesTo DEF Continue
    <2>2. /\ UNCHANGED <<approval, waitsUntil, codes, signedIn, device>> /\ visit[v].pc = "continue"
          /\ continuation' = [continuation EXCEPT ![v] = "open"]
      BY <1>8 DEF Continue, browser
    <2>3. approval[v] # "none" /\ continuation[v] = "none" /\ v \notin codes
      BY <1>1, <2>2 DEF VisitAt
    <2>4. /\ visit' \in [Visits -> Visit] /\ visit'[v] = r
          /\ \A w \in Visits : w # v => visit'[w] = visit[w]
      BY <2>1 DEF PushedTypeOK
    <2>5. /\ continuation'[v] = "open"
          /\ \A w \in Visits : w # v => continuation'[w] = continuation[w]
          /\ continuation' \in [Visits -> {"none", "open", "consumed"}]
      BY <1>4, <2>2
    <2>6. PushedTypeOK' /\ now' \in 0..MaxTime
      BY <1>1, <2>2, <2>4, <2>5 DEF PushedTypeOK
    <2>7. (\A w \in Visits : VisitAt(w, visit[w]))'
      BY <1>1, <2>1, <2>2, <2>3, <2>4, <2>5 DEF VisitAt
    <2>8. (\A c \in Completions : CompletionAt(c, completion[c]))'
      <3>1. \A c \in Completions : TookIn(c, completion[c]) => completion[c].of # v
        BY <2>3 DEF CompletionAt
      <3> QED BY <1>1, <1>5, <2>2, <2>5, <3>1 DEF CompletionAt, TookIn
    <2>9. OneTaker'
      BY <1>1, <2>2 DEF OneTaker, TookIn
    <2>10. OneOwner'
      <3>1. \A w \in Visits : Owns(w)' => Owns(w)
        BY <2>1, <2>2, <2>4 DEF Owns, HoldsIn
      <3> QED BY <1>1, <1>2, <3>1 DEF OneOwner
    <2>11. SpentAccounted'
      BY <2>5 DEF SpentAccounted, Accounted, Waits
    <2> QED BY <2>6, <2>7, <2>8, <2>9, <2>10, <2>11
  <1>9. CASE Issue(v)
    <2>1. PICK r \in Visit : /\ visit' = [visit EXCEPT ![v] = r]
                             /\ r.pc = "ended" /\ r.post = visit[v].post
      BY <1>9, VisitGoesTo DEF Issue
    <2>2. /\ UNCHANGED <<approval, continuation, waitsUntil, signedIn, device>>
          /\ visit[v].pc = "issue" /\ codes' = codes \cup {v}
      BY <1>9 DEF Issue, browser, waiting
    <2>3. approval[v] = "none" /\ v \notin codes
      BY <1>1, <2>2 DEF VisitAt
    <2>4. /\ visit' \in [Visits -> Visit] /\ visit'[v] = r
          /\ \A w \in Visits : w # v => visit'[w] = visit[w]
      BY <2>1 DEF PushedTypeOK
    <2>5. PushedTypeOK' /\ now' \in 0..MaxTime
      BY <1>1, <2>2, <2>4 DEF PushedTypeOK
    <2>6. (\A w \in Visits : VisitAt(w, visit[w]))'
      BY <1>1, <2>1, <2>2, <2>3, <2>4 DEF VisitAt
    <2>7. (\A c \in Completions : CompletionAt(c, completion[c]))' /\ OneTaker'
      BY <1>1, <1>3, <2>2 DEF CompletionAt, OneTaker, TookIn
    <2>8. OneOwner'
      <3>1. \A w \in Visits : Owns(w)' => Owns(w)
        BY <1>2, <2>1, <2>2, <2>4 DEF Owns, HoldsIn
      <3> QED BY <1>1, <1>2, <3>1 DEF OneOwner
    <2>9. SpentAccounted'
      BY <2>2 DEF SpentAccounted
    <2> QED BY <2>5, <2>6, <2>7, <2>8, <2>9
  <1> QED BY <1>6, <1>7, <1>8, <1>9 DEF Prepare

\* A step of the device or of a completion: the visits stay.  The approvals and
\* continuations that were there stay there.
LEMMA OwnersKept ==
    ASSUME PushedInv, UNCHANGED <<parUsed, visit>>, codes' \cap Visits = codes \cap Visits,
           \A v \in Visits : approval'[v] # "none" <=> approval[v] # "none"
    PROVE  OneOwner'
  <1>1. \A v \in Visits : Owns(v)' <=> Owns(v)
    BY DEF Owns, HoldsIn
  <1> QED BY <1>1 DEF PushedInv, OneOwner

\* Signing or refusing the push keeps the request invariant.
LEMMA DecideStep ==
    ASSUME PushedInv, NEW v \in Visits, DecideApproval(v)
    PROVE  PushedInv'
  <1> USE DEF PushedInv
  <1>1. UNCHANGED <<now, parUsed, signedIn, device, continuation, waitsUntil, visit, completion,
                    codes, storeFaults>>
        /\ approval[v] = "pending"
    BY DEF DecideApproval, browser
  <1>2. PICK d \in {"approved", "denied"} : approval' = [approval EXCEPT ![v] = d]
    BY DEF DecideApproval
  <1>3. /\ approval' \in [Visits -> {"none", "pending", "approved", "denied", "redeemed"}]
        /\ approval'[v] = d /\ \A w \in Visits : w # v => approval'[w] = approval[w]
    BY <1>2 DEF PushedTypeOK
  <1>4. PushedTypeOK' /\ now' \in 0..MaxTime
    BY <1>1, <1>3 DEF PushedTypeOK
  <1>5. (\A w \in Visits : VisitAt(w, visit[w]))'
    BY <1>1, <1>3 DEF VisitAt
  <1>6. (\A c \in Completions : CompletionAt(c, completion[c]))'
    <2>1. \A c \in Completions : completion[c].pc # "idle" => completion[c].of \in Visits
      BY DEF PushedTypeOK, Completion
    <2> QED BY <1>1, <1>3, <2>1 DEF CompletionAt, TookIn
  <1>7. OneTaker'
    BY <1>1 DEF OneTaker, TookIn
  <1>8. OneOwner'
    BY <1>1, <1>3, OwnersKept
  <1>9. \A w \in Visits : Accounted(w) => Accounted(w)'
    BY <1>1, <1>3 DEF Accounted, HoldsIn, Waits, Lapsed
  <1>10. SpentAccounted'
    BY <1>1, <1>9 DEF SpentAccounted
  <1> QED BY <1>4, <1>5, <1>6, <1>7, <1>8, <1>10

\* A step of completion c alone, which stores nothing.
LEMMA CompletionWalks ==
    ASSUME PushedInv, NEW c \in Completions, NEW r \in Completion,
           completion' = [completion EXCEPT ![c] = r],
           UNCHANGED <<now, parUsed, browser, waiting, visit, codes>>,
           storeFaults' \in 0..storeFaults, CompletionAt(c, r), ~TookIn(c, r),
           \/ storeFaults' < MaxStoreFaults
           \/ completion[c].pc \notin {"redeem", "issue"}
           \/ Lapsed(completion[c].of)
    PROVE  PushedInv'
  <1> USE DEF PushedInv
  <1>1. UNCHANGED <<signedIn, device, approval, continuation, waitsUntil>>
    BY DEF browser, waiting
  <1>2. /\ completion' \in [Completions -> Completion] /\ completion'[c] = r
        /\ \A d \in Completions : d # c => completion'[d] = completion[d]
    BY DEF PushedTypeOK
  <1>3. storeFaults \in 0..MaxStoreFaults /\ storeFaults' \in 0..MaxStoreFaults
        /\ (storeFaults < MaxStoreFaults => storeFaults' < MaxStoreFaults)
    BY PushedAssumption DEF PushedTypeOK
  <1>4. PushedTypeOK' /\ now' \in 0..MaxTime
    BY <1>1, <1>2, <1>3 DEF PushedTypeOK
  <1>5. (\A w \in Visits : VisitAt(w, visit[w]))'
    BY <1>1 DEF VisitAt
  <1>6. (\A d \in Completions : CompletionAt(d, completion[d]))'
    BY <1>1, <1>2 DEF CompletionAt, TookIn
  <1>7. OneTaker'
    BY <1>2 DEF OneTaker, TookIn
  <1>8. OneOwner'
    BY <1>1, OwnersKept
  <1>9. ASSUME NEW w \in Visits, Accounted(w), ~(storeFaults' < MaxStoreFaults)
        PROVE  Accounted(w)'
    <2>1. CASE HoldsIn(visit[w]) \/ visit[w].pc = "rejected"
      BY <2>1 DEF Accounted, HoldsIn
    <2>2. CASE Waits(w)
      <3>1. CASE Lapsed(w) \/ continuation[w] = "open"
        BY <1>1, <2>2, <3>1 DEF Accounted, Waits, Lapsed
      <3>2. ASSUME NEW d \in Completions, completion[d].pc \in {"redeem", "issue"},
                   completion[d].of = w
            PROVE  Accounted(w)'
        <4>1. CASE d = c
          BY <1>1, <1>9, <2>2, <3>2, <4>1 DEF Accounted, Waits, Lapsed
        <4>2. CASE d # c
          BY <1>1, <1>2, <2>2, <3>2, <4>2 DEF Accounted, Waits
        <4> QED BY <4>1, <4>2
      <3> QED BY <2>2, <3>1, <3>2 DEF Waits
    <2> QED BY <1>9, <2>1, <2>2 DEF Accounted
  <1>10. SpentAccounted'
    BY <1>3, <1>9 DEF SpentAccounted
  <1> QED BY <1>4, <1>5, <1>6, <1>7, <1>8, <1>10

\* A completion that moves on stays a completion of the same visit.
LEMMA CompletionGoesTo ==
    ASSUME PushedInv, NEW c \in Completions, completion[c].pc # "idle",
           NEW step \in {"redeem", "issue", "ended"}, CompletionGoes(c, step)
    PROVE  \E r \in Completion : /\ completion' = [completion EXCEPT ![c] = r]
                                 /\ r.pc = step /\ r.of = completion[c].of /\ r.of \in Visits
  <1>1. completion[c] \in [pc: {"consume", "redeem", "issue", "ended"}, of: Visits]
    BY DEF PushedInv, PushedTypeOK, Completion
  <1> DEFINE r == [completion[c] EXCEPT !.pc = step]
  <1>2. r \in Completion /\ r.pc = step /\ r.of = completion[c].of /\ r.of \in Visits
    BY <1>1 DEF Completion
  <1>3. completion' = [completion EXCEPT ![c] = r]
    BY DEF CompletionGoes, PushedInv, PushedTypeOK
  <1> HIDE DEF r
  <1> QED BY <1>2, <1>3

\* Loading the continuation keeps the request invariant.
LEMMA LoadStep ==
    ASSUME PushedInv, NEW c \in Completions, NEW v \in Visits, LoadApproval(c, v)
    PROVE  PushedInv'
  <1>1. /\ UNCHANGED <<now, parUsed, browser, waiting, visit, codes, storeFaults>>
        /\ completion[c].pc = "idle"
    BY DEF LoadApproval
  <1>2. PICK step \in {"consume", "ended"} :
          /\ completion' = [completion EXCEPT ![c] = [of |-> v, pc |-> step]]
          /\ step = "consume" => approval[v] = "approved"
    BY DEF LoadApproval
  <1> DEFINE r == [of |-> v, pc |-> step]
  <1>3. r \in Completion /\ r.pc = step /\ r.of = v
    BY DEF Completion
  <1>4. completion' = [completion EXCEPT ![c] = r]
    BY <1>2
  <1> HIDE DEF r
  <1>5. c \notin codes
    BY <1>1 DEF PushedInv, CompletionAt
  <1>6. CompletionAt(c, r) /\ ~TookIn(c, r)
    BY <1>2, <1>3, <1>5 DEF CompletionAt, TookIn
  <1>7. storeFaults' \in 0..storeFaults
    BY <1>1, PushedAssumption DEF PushedInv, PushedTypeOK
  <1> QED BY <1>1, <1>3, <1>4, <1>6, <1>7, CompletionWalks

\* A completion that fails keeps the request invariant.
LEMMA CompletionFailsStep ==
    ASSUME PushedInv, NEW c \in Completions, CompletionFails(c)
    PROVE  PushedInv'
  <1>1. /\ UNCHANGED <<now, parUsed, browser, waiting, visit, codes>>
        /\ completion[c].pc \notin {"idle", "ended"} /\ CompletionGoes(c, "ended") /\ StoreFault
    BY DEF CompletionFails
  <1>2. PICK r \in Completion : /\ completion' = [completion EXCEPT ![c] = r]
                                /\ r.pc = "ended" /\ r.of = completion[c].of
    BY <1>1, CompletionGoesTo
  <1>3. c \notin codes
    BY <1>1 DEF PushedInv, CompletionAt
  <1>4. CompletionAt(c, r) /\ ~TookIn(c, r)
    BY <1>2, <1>3 DEF CompletionAt, TookIn
  <1>5. storeFaults' \in 0..storeFaults /\ storeFaults' < MaxStoreFaults
    BY <1>1, PushedAssumption DEF StoreFault, PushedInv, PushedTypeOK
  <1> QED BY <1>1, <1>2, <1>4, <1>5, CompletionWalks

\* The continuation is taken once, from an approval nobody has redeemed.
LEMMA ConsumeStep ==
    ASSUME PushedInv, NEW c \in Completions, Consume(c)
    PROVE  PushedInv'
  <1> USE DEF PushedInv
  <1>0. PICK v \in Visits : v = completion[c].of
    BY DEF Consume, PushedTypeOK, Completion
  <1> USE <1>0
  <1>1. /\ UNCHANGED <<now, parUsed, browser, approval, waitsUntil, visit, codes, storeFaults>>
        /\ completion[c].pc = "consume"
    BY DEF Consume
  <1>2. /\ CompletionAt(c, completion[c]) /\ c \notin codes
        /\ approval[v] \in {"approved", "redeemed"}
    BY <1>1 DEF CompletionAt
  <1>3. CASE CompletionGoes(c, "ended") /\ UNCHANGED continuation
    <2>1. PICK r \in Completion : /\ completion' = [completion EXCEPT ![c] = r]
                                  /\ r.pc = "ended" /\ r.of = completion[c].of
      BY <1>1, <1>3, CompletionGoesTo
    <2>2. CompletionAt(c, r) /\ ~TookIn(c, r)
      BY <1>2, <2>1 DEF CompletionAt, TookIn
    <2>3. storeFaults' \in 0..storeFaults
      BY <1>1, PushedAssumption DEF PushedTypeOK
    <2>4. UNCHANGED waiting
      BY <1>1, <1>3 DEF waiting
    <2> QED BY <1>1, <2>1, <2>2, <2>3, <2>4, CompletionWalks
  <1>4. CASE /\ continuation[v] = "open" /\ CompletionGoes(c, "redeem")
             /\ continuation' = [continuation EXCEPT ![v] = "consumed"]
    <2>1. PICK r \in Completion : /\ completion' = [completion EXCEPT ![c] = r]
                                  /\ r.pc = "redeem" /\ r.of = v /\ r.of \in Visits
      BY <1>1, <1>4, CompletionGoesTo
    <2>2. UNCHANGED <<signedIn, device>>
      BY <1>1 DEF browser
    <2>3. /\ completion' \in [Completions -> Completion] /\ completion'[c] = r
          /\ \A d \in Completions : d # c => completion'[d] = completion[d]
      BY <2>1 DEF PushedTypeOK
    <2>4. /\ continuation' \in [Visits -> {"none", "open", "consumed"}]
          /\ continuation'[v] = "consumed" /\ v \in Visits
          /\ \A w \in Visits : w # v => continuation'[w] = continuation[w]
      BY <1>4, <2>1 DEF PushedTypeOK
    <2>5. approval[v] = "approved" /\ visit[v].pc # "continue"
      BY <1>2, <1>4, <2>4 DEF VisitAt
    <2>6. PushedTypeOK' /\ now' \in 0..MaxTime
      BY <1>1, <2>2, <2>3, <2>4 DEF PushedTypeOK
    <2>7. (\A w \in Visits : VisitAt(w, visit[w]))'
      BY <1>1, <2>2, <2>4, <2>5 DEF VisitAt
    <2>8. \A d \in Completions : TookIn(d, completion[d]) => completion[d].of # v
      BY <1>4 DEF CompletionAt
    <2>9. (\A d \in Completions : CompletionAt(d, completion[d]))'
      <3>1. \A d \in Completions : completion[d].pc # "idle" => completion[d].of \in Visits
        BY DEF PushedTypeOK, Completion
      <3>2. CompletionAt(c, completion[c])'
        BY <1>1, <1>2, <2>1, <2>3, <2>4, <2>5 DEF CompletionAt, TookIn
      <3>3. ASSUME NEW d \in Completions, d # c PROVE CompletionAt(d, completion[d])'
        BY <1>1, <2>3, <2>4, <2>8, <3>1, <3>3 DEF CompletionAt, TookIn
      <3> QED BY <3>2, <3>3
    <2>10. OneTaker'
      BY <1>1, <2>1, <2>3, <2>8 DEF OneTaker, TookIn
    <2>11. OneOwner'
      BY <1>1, OwnersKept
    <2>12. \A w \in Visits : w # v /\ Accounted(w) => Accounted(w)'
      <3> SUFFICES ASSUME NEW w \in Visits, w # v, Accounted(w) PROVE Accounted(w)'
        OBVIOUS
      <3>1. CASE HoldsIn(visit[w]) \/ visit[w].pc = "rejected"
        BY <1>1, <3>1 DEF Accounted, HoldsIn
      <3>2. CASE Waits(w)
        <4>1. CASE Lapsed(w) \/ continuation[w] = "open"
          BY <1>1, <2>2, <2>4, <3>2, <4>1 DEF Accounted, Waits, Lapsed
        <4>2. CASE \E d \in Completions :
                      completion[d].pc \in {"redeem", "issue"} /\ completion[d].of = w
          BY <1>1, <2>3, <2>4, <3>2, <4>2 DEF Accounted, Waits
        <4> QED BY <3>2, <4>1, <4>2 DEF Waits
      <3> QED BY <3>1, <3>2 DEF Accounted
    <2>13. Accounted(v)'
      BY <2>1, <2>3, <2>4 DEF Accounted, Waits
    <2>14. SpentAccounted'
      BY <2>4, <2>13 DEF SpentAccounted
    <2> QED BY <2>6, <2>7, <2>9, <2>10, <2>11, <2>14
  <1> QED BY <1>3, <1>4 DEF Consume

\* Only the completion that took the continuation can redeem the approval; when
\* it may not, the approval has lapsed.
LEMMA RedeemApprovalStep ==
    ASSUME PushedInv, NEW c \in Completions, RedeemApproval(c)
    PROVE  PushedInv'
  <1> USE DEF PushedInv
  <1>0. PICK v \in Visits : v = completion[c].of
    BY DEF RedeemApproval, PushedTypeOK, Completion
  <1> USE <1>0
  <1>1. /\ UNCHANGED <<now, parUsed, browser, continuation, waitsUntil, visit, codes, storeFaults>>
        /\ completion[c].pc = "redeem"
    BY DEF RedeemApproval
  <1>2. /\ CompletionAt(c, completion[c]) /\ c \notin codes /\ TookIn(c, completion[c])
        /\ approval[v] = "approved" /\ continuation[v] = "consumed"
    BY <1>1 DEF CompletionAt, TookIn
  <1>3. v \in Visits
    BY <1>1 DEF PushedTypeOK, Completion
  <1>4. CASE /\ CompletionGoes(c, "ended") /\ UNCHANGED approval
             /\ ~(now < waitsUntil[v] /\ device = "active")
    <2>1. PICK r \in Completion : /\ completion' = [completion EXCEPT ![c] = r]
                                  /\ r.pc = "ended" /\ r.of = completion[c].of
      BY <1>1, <1>4, CompletionGoesTo
    <2>2. CompletionAt(c, r) /\ ~TookIn(c, r)
      BY <1>2, <2>1 DEF CompletionAt, TookIn
    <2>3. storeFaults' \in 0..storeFaults
      BY <1>1, PushedAssumption DEF PushedTypeOK
    <2>4. UNCHANGED waiting
      BY <1>1, <1>4 DEF waiting
    <2>5. Lapsed(v)
      <3>1. device \in {"none", "active", "revoked"} /\ device # "none"
        BY <1>2, <1>3 DEF PushedTypeOK, VisitAt
      <3>2. now \in Nat /\ waitsUntil[v] \in Nat
        BY <1>3, ClockAssumption DEF PushedTypeOK
      <3> QED BY <1>4, <3>1, <3>2 DEF Lapsed
    <2> QED BY <1>1, <2>1, <2>2, <2>3, <2>4, <2>5, CompletionWalks
  <1>5. CASE CompletionGoes(c, "issue") /\ approval' = [approval EXCEPT ![v] = "redeemed"]
             /\ device = "active"
    <2>1. PICK r \in Completion : /\ completion' = [completion EXCEPT ![c] = r]
                                  /\ r.pc = "issue" /\ r.of = v
      BY <1>1, <1>5, CompletionGoesTo
    <2>2. UNCHANGED <<signedIn, device>>
      BY <1>1 DEF browser
    <2>3. /\ completion' \in [Completions -> Completion] /\ completion'[c] = r
          /\ \A d \in Completions : d # c => completion'[d] = completion[d]
      BY <2>1 DEF PushedTypeOK
    <2>4. /\ approval' \in [Visits -> {"none", "pending", "approved", "denied", "redeemed"}]
          /\ approval'[v] = "redeemed"
          /\ \A w \in Visits : w # v => approval'[w] = approval[w]
      BY <1>3, <1>5 DEF PushedTypeOK
    <2>5. PushedTypeOK' /\ now' \in 0..MaxTime
      BY <1>1, <2>2, <2>3, <2>4 DEF PushedTypeOK
    <2>6. (\A w \in Visits : VisitAt(w, visit[w]))'
      BY <1>1, <1>2, <1>5, <2>2, <2>4 DEF VisitAt
    <2>7. \A d \in Completions : TookIn(d, completion[d]) /\ completion[d].of = v => d = c
      BY <1>2 DEF OneTaker
    <2>8. (\A d \in Completions : CompletionAt(d, completion[d]))'
      <3>1. \A d \in Completions : completion[d].pc # "idle" => completion[d].of \in Visits
        BY DEF PushedTypeOK, Completion
      <3>2. CompletionAt(c, completion[c])'
        BY <1>1, <1>2, <2>1, <2>3 DEF CompletionAt, TookIn
      <3>3. ASSUME NEW d \in Completions, d # c PROVE CompletionAt(d, completion[d])'
        BY <1>1, <2>3, <2>4, <2>7, <3>1, <3>3 DEF CompletionAt, TookIn
      <3> QED BY <3>2, <3>3
    <2>9. OneTaker'
      BY <1>1, <1>2, <2>1, <2>3, <2>7 DEF OneTaker, TookIn
    <2>10. OneOwner'
      <3>1. \A w \in Visits : approval'[w] # "none" <=> approval[w] # "none"
        BY <1>2, <2>4
      <3> QED BY <1>1, <3>1, OwnersKept
    <2>11. Accounted(v)'
      BY <1>1, <1>2, <2>1, <2>3 DEF Accounted, Waits
    <2>12. SpentAccounted'
      BY <1>3, <2>11 DEF SpentAccounted
    <2> QED BY <2>5, <2>6, <2>8, <2>9, <2>10, <2>12
  <1> QED BY <1>2, <1>4, <1>5 DEF RedeemApproval

\* Issuing the code of an approved push keeps the request invariant.
LEMMA IssueApprovedStep ==
    ASSUME PushedInv, NEW c \in Completions, IssueApproved(c)
    PROVE  PushedInv'
  <1> USE DEF PushedInv
  <1>1. /\ UNCHANGED <<now, parUsed, browser, waiting, visit, storeFaults>>
        /\ completion[c].pc = "issue" /\ codes' = codes \cup {c} /\ CompletionGoes(c, "ended")
    BY DEF IssueApproved
  <1>2. PICK r \in Completion : /\ completion' = [completion EXCEPT ![c] = r]
                                /\ r.pc = "ended" /\ r.of = completion[c].of
    BY <1>1, CompletionGoesTo
  <1>3. UNCHANGED <<signedIn, device, approval, continuation, waitsUntil>>
    BY <1>1 DEF browser, waiting
  <1>4. /\ completion' \in [Completions -> Completion] /\ completion'[c] = r
        /\ \A d \in Completions : d # c => completion'[d] = completion[d]
    BY <1>2 DEF PushedTypeOK
  <1>5. codes' \cap Visits = codes \cap Visits
    BY <1>1, PushedAssumption
  <1>6. PushedTypeOK' /\ now' \in 0..MaxTime
    BY <1>1, <1>3, <1>4 DEF PushedTypeOK
  <1>7. (\A w \in Visits : VisitAt(w, visit[w]))'
    BY <1>1, <1>3, <1>5 DEF VisitAt
  <1>8. TookIn(c, completion[c]) /\ continuation[r.of] = "consumed"
    BY <1>1, <1>2 DEF CompletionAt, TookIn
  <1>9. (\A d \in Completions : CompletionAt(d, completion[d]))'
    BY <1>1, <1>2, <1>3, <1>4, <1>8 DEF CompletionAt, TookIn
  <1>10. OneTaker'
    <2>1. \A d \in Completions : /\ TookIn(d, completion[d])' <=> TookIn(d, completion[d])
                                 /\ TookIn(d, completion[d]) => completion'[d].of = completion[d].of
      BY <1>1, <1>2, <1>4, <1>8 DEF TookIn
    <2> QED BY <2>1 DEF OneTaker
  <1>11. OneOwner'
    BY <1>1, <1>3, <1>5, OwnersKept
  <1>12. SpentAccounted'
    BY <1>1 DEF SpentAccounted
  <1> QED BY <1>6, <1>7, <1>9, <1>10, <1>11, <1>12

\* Time, a logout and the device: a continuation can only lapse.
LEMMA AroundStep ==
    ASSUME PushedInv, SignOut \/ ChangeDevice \/ PushedTick
    PROVE  PushedInv'
  <1> USE DEF PushedInv
  <1>1. /\ UNCHANGED <<parUsed, approval, continuation, waitsUntil, visit, completion, codes,
                       storeFaults>>
        /\ signedIn' \in BOOLEAN /\ device' \in {"none", "active", "revoked"}
        /\ device # "none" => device' # "none"
        /\ device = "revoked" => device' = "revoked"
    BY DEF SignOut, ChangeDevice, PushedTick, browser, waiting, PushedTypeOK
  <1>2. now' \in 0..MaxTime /\ now' >= now
    BY ClockAssumption DEF SignOut, ChangeDevice, PushedTick, Tick
  <1>3. PushedTypeOK'
    BY <1>1 DEF PushedTypeOK
  <1>4. (\A w \in Visits : VisitAt(w, visit[w]))'
    BY <1>1 DEF VisitAt
  <1>5. (\A c \in Completions : CompletionAt(c, completion[c]))' /\ OneTaker'
    BY <1>1 DEF CompletionAt, OneTaker, TookIn
  <1>6. OneOwner'
    BY <1>1, OwnersKept
  <1>7. \A w \in Visits : Lapsed(w) => Lapsed(w)'
    <2>1. \A w \in Visits : waitsUntil[w] \in Nat
      BY DEF PushedTypeOK
    <2> QED BY <1>1, <1>2, <2>1, ClockAssumption DEF Lapsed
  <1>8. \A w \in Visits : Accounted(w) => Accounted(w)'
    BY <1>1, <1>7 DEF Accounted, HoldsIn, Waits
  <1>9. SpentAccounted'
    BY <1>1, <1>8 DEF SpentAccounted
  <1> QED BY <1>2, <1>3, <1>4, <1>5, <1>6, <1>9

\* One visit owns the request, one completion takes its continuation, and a
\* spent request is accounted for, in every state.
THEOREM PushedInvariant == PushedSpec => []PushedInv
  <1>1. PushedInit => PushedInv
    <2> SUFFICES ASSUME PushedInit PROVE PushedInv
      OBVIOUS
    <2>1. now \in 0..MaxTime /\ storeFaults \in 0..MaxStoreFaults
      BY ClockAssumption, PushedAssumption DEF PushedInit
    <2>2. visit \in [Visits -> Visit] /\ \A v \in Visits : visit[v].pc = "idle"
      BY DEF PushedInit, Visit
    <2>3. completion \in [Completions -> Completion] /\ \A c \in Completions : completion[c].pc = "idle"
      BY DEF PushedInit, Completion
    <2>4. /\ codes = {} /\ parUsed = FALSE
          /\ \A v \in Visits : approval[v] = "none" /\ continuation[v] = "none"
      BY DEF PushedInit
    <2>5. PushedTypeOK
      BY <2>1, <2>2, <2>3 DEF PushedInit, PushedTypeOK
    <2> QED BY <2>1, <2>2, <2>3, <2>4, <2>5
            DEF PushedInv, VisitAt, CompletionAt, TookIn, OneOwner, Owns, HoldsIn, OneTaker,
                SpentAccounted
  <1>2. PushedInv /\ [PushedNext]_pushedVars => PushedInv'
    <2> SUFFICES ASSUME PushedInv, [PushedNext]_pushedVars PROVE PushedInv'
      OBVIOUS
    <2>1. CASE UNCHANGED pushedVars
      BY <2>1
         DEF PushedInv, pushedVars, waiting, browser, PushedTypeOK, VisitAt, CompletionAt, TookIn,
             OneOwner, Owns, HoldsIn, OneTaker, SpentAccounted, Accounted, Waits, Lapsed
    <2>2. CASE \E v \in Visits :
                  \/ Resolve(v) \/ ReadSession(v) \/ ReadFactor(v) \/ MarkUsed(v)
                  \/ CheckPassword(v) \/ VisitFails(v)
      BY <2>2, VisitStep
    <2>3. CASE \E v \in Visits : Prepare(v) \/ Continue(v) \/ Issue(v)
      BY <2>3, OwnerStep
    <2>4. CASE \E v \in Visits : DecideApproval(v)
      BY <2>4, DecideStep
    <2>5. CASE \E c \in Completions : \E v \in Visits : LoadApproval(c, v)
      BY <2>5, LoadStep
    <2>6. CASE \E c \in Completions : Consume(c)
      BY <2>6, ConsumeStep
    <2>7. CASE \E c \in Completions : RedeemApproval(c)
      BY <2>7, RedeemApprovalStep
    <2>8. CASE \E c \in Completions : IssueApproved(c)
      BY <2>8, IssueApprovedStep
    <2>9. CASE \E c \in Completions : CompletionFails(c)
      BY <2>9, CompletionFailsStep
    <2>10. CASE SignOut \/ ChangeDevice \/ PushedTick
      BY <2>10, AroundStep
    <2> QED BY <2>1, <2>2, <2>3, <2>4, <2>5, <2>6, <2>7, <2>8, <2>9, <2>10 DEF PushedNext
  <1> QED BY <1>1, <1>2, PTL DEF PushedSpec

\* One request_uri gives one authorization code and is not lost to a race
\* (mark_par_request_used, consume_oidc_continuation, redeem_push_login), for
\* any number of visits and completions and any number of store faults.
THEOREM OneCodePerRequest == PushedSpec => [](PushedTypeOK /\ PushedRequestGivesOneCode)
  <1>1. PushedInv => PushedTypeOK /\ PushedRequestGivesOneCode
    <2> SUFFICES ASSUME PushedInv PROVE PushedRequestGivesOneCode
      BY DEF PushedInv
    <2> USE DEF PushedInv
    <2>1. \A c \in Completions : c \in codes =>
             /\ completion[c].of \in Visits
             /\ continuation[completion[c].of] = "consumed"
             /\ approval[completion[c].of] # "none"
      <3> SUFFICES ASSUME NEW c \in Completions, c \in codes
                   PROVE  /\ completion[c].of \in Visits
                          /\ continuation[completion[c].of] = "consumed"
                          /\ approval[completion[c].of] # "none"
        OBVIOUS
      <3>1. completion[c].pc = "ended" /\ continuation[completion[c].of] = "consumed"
        BY DEF CompletionAt, TookIn
      <3>2. completion[c].of \in Visits
        BY <3>1 DEF PushedTypeOK, Completion
      <3> QED BY <3>1, <3>2 DEF VisitAt
    <2>2. \A v \in Visits : v \in codes => approval[v] = "none" /\ Owns(v)
      BY DEF VisitAt, Owns
    <2>3. ASSUME NEW a \in codes, NEW b \in codes PROVE a = b
      <3>1. (a \in Visits \/ a \in Completions) /\ (b \in Visits \/ b \in Completions)
        BY DEF PushedTypeOK
      <3>2. CASE a \in Visits /\ b \in Visits
        BY <2>2, <3>2 DEF OneOwner
      <3>3. CASE a \in Visits /\ b \in Completions
        BY <2>1, <2>2, <3>3 DEF OneOwner, Owns
      <3>4. CASE a \in Completions /\ b \in Visits
        BY <2>1, <2>2, <3>4 DEF OneOwner, Owns
      <3>5. CASE a \in Completions /\ b \in Completions
        <4>1. completion[a].of = completion[b].of
          BY <2>1, <3>5 DEF OneOwner, Owns
        <4> QED BY <3>5, <4>1 DEF OneTaker, TookIn
      <3> QED BY <3>1, <3>2, <3>3, <3>4, <3>5
    <2> QED BY <2>3, SpentIs DEF PushedRequestGivesOneCode
  <1> QED BY <1>1, PushedInvariant, PTL

-----------------------------------------------------------------------------
(* MCSignIn.  A behaviour of one part is a behaviour of that part's own     *)
(* specification, so what is proved of each component holds of the run      *)
(* that composes them.                                                      *)

\* The part of a behaviour is chosen at the start.
LEMMA SignInPartStays == [SignInNext]_signInVars => UNCHANGED part
  BY DEF SignInNext, signInVars

\* What runs in a part is that component: its initial states and its steps.
THEOREM SignInParts ==
    /\ SignInSpec => (part = "password" => PasswordSpec)
    /\ SignInSpec => (part = "push" => PushSpec)
    /\ SignInSpec => (part = "totp" => TotpSpec)
    /\ SignInSpec => (part = "passkey" => PasskeySpec)
    /\ SignInSpec => (part = "pushed" => PushedSpec)
  <1>1. SignInSpec => (part = "password" => PasswordSpec)
    <2>1. SignInInit => PasswordInit
      BY DEF SignInInit
    <2>2. part = "password" /\ [SignInNext]_signInVars
          => [PasswordNext]_passwordVars /\ (part = "password")'
      BY DEF SignInNext, signInVars, passwordVars, PasswordRest
    <2> QED BY <2>1, <2>2, PTL DEF SignInSpec, PasswordSpec
  <1>2. SignInSpec => (part = "push" => PushSpec)
    <2>1. SignInInit => PushInit
      BY DEF SignInInit
    <2>2. part = "push" /\ [SignInNext]_signInVars
          => [PushNext]_pushVars /\ (part = "push")'
      BY DEF SignInNext, signInVars, pushVars, PushRest
    <2> QED BY <2>1, <2>2, PTL DEF SignInSpec, PushSpec
  <1>3. SignInSpec => (part = "totp" => TotpSpec)
    <2>1. SignInInit => TotpInit
      BY DEF SignInInit
    <2>2. part = "totp" /\ [SignInNext]_signInVars
          => [TotpNext]_totpVars /\ (part = "totp")'
      BY DEF SignInNext, signInVars, totpVars, TotpRest
    <2> QED BY <2>1, <2>2, PTL DEF SignInSpec, TotpSpec
  <1>4. SignInSpec => (part = "passkey" => PasskeySpec)
    <2>1. SignInInit => PasskeyInit
      BY DEF SignInInit
    <2>2. part = "passkey" /\ [SignInNext]_signInVars
          => [PasskeyNext]_passkeyVars /\ (part = "passkey")'
      BY DEF SignInNext, signInVars, passkeyVars, PasskeyRest
    <2> QED BY <2>1, <2>2, PTL DEF SignInSpec, PasskeySpec
  <1>5. SignInSpec => (part = "pushed" => PushedSpec)
    <2>1. SignInInit => PushedInit
      BY DEF SignInInit
    <2>2. part = "pushed" /\ [SignInNext]_signInVars
          => [PushedNext]_pushedVars /\ (part = "pushed")'
      BY DEF SignInNext, signInVars, pushedVars, PushedRest, waiting, browser
    <2> QED BY <2>1, <2>2, PTL DEF SignInSpec, PushedSpec
  <1> QED BY <1>1, <1>2, <1>3, <1>4, <1>5

\* Every state of a composed sign-in behaviour is well typed, for all values
\* of the constants: each part keeps its own type invariant.
THEOREM SignInTypeCorrect == SignInSpec => []SignInTypeOK
  <1>1. SignInSpec => [](part = "password" => PasswordTypeOK)
    <2>1. (part = "password")' /\ [SignInNext]_signInVars => part = "password"
      BY SignInPartStays
    <2>2. PasswordSpec => []PasswordTypeOK
      BY LimiterHolds, PTL
    <2> QED BY <2>1, <2>2, SignInParts, PTL DEF SignInSpec
  <1>2. SignInSpec => [](part = "push" => PushTypeOK)
    <2>1. (part = "push")' /\ [SignInNext]_signInVars => part = "push"
      BY SignInPartStays
    <2>2. PushSpec => []PushTypeOK
      BY PushApproved, PTL
    <2> QED BY <2>1, <2>2, SignInParts, PTL DEF SignInSpec
  <1>3. SignInSpec => [](part = "totp" => TotpTypeOK)
    <2>1. (part = "totp")' /\ [SignInNext]_signInVars => part = "totp"
      BY SignInPartStays
    <2>2. TotpSpec => []TotpTypeOK
      BY TotpStepsOnlyRise, PTL
    <2> QED BY <2>1, <2>2, SignInParts, PTL DEF SignInSpec
  <1>4. SignInSpec => [](part = "passkey" => PasskeyTypeOK)
    <2>1. (part = "passkey")' /\ [SignInNext]_signInVars => part = "passkey"
      BY SignInPartStays
    <2>2. PasskeySpec => []PasskeyTypeOK
      BY PasskeyIsFresh, PTL
    <2> QED BY <2>1, <2>2, SignInParts, PTL DEF SignInSpec
  <1>5. SignInSpec => [](part = "pushed" => PushedTypeOK)
    <2>1. (part = "pushed")' /\ [SignInNext]_signInVars => part = "pushed"
      BY SignInPartStays
    <2>2. PushedSpec => []PushedTypeOK
      BY OneCodePerRequest, PTL
    <2> QED BY <2>1, <2>2, SignInParts, PTL DEF SignInSpec
  <1>6. (/\ part = "password" => PasswordTypeOK
         /\ part = "push" => PushTypeOK
         /\ part = "totp" => TotpTypeOK
         /\ part = "passkey" => PasskeyTypeOK
         /\ part = "pushed" => PushedTypeOK) => SignInTypeOK
    BY DEF SignInTypeOK
  <1> QED BY <1>1, <1>2, <1>3, <1>4, <1>5, <1>6, PTL
=============================================================================
