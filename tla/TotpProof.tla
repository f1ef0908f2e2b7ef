------------------------------ MODULE TotpProof ------------------------------
(***************************************************************************)
(* TOTP proofs of one user (qid-session totp_api.rs, verify_totp_at_with_  *)
(* step of qid-mfa, and the TOTP rows of the repositories).  The clock     *)
(* counts time steps.                                                      *)
(*                                                                         *)
(* A proof confirms an enrolment or authenticates.  It reads a credential, *)
(* verifies the code against that snapshot, claims the step with a         *)
(* conditional update and, when it confirms, writes the whole row back     *)
(* from its snapshot.  A wrong code and a refusal by the admission limiter *)
(* (the windows of PasswordLogin) change nothing here.                     *)
(***************************************************************************)
EXTENDS Clock, Integers, Sequences, FiniteSetsExt

CONSTANTS
    Proofs,
    TotpIds,        \* credential ids
    NoTotp

VARIABLES
    totp,           \* the user's credential rows
    proof,          \* each proof
    wins            \* history: the claims that were answered with success, in order

totpVars == <<now, totp, proof, wins>>

None == -1      \* last_used_step of a row that has none; below every step

TotpRow == [enabled: BOOLEAN, last: Nat \cup {None}]
ASSUME NoTotpAssumption == NoTotp \notin TotpRow

TotpCall == [pc: {"idle", "done"}]
            \cup [pc: {"verify", "claim", "confirm"}, confirms: BOOLEAN, id: TotpIds,
                  row: TotpRow, step: Nat]

TotpTypeOK ==
    /\ now \in 0..MaxTime
    /\ totp \in [TotpIds -> TotpRow \cup {NoTotp}]
    /\ proof \in [Proofs -> TotpCall]
    /\ wins \in Seq([id: TotpIds, step: Nat])

TotpInit ==
    /\ now = 0
    /\ totp \in [TotpIds -> [enabled: {TRUE}, last: {None}] \cup {NoTotp}]
    /\ proof = [p \in Proofs |-> [pc |-> "idle"]]
    /\ wins = <<>>

ProofEnds(p) == proof' = [proof EXCEPT ![p] = [pc |-> "done"]]
ProofMoves(p, pc) == proof' = [proof EXCEPT ![p].pc = pc]

\* totp_enroll: a further row, disabled, beside those the user has.
Enroll(id) ==
    /\ totp[id] = NoTotp
    /\ totp' = [totp EXCEPT ![id] = [enabled |-> FALSE, last |-> None]]
    /\ UNCHANGED <<now, proof, wins>>

\* The read of totp_verify and totp_authenticate: any row of the user.
ReadTotp(p) ==
    /\ proof[p].pc = "idle"
    /\ \E id \in TotpIds, confirms \in BOOLEAN :
          /\ totp[id] # NoTotp
          /\ confirms \/ totp[id].enabled
          /\ proof' = [proof EXCEPT ![p] =
                [pc |-> "verify", confirms |-> confirms, id |-> id, row |-> totp[id],
                 step |-> 0]]
    /\ UNCHANGED <<now, totp, wins>>

\* Steps a code may be of: the current one and its neighbours, beyond the last used.
AcceptedSteps(row) == {s \in Nat \cap (now - 1)..(now + 1) : s > row.last}

\* Admission and verification: a code of an accepted step passes.
VerifyTotp(p) ==
    /\ proof[p].pc = "verify"
    /\ \/ \E s \in AcceptedSteps(proof[p].row) :
             proof' = [proof EXCEPT ![p].pc = "claim", ![p].step = s]
       \/ ProofEnds(p)
    /\ UNCHANGED <<now, totp, wins>>

\* The condition of consume_totp_step.
Claimable(row, step) == row.last < step

\* consume_totp_step; its save may fail with or without the effect, and the
\* caller then ends.  A winner that authenticates creates its session.
ClaimStep(p) ==
    LET c == proof[p] IN
    /\ c.pc = "claim"
    /\ \/ /\ Claimable(totp[c.id], c.step)
          /\ totp' = [totp EXCEPT ![c.id].last = c.step]
          /\ \/ /\ wins' = Append(wins, [id |-> c.id, step |-> c.step])
                /\ IF c.confirms THEN ProofMoves(p, "confirm") ELSE ProofEnds(p)
             \/ ProofEnds(p) /\ UNCHANGED wins
       \/ ProofEnds(p) /\ UNCHANGED <<totp, wins>>
    /\ UNCHANGED now

\* Mutant: the stored row is replaced, its last step included.
ReplacedRow(stored, row) == row
\* replace_preserving_last_used_step, and the CASE of the SQL upsert.
PreservedRow(stored, row) == [row EXCEPT !.last = Max({stored.last, row.last})]

\* store_totp_credential at the end of totp_verify.
ConfirmTotp(p) ==
    LET c == proof[p] IN
    /\ c.pc = "confirm"
    /\ \/ totp' = [totp EXCEPT ![c.id] = PreservedRow(@, [enabled |-> TRUE, last |-> c.step])]
       \/ UNCHANGED totp
    /\ ProofEnds(p)
    /\ UNCHANGED <<now, wins>>

TotpNext ==
    \/ \E id \in TotpIds : Enroll(id)
    \/ \E p \in Proofs : ReadTotp(p) \/ VerifyTotp(p) \/ ClaimStep(p) \/ ConfirmTotp(p)
    \/ Tick /\ UNCHANGED <<totp, proof, wins>>

TotpSpec == TotpInit /\ [][TotpNext]_totpVars

\* The steps a credential is accepted with only rise: no code is accepted twice
\* or after a later one, although a confirmation writes back a row that it
\* read before other proofs claimed their steps (totp_api.rs:223).
TotpStepsRise ==
    \A i, j \in DOMAIN wins :
        i < j /\ wins[i].id = wins[j].id => wins[i].step < wins[j].step
=============================================================================
