------------------------------ MODULE MCSignIn ------------------------------
(***************************************************************************)
(* The ways into a browser session and from there to a code, on small      *)
(* instances in one run: password logins, push approvals, TOTP proofs,     *)
(* passkey ceremonies and pushed authorization requests.  They share       *)
(* nothing but the clock: a behaviour is of one part and leaves the others *)
(* where they start.                                                       *)
(***************************************************************************)
EXTENDS PasswordLogin, PushLogin, TotpProof, Passkey, PushedRequest, TLC

VARIABLE part    \* the part this behaviour is of

PasswordRest == <<limiter, budget, account, login, passwordHistory>>
PushRest == <<authenticator, start, challenge, call, delivered, pushHistory>>
TotpRest == <<totp, proof, wins>>
PasskeyRest == <<counter, ceremonies, started, finish, proofs>>
PushedRest == <<parUsed, browser, waiting, visit, completion, codes, storeFaults>>
signInVars == <<part, now, PasswordRest, PushRest, TotpRest, PasskeyRest, PushedRest>>

\* A part that is left out stays in one of its initial states.
Pinned ==
    /\ part # "password" => account = [a \in Accounts |-> NoRow]
    /\ part # "push" =>
          authenticator = [d \in Devices |-> [status |-> "enrolled", created |-> 0]]
    /\ part # "totp" => totp = [t \in TotpIds |-> NoTotp]
    /\ part # "passkey" => counter = [k \in Passkeys |-> NoPasskey]
    /\ part # "pushed" => device = "none"

SignInInit ==
    /\ part \in {"password", "push", "totp", "passkey", "pushed"} /\ Pinned
    /\ PasswordInit /\ PushInit /\ TotpInit /\ PasskeyInit /\ PushedInit

SignInNext ==
    /\ \/ part = "password" /\ PasswordNext
       \/ part = "push" /\ PushNext
       \/ part = "totp" /\ TotpNext
       \/ part = "passkey" /\ PasskeyNext
       \/ part = "pushed" /\ PushedNext
    /\ UNCHANGED part
    /\ part # "password" => UNCHANGED PasswordRest
    /\ part # "push" => UNCHANGED PushRest
    /\ part # "totp" => UNCHANGED TotpRest
    /\ part # "passkey" => UNCHANGED PasskeyRest
    /\ part # "pushed" => UNCHANGED PushedRest

SignInSpec == SignInInit /\ [][SignInNext]_signInVars

\* The type invariant of the part that runs.
SignInTypeOK ==
    /\ part = "password" => PasswordTypeOK
    /\ part = "push" => PushTypeOK
    /\ part = "totp" => TotpTypeOK
    /\ part = "passkey" => PasskeyTypeOK
    /\ part = "pushed" => PushedTypeOK

\* Bound: how far the clock runs for each part; the last second of the push
\* part is for cleaning up and for starts, with no other call under way.
ClockBound ==
    now <= CASE part \in {"totp", "passkey"} -> 1
             [] part = "pushed" -> 2
             [] part = "password" -> 3
             [] part = "push" ->
                   IF \A r \in PushCalls : call[r].pc \in {"idle", "done"} THEN 4 ELSE 3

\* The sets of each part are interchangeable; the parts use the same names.
Symmetry == Permutations(Starts) \cup Permutations(PushCalls)
=============================================================================
