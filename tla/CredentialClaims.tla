-------------------------- MODULE CredentialClaims --------------------------
(***************************************************************************)
(* What every single-use credential of the token endpoint promises: an     *)
(* authorization code, a refresh token, a device code or a CIBA request id *)
(* is claimed by at most one call for good, and the call that claimed one  *)
(* issues tokens for it at most once.                                      *)
(***************************************************************************)
CONSTANTS Creds, Calls, NoCall

VARIABLES owner,  \* the call that claimed each credential, or NoCall
          paid    \* the calls that issued an access token

claimVars == <<owner, paid>>

ClaimInit ==
    /\ owner = [c \in Creds |-> NoCall]
    /\ paid = {}

Claim(c, k) ==
    /\ owner[c] = NoCall
    /\ \A d \in Creds : owner[d] # k
    /\ owner' = [owner EXCEPT ![c] = k]
    /\ UNCHANGED paid

Pay(k) ==
    /\ k \notin paid
    /\ \E c \in Creds : owner[c] = k
    /\ paid' = paid \cup {k}
    /\ UNCHANGED owner

ClaimNext == \E k \in Calls : (\E c \in Creds : Claim(c, k)) \/ Pay(k)

ClaimSpec == ClaimInit /\ [][ClaimNext]_claimVars
=============================================================================
