----------------------------- MODULE ReplayCache -----------------------------
(***************************************************************************)
(* Replay protection of DPoP proofs and client assertions (qid-core        *)
(* cache.rs, qid-oauth dpop/validate.rs and dpop/private_key_jwt.rs).      *)
(*                                                                         *)
(* One proof, one assertion, and the nonce the proof carries.  Each call   *)
(* presents one of the two: it reads the clock and checks the lifetime,    *)
(* then takes the nonce if the realm asks for one, then records the jti;   *)
(* other calls, on other threads, run between any two of these.  The cache *)
(* measures its TTLs on its own clock, from the moment of the insertion.   *)
(***************************************************************************)
EXTENDS Clock

CONSTANTS
    Presentations,  \* requests that present the proof or the assertion
    JtiTtl,         \* JTI_CACHE_TTL_SECS (60)
    NonceTtl,       \* NONCE_CACHE_TTL_SECS (300)
    MaxProofAge,    \* MAX_PROOF_AGE_SECS (120)
    MaxSkew         \* MAX_CLOCK_SKEW_SECS (60)

ASSUME ReplayAssumption ==
    /\ JtiTtl \in Nat \ {0} /\ NonceTtl \in Nat \ {0}
    /\ MaxProofAge \in Nat /\ MaxSkew \in Nat

VARIABLES
    proofIat,      \* the proof's iat claim
    assertionExp,  \* the assertion's exp claim
    nonceRequired, \* realm.protocols.oauth.dpop.nonce, on the token endpoint
    jtiUntil,      \* when each cached jti expires; 0 when there is no entry
    nonceIssued,   \* the time in the nonce's entry, and
    nonceUntil,    \*   when the entry expires; 0 when there is no entry
    presented      \* each call

claims == <<proofIat, assertionExp, nonceRequired>>
nonceEntry == <<nonceIssued, nonceUntil>>
replayVars == <<now, claims, jtiUntil, nonceEntry, presented>>

Credential == {"proof", "assertion"}
Presentation == [pc: {"idle", "nonce", "record", "accepted", "refused"},
                 of: Credential, at: 0..MaxTime, recorded: 0..MaxTime]

ReplayTypeOK ==
    /\ proofIat \in 0..(MaxTime + MaxSkew) /\ assertionExp \in 0..MaxTime
    /\ nonceRequired \in BOOLEAN
    /\ jtiUntil \in [Credential -> Nat]
    /\ nonceIssued \in 0..MaxTime /\ nonceUntil \in Nat
    /\ presented \in [Presentations -> Presentation]

ReplayInit ==
    /\ now = 0
    /\ proofIat \in 0..(MaxTime + MaxSkew) /\ assertionExp \in 0..MaxTime
    /\ nonceRequired \in BOOLEAN
    /\ jtiUntil = [c \in Credential |-> 0]
    /\ nonceIssued = 0 /\ nonceUntil = 0
    /\ presented = [p \in Presentations |->
                       [pc |-> "idle", of |-> "proof", at |-> 0, recorded |-> 0]]

Present(p, step) == presented' = [presented EXCEPT ![p].pc = step]

\* issue_nonce, as the challenge of an earlier answer.  The nonce is a ULID,
\* so it is issued once; the client puts it into the proof.
IssueNonce ==
    /\ nonceRequired /\ nonceUntil = 0 /\ \A p \in Presentations : presented[p].pc = "idle"
    /\ nonceIssued' = now /\ nonceUntil' = now + NonceTtl
    /\ UNCHANGED <<now, claims, jtiUntil, presented>>

-----------------------------------------------------------------------------
\* validate_dpop_proof_claims: the lifetime of the proof.
ProofInTime(t) == proofIat <= t + MaxSkew /\ proofIat >= t - MaxProofAge

CheckProof(p) ==
    /\ presented[p].pc = "idle"
    /\ presented' = [presented EXCEPT ![p] = [@ EXCEPT !.of = "proof", !.at = now,
           !.pc = IF ~ProofInTime(now) THEN "refused"
                  ELSE IF nonceRequired THEN "nonce" ELSE "record"]]
    /\ UNCHANGED <<now, claims, jtiUntil, nonceEntry>>

\* validate_private_key_jwt, and the jwt-bearer and PAR assertions alike.
CheckAssertion(p) ==
    /\ presented[p].pc = "idle"
    /\ presented' = [presented EXCEPT ![p] = [@ EXCEPT !.of = "assertion", !.at = now,
           !.pc = IF assertionExp <= now THEN "refused" ELSE "record"]]
    /\ UNCHANGED <<now, claims, jtiUntil, nonceEntry>>

\* SharedCache::take removes the entry, live or not.
Taken(until) == 0

\* consume_nonce.
TakeNonce(p) ==
    /\ presented[p].pc = "nonce"
    /\ Present(p, IF nonceUntil > now /\ presented[p].at - nonceIssued < NonceTtl
                  THEN "record" ELSE "refused")
    /\ nonceUntil' = Taken(nonceUntil)
    /\ UNCHANGED <<now, claims, jtiUntil, nonceIssued>>

Later(a, b) == IF a >= b THEN a ELSE b

\* Mutant: an assertion's jti is kept as long as a proof's.
RecordTtlOfProofs(c, t) == JtiTtl

\* record_jti: JtiTtl from the later of iat and now.  record_replay_key: until
\* exp, by the clock the caller read.
RecordTtl(c, t) ==
    IF c = "proof" THEN Later(proofIat, t) + JtiTtl - t
    ELSE Later(assertionExp - t, 1)

\* set_if_absent: an expired entry does not count.
RecordJti(p) ==
    LET c == presented[p].of IN
    /\ presented[p].pc = "record"
    /\ IF jtiUntil[c] > now
       THEN Present(p, "refused") /\ UNCHANGED jtiUntil
       ELSE /\ presented' = [presented EXCEPT ![p] =
                   [@ EXCEPT !.pc = "accepted", !.recorded = now]]
            /\ jtiUntil' = [jtiUntil EXCEPT ![c] = now + RecordTtl(c, presented[p].at)]
    /\ UNCHANGED <<now, claims, nonceEntry>>

ReplayTick == Tick /\ UNCHANGED <<claims, jtiUntil, nonceEntry, presented>>

ReplayNext ==
    \/ IssueNonce \/ ReplayTick
    \/ \E p \in Presentations :
          CheckProof(p) \/ CheckAssertion(p) \/ TakeNonce(p) \/ RecordJti(p)

ReplaySpec == ReplayInit /\ [][ReplayNext]_replayVars

-----------------------------------------------------------------------------
AcceptedTwice(c, before) ==
    \E p, q \in Presentations : p # q /\ \A r \in {p, q} :
        presented[r].of = c /\ presented[r].pc = "accepted" /\ presented[r].recorded < before

\* An assertion authenticates at most one request, however the calls overlap,
\* among the calls that record its jti before exp: the entry stays as long
\* (record_assertion_jti).  Only a call that checked exp and then stalled past
\* it can be a second one.  A proof is accepted once without any exception in
\* a realm that requires a nonce (consume_nonce), although its jti is
\* forgotten earlier.
ReplayIsRefused ==
    /\ ~AcceptedTwice("assertion", assertionExp)
    /\ nonceRequired => ~AcceptedTwice("proof", MaxTime + 1)
=============================================================================
