------------------------------- MODULE Passkey -------------------------------
(***************************************************************************)
(* WebAuthn ceremonies of one user of one realm (qid-session webauthn.rs   *)
(* and api/webauthn.rs, the credential rows of the repositories).          *)
(*                                                                         *)
(* A start puts a challenge into the ceremony map of its kind, under the   *)
(* user's id or, for a discoverable one, under an id of its own.  A finish *)
(* takes the challenge out and verifies the response against credentials   *)
(* it read before (user ceremonies) or after (discoverable ones); the sign *)
(* count is compared with that snapshot and stored afterwards.             *)
(*                                                                         *)
(* Signatures are external: a response is of the challenge taken, with     *)
(* some credential and count, or is refused.                               *)
(***************************************************************************)
EXTENDS Clock, Sequences, FiniteSets, FiniteSetsExt

CONSTANTS
    Challenges,     \* one for each start
    Finishes,
    Passkeys,       \* credential ids of authenticators
    NoPasskey,
    NoChallengeTaken,
    UserKey,        \* the user's id as a key of a ceremony map
    CeremonyTtl,    \* CHALLENGE_MAX_AGE_SECS
    Capacity,       \* MAX_CEREMONY_ENTRIES_PER_REALM
    MaxCount        \* bound: sign counts are 0..MaxCount

ASSUME PasskeyAssumption ==
    /\ CeremonyTtl \in Nat /\ Capacity \in Nat \ {0} /\ MaxCount \in Nat
    /\ UserKey \notin Challenges
    /\ NoPasskey \notin Nat /\ NoChallengeTaken \notin Challenges

VARIABLES
    counter,        \* the stored sign count of each registered passkey
    ceremonies,     \* the map of each kind
    started,        \* challenges issued
    finish,         \* each finish
    proofs          \* history: the responses accepted, in the order they were stored

passkeyVars == <<now, counter, ceremonies, started, finish, proofs>>

Kinds == {"register", "user", "discoverable"}
Entry == [key: Challenges \cup {UserKey}, challenge: Challenges, created: Nat]
Finish == [pc: {"idle", "done"}]
          \cup [pc: {"take", "read", "store"}, kind: Kinds, passkey: Passkeys,
                challenge: Challenges \cup {NoChallengeTaken},
                row: Nat \cup {NoPasskey}, knew: Nat, count: Nat]

PasskeyTypeOK ==
    /\ now \in 0..MaxTime
    /\ counter \in [Passkeys -> Nat \cup {NoPasskey}]
    /\ \A k \in Kinds : /\ ceremonies[k] \subseteq Entry
                        /\ Cardinality(ceremonies[k]) <= Capacity
    /\ started \subseteq Challenges
    /\ finish \in [Finishes -> Finish]
    /\ proofs \in Seq([challenge: Challenges, passkey: Passkeys, count: Nat, knew: Nat])

PasskeyInit ==
    /\ now = 0
    /\ counter \in [Passkeys -> {0, NoPasskey}]
    /\ ceremonies = [k \in Kinds |-> {}]
    /\ started = {}
    /\ finish = [f \in Finishes |-> [pc |-> "idle"]]
    /\ proofs = <<>>

-----------------------------------------------------------------------------
(* The ceremony maps *)

ExpiredEntry(e) == now - e.created >= CeremonyTtl

\* What CeremonyMap::insert may keep: the live entries, less the oldest ones
\* when the realm is at its capacity.
Kept(entries) ==
    LET live == {e \in entries : ~ExpiredEntry(e)} IN
    {keep \in SUBSET live :
        /\ Cardinality(keep) = Min({Cardinality(live), Capacity - 1})
        /\ \A e \in live \ keep, k \in keep : e.created <= k.created}

KeyOf(kind, ch) == IF kind = "discoverable" THEN ch ELSE UserKey

\* start_registration, start_authentication (refused to a user without
\* credentials) and start_discoverable_authentication.
StartCeremony(kind, ch) ==
    /\ ch \notin started
    /\ kind = "user" => \E p \in Passkeys : counter[p] # NoPasskey
    /\ \E keep \in Kept(ceremonies[kind]) :
          ceremonies' = [ceremonies EXCEPT ![kind] =
              {e \in keep : e.key # KeyOf(kind, ch)}
              \cup {[key |-> KeyOf(kind, ch), challenge |-> ch, created |-> now]}]
    /\ started' = started \cup {ch}
    /\ UNCHANGED <<now, counter, finish, proofs>>

\* CeremonyMap::remove takes the entry out, expired or not.
TakeOut(kind, e) == ceremonies' = [ceremonies EXCEPT ![kind] = @ \ {e}]

FinishEnds(f) == finish' = [finish EXCEPT ![f] = [pc |-> "done"]]

-----------------------------------------------------------------------------
(* Finishing a ceremony *)

\* A finish begins; in a user's ceremony it reads the credentials first.
BeginFinish(f, kind) ==
    /\ finish[f].pc = "idle"
    /\ \E p \in Passkeys :
          finish' = [finish EXCEPT ![f] =
              [pc |-> "take", kind |-> kind, challenge |-> NoChallengeTaken, passkey |-> p,
               row |-> IF kind = "user" THEN counter[p] ELSE NoPasskey,
               knew |-> IF kind = "user" THEN Len(proofs) ELSE 0, count |-> 0]]
    /\ UNCHANGED <<now, counter, ceremonies, started, proofs>>

\* The clone check of complete_webauthn_authentication, against the snapshot.
CountRises(stored, count) == (count = 0 /\ stored = 0) \/ count > stored

\* The response is verified: a new credential, or a known one whose count rises.
Verified(f, c) ==
    \E count \in 0..MaxCount :
        /\ c.kind # "register" => c.row # NoPasskey /\ CountRises(c.row, count)
        /\ finish' = [finish EXCEPT ![f] = [c EXCEPT !.pc = "store", !.count = count]]

\* remove_reg, remove_auth or remove_disc_auth, and in the first two cases the
\* verification.  Without a live entry, or if it is refused, the finish ends.
TakeChallenge(f) ==
    LET c == finish[f] IN
    /\ c.pc = "take"
    /\ \/ \E e \in ceremonies[c.kind] :
             /\ TakeOut(c.kind, e)
             /\ \/ /\ ~ExpiredEntry(e)
                   /\ IF c.kind = "discoverable"
                      THEN finish' = [finish EXCEPT ![f].pc = "read",
                                                    ![f].challenge = e.challenge]
                      ELSE Verified(f, [c EXCEPT !.challenge = e.challenge])
                \/ FinishEnds(f)
       \/ FinishEnds(f) /\ UNCHANGED ceremonies
    /\ UNCHANGED <<now, counter, started, proofs>>

\* get_webauthn_credentials of a discoverable ceremony, and the verification.
ReadAndVerify(f) ==
    LET c == finish[f] IN
    /\ c.pc = "read"
    /\ \/ Verified(f, [c EXCEPT !.row = counter[c.passkey], !.knew = Len(proofs)])
       \/ FinishEnds(f)
    /\ UNCHANGED <<now, counter, ceremonies, started, proofs>>

\* Mutant: the count is stored as it came.
CountAsSent(stored, count) == count
\* update_webauthn_credential_counter never lowers a count.
CountRaised(stored, count) == Max({stored, count})

\* store_webauthn_credential refuses a known id; the update of a count may fail
\* with or without its effect, and the finish then ends without a session.
StoreResult(f) ==
    LET c == finish[f]
        registers == c.kind = "register"
        writes == counter' = [counter EXCEPT ![c.passkey] =
                                  IF registers THEN c.count ELSE CountRaised(@, c.count)]
    IN
    /\ c.pc = "store"
    /\ \/ /\ registers => counter[c.passkey] = NoPasskey
          /\ writes
          /\ \/ proofs' = Append(proofs, [challenge |-> c.challenge, passkey |-> c.passkey,
                                          count |-> c.count, knew |-> c.knew])
             \/ UNCHANGED proofs
       \/ UNCHANGED <<counter, proofs>>
    /\ FinishEnds(f)
    /\ UNCHANGED <<now, ceremonies, started>>

PasskeyNext ==
    \/ \E kind \in Kinds, ch \in Challenges : StartCeremony(kind, ch)
    \/ \E f \in Finishes, kind \in Kinds : BeginFinish(f, kind)
    \/ \E f \in Finishes : TakeChallenge(f) \/ ReadAndVerify(f) \/ StoreResult(f)
    \/ Tick /\ UNCHANGED <<counter, ceremonies, started, finish, proofs>>

PasskeySpec == PasskeyInit /\ [][PasskeyNext]_passkeyVars

\* A challenge is answered with success at most once.
AnsweredOnce ==
    \A i, j \in DOMAIN proofs : i # j => proofs[i].challenge # proofs[j].challenge

\* A count that does not exceed that of an earlier proof of the same passkey
\* came from a finish that read the credentials before that proof was stored.
CloneNeedsOverlap ==
    \A i, j \in DOMAIN proofs :
        /\ i <= proofs[j].knew
        /\ proofs[i].passkey = proofs[j].passkey
        => proofs[j].count > proofs[i].count \/ proofs[i].count = 0

\* A passkey's proof is fresh: its challenge has not been answered before
\* (webauthn.rs:377), and a clone that signs with a count already seen is found
\* out unless it overlaps with the other proof; an overlapping proof with a
\* lower count does not hide the higher one (api/webauthn.rs:281).
PasskeyProofIsFresh == AnsweredOnce /\ CloneNeedsOverlap
=============================================================================
