----------------------------- MODULE MCServices -----------------------------
(***************************************************************************)
(* Components that share nothing but the clock, on small instances in one  *)
(* run: polled grants, the audit chain, SIEM delivery, the replay caches,   *)
(* an account's mails, an access request, PEP decisions and a relation      *)
(* check.  A behaviour is of one part and leaves the others where they      *)
(* start.                                                                   *)
(***************************************************************************)
EXTENDS PolledGrant, AuditChain, SiemDelivery, ReplayCache, AccountMail, AccessRequest,
        MCDecisionCache, RelationCheck, TLC

CONSTANT Third    \* the third access call and PEP request

VARIABLE part    \* the part this behaviour is of

PolledRest == <<setup, users, liveSessions, grant, callVars, approvalVars, faults, history>>
AuditRest == <<log, chainLock, append, policy, job, archived, overrun>>
SiemRest == <<events, queue, siemJob, accepted, collided>>
ReplayRest == <<claims, jtiUntil, nonceEntry, presented>>
MailRest == <<userRow, credential, mail, issuer, redeemer, writer, lastReset>>
AccessRest == <<status, approvals, grants, privileges, approving, review>>
DecisionRest == <<bundled, policySlot, cached, pepCheck>>
RelationRest == relationVars
servicesVars ==
    <<part, now, PolledRest, AuditRest, SiemRest, ReplayRest, MailRest, AccessRest, DecisionRest,
      RelationRest>>

Some(S) == CHOOSE x \in S : TRUE

\* A part that is left out stays in one of its initial states.
Pinned ==
    /\ part # "polled" => \E s \in {Some(Setups)} : flow = s[1] /\ backend = s[2]
    /\ part # "audit" =>
          job = [pc |-> "idle", at |-> 0, archive |-> TRUE, hold |-> FALSE, expired |-> {},
                 checked |-> 0, body |-> {}]
    /\ part # "replay" => proofIat = 0 /\ assertionExp = 0 /\ nonceRequired = FALSE
    /\ part # "mail" =>
          /\ userRow = [email |-> Some(Addresses), verified |-> TRUE, failed |-> FALSE]
          /\ credential = [password |-> Original, current |-> TRUE]
    /\ part # "decision" => bundled = {}
    /\ part # "relation" => tuples = {}

ServicesInit ==
    /\ part \in {"polled", "audit", "siem", "replay", "mail", "access", "decision", "relation"}
    /\ Pinned
    /\ PolledInit /\ AuditInit /\ SiemInit /\ ReplayInit /\ MailInit /\ AccessInit
    /\ DecisionInit /\ RelationInit

ServicesNext ==
    /\ \/ part = "polled" /\ PolledNext
       \/ part = "audit" /\ AuditNext
       \/ part = "siem" /\ SiemNext
       \/ part = "replay" /\ ReplayNext
       \/ part = "mail" /\ MailNext
       \/ part = "access" /\ AccessNext
       \/ part = "decision" /\ DecisionNext
       \/ part = "relation" /\ RelationNext /\ UNCHANGED now
    /\ UNCHANGED part
    /\ part # "polled" => UNCHANGED PolledRest
    /\ part # "audit" => UNCHANGED AuditRest
    /\ part # "siem" => UNCHANGED SiemRest
    /\ part # "replay" => UNCHANGED ReplayRest
    /\ part # "mail" => UNCHANGED MailRest
    /\ part # "access" => UNCHANGED AccessRest
    /\ part # "decision" => UNCHANGED DecisionRest
    /\ part # "relation" => UNCHANGED RelationRest

ServicesSpec == ServicesInit /\ [][ServicesNext]_servicesVars

\* The type invariant of the part that runs.
ServicesTypeOK ==
    /\ part = "polled" => PolledTypeOK
    /\ part = "audit" => AuditTypeOK
    /\ part = "siem" => SiemTypeOK
    /\ part = "replay" => ReplayTypeOK
    /\ part = "mail" => MailTypeOK
    /\ part = "access" => AccessTypeOK
    /\ part = "decision" => DecisionTypeOK
    /\ part = "relation" => RelationTypeOK

\* Bound: how far the clock runs for each part.
ClockBound ==
    now <= CASE part \in {"polled", "siem", "access", "decision"} -> 1
             [] part \in {"audit", "mail"} -> 2
             [] part = "relation" -> 0
             [] part = "replay" -> 4

\* Bound: the third PEP request comes when the others are answered, before the
\* clock moves, and is answered from the cache.
LastReadsCache ==
    \/ pepCheck[Third].pc = "idle"
    \/ /\ pepCheck[Third].pc = "cached" /\ now = 0
       /\ \A c \in PepChecks : pepCheck[c].pc \in {"answered", "cached"}

\* Bound: of the calls on the access request only the third brings more than one
\* decision; it runs before the clock moves and not beside a review.
Brought(c) ==
    {a \in approvals : a.id = c}
        \cup IF approving[c].pc \in {"list", "store"} THEN approving[c].own ELSE {}
AccessBound ==
    /\ \A c \in Requesters \ {Third} : Cardinality(Brought(c)) <= 1
    /\ \/ approving[Third].pc = "idle"
       \/ now = 0 /\ \A v \in Reviews : review[v].pc = "idle"

\* Bound: a login or an update of the account runs beside one mail.
MailBound ==
    (\E w \in Writers : writer[w] # Idle) =>
        Cardinality({i \in Issuers : issuer[i] # Idle}) <= 1

MCSetups == {<<"device", "file">>, <<"ciba", "sql">>}

\* Paths of every length up to one beyond the depth, with a cycle.
MCRelations ==
    {<<"root", "a">>, <<"root", "b">>, <<"b", "a">>, <<"a", "b">>, <<"a", "c">>, <<"c", "subject">>,
     <<"b", "subject">>}

\* The sets of each part are interchangeable; the parts use the same names.
Symmetry == Permutations(Calls) \cup Permutations(Approvals)
=============================================================================
