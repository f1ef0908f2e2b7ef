----------------------------- MODULE AccountMail -----------------------------
(***************************************************************************)
(* One account and what its mailbox can do to it: email verification,       *)
(* magic-link sign-in and password reset (qid-resource ciam/verification.rs *)
(* and ciam/auth.rs, qid-session email_magic_link.rs, qid-storage ciam.rs), *)
(* beside the other writers of its rows: a password login, which writes     *)
(* back the user row it read and may rehash the credential (qid-session     *)
(* auth.rs), and an administrator's update (qid-admin directory.rs).        *)
(*                                                                          *)
(* A mail is issued at most once per issuer and names its row in storage.   *)
(* Every repository operation is one step; the clock an operation uses is   *)
(* the one its request read.                                                *)
(***************************************************************************)
EXTENDS Clock, FiniteSets

CONSTANTS
    Issuers,      \* requests that ask for a mail
    Redeemers,    \* requests that present a code, link or token
    Writers,      \* password logins and administrators' updates
    Purposes,     \* the kinds of mail explored
    Addresses,
    NoMail,
    MaxIssues,    \* max_issuances_per_window
    IssueWindow,  \* issuance_window_seconds
    MailTtl,      \* ttl_seconds
    MaxTries      \* max_attempts

ASSUME MailAssumption ==
    /\ Purposes \subseteq {"verification", "link", "reset"}
    /\ MaxIssues \in Nat \ {0} /\ IssueWindow \in Nat \ {0}
    /\ MailTtl \in Nat /\ MaxTries \in Nat \ {0}

VARIABLES
    userRow,    \* the user row
    credential, \* the password credential: whose password, and at which cost
    mail,       \* challenge and reset-token rows, by issuer
    issuer,     \* each request for a mail
    redeemer,   \* each redemption
    writer,     \* each login or update
    lastReset   \* history: the redeemer whose reset answered last

mailVars == <<now, userRow, credential, mail, issuer, redeemer, writer, lastReset>>

AccountRow == [email: Addresses, verified: BOOLEAN, failed: BOOLEAN]
Original == "original"                      \* the password before any reset
CredentialRow == [password: Redeemers \cup {Original}, current: BOOLEAN]
Mail == [address: Addresses, created: 0..MaxTime, tries: Nat, consumed: BOOLEAN]
ASSUME NoMailAssumption == NoMail \notin Mail /\ Original \notin Redeemers

Idle == [pc |-> "idle"]
Issuer == [pc: {"admit", "sent", "suppressed"}, purpose: Purposes,
           address: Addresses, created: 0..MaxTime]
Redeemer == [pc: {"ready"}, of: Issuers, right: BOOLEAN, at: 0..MaxTime]
            \cup [pc: {"session", "succeeded"}, of: Issuers] \cup [pc: {"refused"}]
Writer == [pc: {"done"}]
          \cup [pc: {"credential", "rehash", "fail", "clear", "update"},
                password: Redeemers \cup {Original}, copy: AccountRow]

MailTypeOK ==
    /\ userRow \in AccountRow /\ credential \in CredentialRow
    /\ mail \in [Issuers -> Mail \cup {NoMail}]
    /\ issuer \in [Issuers -> Issuer \cup {Idle}]
    /\ redeemer \in [Redeemers -> Redeemer \cup {Idle}]
    /\ writer \in [Writers -> Writer \cup {Idle}] /\ lastReset \in Redeemers \cup {Original}

MailInit ==
    /\ now = 0
    /\ userRow \in [email: Addresses, verified: BOOLEAN, failed: {FALSE}]
    /\ credential \in [password: {Original}, current: BOOLEAN]
    /\ mail = [i \in Issuers |-> NoMail]
    /\ issuer = [i \in Issuers |-> Idle] /\ redeemer = [r \in Redeemers |-> Idle]
    /\ writer = [w \in Writers |-> Idle]
    /\ lastReset = Original

IssuerGoes(i, step) == issuer' = [issuer EXCEPT ![i].pc = step]
Refused(r) == redeemer' = [redeemer EXCEPT ![r] = [pc |-> "refused"]]
Redeemed(r, step) == redeemer' = [redeemer EXCEPT ![r] = [pc |-> step, of |-> redeemer[r].of]]
WriterGoes(w, step) ==
    writer' = [writer EXCEPT ![w] = IF step = "done" THEN [pc |-> "done"]
                                    ELSE [@ EXCEPT !.pc = step]]

-----------------------------------------------------------------------------
(* verification_issue, email_magic_link::send, password_reset_issue *)

\* The request reads the account, and the clock for created_at.  A magic link
\* is prepared for a verified address only.
PrepareMail(i, purpose) ==
    /\ issuer[i] = Idle
    /\ issuer' = [issuer EXCEPT ![i] =
           [purpose |-> purpose, address |-> userRow.email, created |-> now,
            pc |-> IF purpose = "link" /\ ~userRow.verified THEN "suppressed" ELSE "admit"]]
    /\ UNCHANGED <<now, userRow, credential, mail, redeemer, writer, lastReset>>

\* Mutant: only the window that ends at the new record is counted.
CountedBefore(p, created) ==
    {j \in Issuers : /\ mail[j] # NoMail /\ issuer[j].purpose = p
                     /\ mail[j].created \in (created + 1 - IssueWindow)..created}

\* The records of the kind since the start of the new one's window: consumed,
\* expired and newer ones (of a faster request) count too.
Counted(p, created) ==
    {j \in Issuers : /\ mail[j] # NoMail /\ issuer[j].purpose = p
                     /\ mail[j].created > created - IssueWindow}

\* Admission still needs the address, verified for a link and unverified for a
\* verification; a reset does not ask.
Eligible(i) ==
    issuer[i].purpose # "reset" =>
        /\ userRow.email = issuer[i].address
        /\ userRow.verified = (issuer[i].purpose = "link")

\* try_issue_email_challenge, try_issue_password_reset_token; the mail is
\* sent afterwards, and may be lost.
AdmitMail(i) ==
    /\ issuer[i].pc = "admit"
    /\ IF Eligible(i) /\ Cardinality(Counted(issuer[i].purpose, issuer[i].created)) < MaxIssues
       THEN /\ mail' = [mail EXCEPT ![i] = [address |-> issuer[i].address,
                   created |-> issuer[i].created, tries |-> 0, consumed |-> FALSE]]
            /\ IssuerGoes(i, "sent")
       ELSE IssuerGoes(i, "suppressed") /\ UNCHANGED mail
    /\ UNCHANGED <<now, userRow, credential, redeemer, writer, lastReset>>

-----------------------------------------------------------------------------
(* verification_confirm, email_magic_link::verify, password_reset_consume *)

\* Unconsumed, in time (inclusively), attempts left.
Usable(i, t) ==
    /\ mail[i] # NoMail /\ ~mail[i].consumed
    /\ t <= mail[i].created + MailTtl /\ mail[i].tries < MaxTries

\* The row is read first; a reset is refused here on what the row says, and
\* the new password is hashed before the storage call.
ReadMail(r, i, right) ==
    /\ redeemer[r] = Idle /\ issuer[i].pc = "sent"
    /\ IF issuer[i].purpose = "reset" /\ ~(Usable(i, now) /\ right)
       THEN Refused(r)
       ELSE redeemer' = [redeemer EXCEPT ![r] =
                [pc |-> "ready", of |-> i, right |-> right, at |-> now]]
    /\ UNCHANGED <<now, userRow, credential, mail, issuer, writer, lastReset>>

Tried(i, right) == [mail[i] EXCEPT !.tries = @ + 1, !.consumed = right]

\* The clock of a redemption: read after the row, before the store is locked.
AttemptedAt(r) == redeemer[r].at..now

\* confirm_ciam_email_verification.
Confirm(r) ==
    LET i == redeemer[r].of  right == redeemer[r].right IN
    /\ redeemer[r].pc = "ready" /\ issuer[i].purpose = "verification"
    /\ \E t \in AttemptedAt(r) :
          IF Usable(i, t) /\ userRow.email = mail[i].address
          THEN /\ mail' = [mail EXCEPT ![i] = Tried(i, right)]
               /\ userRow' = [userRow EXCEPT !.verified = @ \/ right]
               /\ IF right THEN Redeemed(r, "succeeded") ELSE Refused(r)
          ELSE Refused(r) /\ UNCHANGED <<mail, userRow>>
    /\ UNCHANGED <<now, credential, issuer, writer, lastReset>>

\* redeem_email_magic_link_challenge, by the browser that asked for the link.
RedeemLink(r) ==
    LET i == redeemer[r].of  right == redeemer[r].right IN
    /\ redeemer[r].pc = "ready" /\ issuer[i].purpose = "link"
    /\ \E t \in AttemptedAt(r) :
          IF Usable(i, t) /\ userRow.email = mail[i].address /\ userRow.verified
          THEN /\ mail' = [mail EXCEPT ![i] = Tried(i, right)]
               /\ IF right THEN Redeemed(r, "session") ELSE Refused(r)
          ELSE Refused(r) /\ UNCHANGED mail
    /\ UNCHANGED <<now, userRow, credential, issuer, writer, lastReset>>

\* create_with_regeneration; a failure does not restore the link.
CreateSession(r) ==
    /\ redeemer[r].pc = "session"
    /\ Redeemed(r, "succeeded") \/ Refused(r)
    /\ UNCHANGED <<now, userRow, credential, mail, issuer, writer, lastReset>>

\* replace_password_with_reset_token: consumes the token and stores the new
\* credential together.
Replace(r) ==
    LET i == redeemer[r].of IN
    /\ redeemer[r].pc = "ready" /\ issuer[i].purpose = "reset"
    /\ \E t \in AttemptedAt(r) :
          IF Usable(i, t)
          THEN /\ mail' = [mail EXCEPT ![i].consumed = TRUE]
               /\ credential' = [password |-> r, current |-> TRUE]
               /\ lastReset' = r /\ Redeemed(r, "succeeded")
          ELSE Refused(r) /\ UNCHANGED <<mail, credential, lastReset>>
    /\ UNCHANGED <<now, userRow, issuer, writer>>

-----------------------------------------------------------------------------
(* authenticate_password, and the administrator's update_user *)

ReadAccount(w) ==
    /\ writer[w] = Idle
    /\ \E step \in {"credential", "update"} :
          writer' = [writer EXCEPT ![w] = [pc |-> step, password |-> Original, copy |-> userRow]]
    /\ UNCHANGED <<now, userRow, credential, mail, issuer, redeemer, lastReset>>

\* After the verification the failures read at the start are cleared, if any.
Verified(w) == IF writer[w].copy.failed THEN "clear" ELSE "done"

\* A login verifies the credential it reads: a wrong password counts as a
\* failure, the right one is rehashed where the stored cost is not current.
ReadCredential(w) ==
    /\ writer[w].pc = "credential"
    /\ \/ WriterGoes(w, "fail")
       \/ credential.current /\ WriterGoes(w, Verified(w))
       \/ /\ ~credential.current
          /\ writer' = [writer EXCEPT ![w] = [@ EXCEPT !.pc = "rehash",
                                                  !.password = credential.password]]
    /\ UNCHANGED <<now, userRow, credential, mail, issuer, redeemer, lastReset>>

\* update_password_credential_in_realm: the password that was presented, at
\* the realm's cost.
Rehash(w) ==
    /\ writer[w].pc = "rehash" /\ WriterGoes(w, Verified(w))
    /\ credential' = [password |-> writer[w].password, current |-> TRUE]
    /\ UNCHANGED <<now, userRow, mail, issuer, redeemer, lastReset>>

\* update_user writes the whole row: a login the row it read with the failures
\* set, an administrator also any fields of the request.
WriteAccount(w) ==
    LET copy == writer[w].copy  step == writer[w].pc IN
    /\ step \in {"fail", "clear", "update"} /\ WriterGoes(w, "done")
    /\ \/ /\ step # "update"
          /\ userRow' = [copy EXCEPT !.failed = (step = "fail")]
       \/ /\ step = "update"
          /\ \E a \in Addresses, v \in BOOLEAN :
                userRow' = [copy EXCEPT !.email = a, !.verified = v]
    /\ UNCHANGED <<now, credential, mail, issuer, redeemer, lastReset>>

MailTick == Tick /\ UNCHANGED <<userRow, credential, mail, issuer, redeemer, writer, lastReset>>

MailNext ==
    \/ \E i \in Issuers : (\E p \in Purposes : PrepareMail(i, p)) \/ AdmitMail(i)
    \/ \E r \in Redeemers :
          \/ \E i \in Issuers, right \in BOOLEAN : ReadMail(r, i, right)
          \/ Confirm(r) \/ RedeemLink(r) \/ CreateSession(r) \/ Replace(r)
    \/ \E w \in Writers : ReadAccount(w) \/ ReadCredential(w) \/ Rehash(w) \/ WriteAccount(w)
    \/ MailTick

MailSpec == MailInit /\ [][MailNext]_mailVars

-----------------------------------------------------------------------------
(* Properties *)

\* No window of issuance_window_seconds holds more than
\* max_issuances_per_window mails of a kind.
MailsWithinBudget ==
    \A p \in Purposes, t \in 0..MaxTime :
        Cardinality({i \in Issuers : /\ mail[i] # NoMail /\ issuer[i].purpose = p
                                     /\ mail[i].created \in t..(t + IssueWindow - 1)})
            <= MaxIssues

\* Of the requests that present one mail at most one succeeds.
OneUsePerMail ==
    \A q, r \in Redeemers :
        /\ {redeemer[q].pc, redeemer[r].pc} \subseteq {"session", "succeeded"}
        /\ redeemer[q].of = redeemer[r].of
        => q = r

\* The budget holds although requests are admitted in another order than they
\* read the clock in (try_issue_email_challenge, try_issue_password_reset_token),
\* and a mail is used once although every request that presents it may have
\* read it unconsumed (confirm_ciam_email_verification,
\* redeem_email_magic_link_challenge, replace_password_with_reset_token).
MailsAreLimited == MailsWithinBudget /\ OneUsePerMail

\* docs/http-api.md:402: a reset that was answered has replaced the
\* credential; until the next reset no other password is accepted.
ResetReplacesPassword == credential.password = lastReset
=============================================================================
