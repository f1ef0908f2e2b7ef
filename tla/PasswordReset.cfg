SPECIFICATION MailSpec
CONSTANTS
    MaxTime = 1
    Issuers = {i1}
    Redeemers = {r1}
    Writers = {w}
    Purposes = {"reset"}
    Addresses = {m1}
    NoMail = NoMail
    MaxIssues = 1
    IssueWindow = 2
    MailTtl = 1
    MaxTries = 1
INVARIANT ResetReplacesPassword
CHECK_DEADLOCK FALSE
