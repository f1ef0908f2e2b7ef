---------------------------- MODULE PasswordLogin ----------------------------
(***************************************************************************)
(* Password logins of one realm (qid-session api/password.rs and auth.rs;  *)
(* the OIDC authorization endpoint takes the same steps): the admission    *)
(* limiter in front (qid-session password_limit.rs over qid-http           *)
(* ratelimit.rs), the realm's failure budget (qid-core throttle.rs) and    *)
(* the account's lockout in the user row.                                  *)
(*                                                                         *)
(* Logins are processes.  The limiter and the budget answer under a mutex; *)
(* every repository operation a login awaits is one action, and the row it *)
(* writes back is the row it read.  Limiter and budget are per process of  *)
(* qidd, the row is shared: it starts with the failures earlier windows    *)
(* and other processes left in it.                                         *)
(***************************************************************************)
EXTENDS Clock, FiniteSets, FiniteSetsExt

CONSTANTS
    Logins,
    Emails,         \* addresses submitted
    Accounts,       \* those with a user row (and a password credential)
    Realm,          \* the key of the realm's own axis
    NoWindow,
    MaxPerAccount,  \* max_failed_attempts
    MaxPerRealm,    \* max_failed_attempts_per_realm
    Lockout,        \* lockout_duration_seconds: the lockout and every window
    MaxEntries      \* MAX_RATE_LIMIT_ENTRIES

ASSUME PasswordNumberAssumption ==
    /\ MaxPerAccount \in Nat \ {0} /\ MaxPerRealm \in Nat \ {0}
    /\ Lockout \in Nat \ {0} /\ MaxEntries \in Nat
ASSUME PasswordNameAssumption ==
    /\ IsFiniteSet(Logins) /\ IsFiniteSet(Emails)
    /\ Accounts \subseteq Emails /\ Realm \notin Emails

VARIABLES
    entries,     \* the limiter's windows, by key
    nextExpiry,  \* the limiter's lower bound on their expiry
    budget,      \* the realm's window of failures
    account,     \* the lockout columns of the user rows
    login,       \* each login
    era,         \* history: how many windows each key has had
    opened,      \* history: when the last of them began
    late,        \* history: releases in the key's window of older admissions
    locks        \* history: how many locks each account has had

limiter == <<entries, nextExpiry>>
passwordHistory == <<era, opened, late, locks>>
passwordVars == <<now, limiter, budget, account, login, passwordHistory>>

Keys == Emails \cup {Realm}
Window == [count: Nat, start: Nat]
ASSUME NoWindowAssumption == NoWindow \notin Window

Row == [failed: Nat, lockedUntil: Nat]     \* locked_until, 0 for None
LoginSteps == {"idle", "budget", "user", "expired", "credential", "failed",
               "clear", "releaseUser", "releaseRealm", "accepted", "refused"}
Login == [pc: LoginSteps, email: Keys, at: Nat, row: Row,
          userEra: Nat, realmEra: Nat, sawLocks: Nat]

\* u64::MAX, later than any expiry of the model.
Forever == MaxTime + Lockout + 1
NoRow == [failed |-> 0, lockedUntil |-> 0]

PasswordTypeOK ==
    /\ now \in 0..MaxTime
    /\ entries \in [Keys -> Window \cup {NoWindow}]
    /\ nextExpiry \in 0..Forever
    /\ budget \in Window \cup {NoWindow}
    /\ account \in [Accounts -> Row]
    /\ login \in [Logins -> Login]
    /\ era \in [Keys -> Nat] /\ opened \in [Keys -> Nat] /\ late \in [Keys -> Nat]
    /\ locks \in [Accounts -> Nat]

PasswordInit ==
    /\ now = 0
    /\ entries = [k \in Keys |-> NoWindow] /\ nextExpiry = Forever
    /\ budget = NoWindow
    /\ account \in [Accounts -> [failed: 0..(MaxPerAccount - 1), lockedUntil: {0}]]
    /\ login = [l \in Logins |->    \* Realm: no address yet
           [pc |-> "idle", email |-> Realm, at |-> 0, row |-> NoRow,
            userEra |-> 0, realmEra |-> 0, sawLocks |-> 0]]
    /\ era = [k \in Keys |-> 0] /\ opened = [k \in Keys |-> 0]
    /\ late = [k \in Keys |-> 0] /\ locks = [a \in Accounts |-> 0]

LoginAt(l, step) == login[l].pc = step
LoginStep(l, step) == login' = [login EXCEPT ![l].pc = step]
\* ... with the row it holds dropped, once it needs it no more.
LoginForgets(l, step) ==
    login' = [login EXCEPT ![l] = [@ EXCEPT !.pc = step, !.row = NoRow, !.at = 0, !.sawLocks = 0]]

-----------------------------------------------------------------------------
(* The admission limiter *)

Limit(k) == IF k = Realm THEN MaxPerRealm ELSE MaxPerAccount
Running(w) == w # NoWindow /\ now < w.start + Lockout
Tracked(table) == {k \in DOMAIN table : table[k] # NoWindow}

\* axis_state: what the axis has counted in the window that is running.
Count(k) == IF Running(entries[k]) THEN entries[k].count ELSE 0

HasRoom(k) == Count(k) < Limit(k)

\* prune_expired
PruneExpired(table) == [k \in Keys |-> IF Running(table[k]) THEN table[k] ELSE NoWindow]
EarliestExpiry(table) ==
    Min({Forever} \cup {table[k].start + Lockout : k \in Tracked(table)})

Overfull(table, keys) == Cardinality(Tracked(table) \cup keys) > MaxEntries

\* reserve_plan: prune only when some window may have expired.
Reserved(keys) ==
    IF Overfull(entries, keys) /\ now >= nextExpiry
    THEN LET kept == PruneExpired(entries)
         IN [table |-> kept, expiry |-> EarliestExpiry(kept)]
    ELSE [table |-> entries, expiry |-> nextExpiry]

\* commit, for every key of the plan.
Committed(table, keys) ==
    [k \in Keys |-> IF k \notin keys THEN table[k]
                    ELSE [count |-> Count(k) + 1,
                          start |-> IF Running(table[k]) THEN table[k].start ELSE now]]

EarlierExpiry(expiry) == Min({expiry, now + Lockout})

Refuse(l) == LoginStep(l, "refused") /\ UNCHANGED passwordHistory

\* PasswordAttemptLimiter::admit, under the limiter's mutex: both axes count
\* the login, for address e, or neither.
Admit(l, e) ==
    LET keys == {e, Realm}
        plan == Reserved(keys)
        fresh == {k \in keys : ~Running(entries[k])}
        newEra == [k \in Keys |-> era[k] + IF k \in fresh THEN 1 ELSE 0]
    IN
    /\ LoginAt(l, "idle")
    /\ \/ /\ \E k \in keys : ~HasRoom(k)
          /\ Refuse(l) /\ UNCHANGED limiter
       \/ /\ \A k \in keys : HasRoom(k)
          /\ Overfull(plan.table, keys)
          /\ entries' = plan.table /\ nextExpiry' = plan.expiry
          /\ Refuse(l)
       \/ /\ \A k \in keys : HasRoom(k)
          /\ ~Overfull(plan.table, keys)
          /\ entries' = Committed(plan.table, keys)
          /\ nextExpiry' = EarlierExpiry(plan.expiry)
          /\ era' = newEra
          /\ opened' = [k \in Keys |-> IF k \in fresh THEN now ELSE opened[k]]
          /\ late' = [k \in Keys |-> IF k \in fresh THEN 0 ELSE late[k]]
          /\ login' = [login EXCEPT ![l] = [@ EXCEPT !.pc = "budget",
                 !.email = e, !.userEra = newEra[e], !.realmEra = newEra[Realm]]]
          /\ UNCHANGED locks
    /\ UNCHANGED <<now, budget, account>>

\* Mutant: the release clears the key's count.
ReleasedAll(k) == IF Running(entries[k]) THEN NoWindow ELSE entries[k]

\* release_axis: an expired window keeps its count, the last count removes it.
Released(k) ==
    IF ~Running(entries[k]) THEN entries[k]
    ELSE IF entries[k].count <= 1 THEN NoWindow
    ELSE [entries[k] EXCEPT !.count = @ - 1]

Release(k, admittedIn) ==
    /\ entries' = [entries EXCEPT ![k] = Released(k)]
    /\ late' = [late EXCEPT ![k] =
           @ + IF Running(entries[k]) /\ admittedIn # era[k] THEN 1 ELSE 0]
    /\ UNCHANGED <<now, nextExpiry, budget, account, era, opened, locks>>

\* succeeded gives the admission back: two calls, two acquisitions of the mutex.
ReleaseUser(l) ==
    /\ LoginAt(l, "releaseUser") /\ LoginStep(l, "releaseRealm")
    /\ Release(login[l].email, login[l].userEra)

ReleaseRealm(l) ==
    /\ LoginAt(l, "releaseRealm") /\ LoginStep(l, "accepted")
    /\ Release(Realm, login[l].realmEra)

-----------------------------------------------------------------------------
(* authenticate_password *)

\* FailureBudget::exhausted and record_failure.
Exhausted == Running(budget) /\ budget.count >= MaxPerRealm
WithFailure ==
    IF Running(budget) THEN [budget EXCEPT !.count = @ + 1]
    ELSE [count |-> 1, start |-> now]

CheckBudget(l) ==
    /\ LoginAt(l, "budget")
    /\ LoginStep(l, IF Exhausted THEN "refused" ELSE "user")
    /\ UNCHANGED <<now, limiter, budget, account, passwordHistory>>

\* Mutant: a locked account's row is read like any other.
AfterReadIgnoresLock(row) == IF row.lockedUntil > 0 THEN "expired" ELSE "credential"

\* Where the login goes with the row it read: an expired lockout is reset.
AfterRead(row) ==
    IF row.lockedUntil > now THEN "refused"
    ELSE IF row.lockedUntil > 0 THEN "expired"
    ELSE "credential"

\* get_user_by_email, and the clock read after it.  An address nobody has is
\* refused and no failure is recorded.
ReadUserRow(l) ==
    LET e == login[l].email IN
    /\ LoginAt(l, "user")
    /\ login' = [login EXCEPT ![l] =
           IF e \notin Accounts THEN [@ EXCEPT !.pc = "refused"]
           ELSE IF AfterRead(account[e]) = "refused" THEN [@ EXCEPT !.pc = "refused"]
           ELSE [@ EXCEPT !.pc = AfterRead(account[e]), !.at = now,
                          !.row = account[e], !.sawLocks = locks[e]]]
    /\ UNCHANGED <<now, limiter, budget, account, passwordHistory>>

\* The row is reset in the repository; the login goes on with the one it read.
ResetExpired(l) ==
    /\ LoginAt(l, "expired") /\ LoginStep(l, "credential")
    /\ account' = [account EXCEPT ![login[l].email] = NoRow]
    /\ UNCHANGED <<now, limiter, budget, passwordHistory>>

\* record_failed_attempt up to its write, on the login's own copy of the row.
Failed(l) ==
    LET n == login[l].row.failed + 1 IN
    [failed |-> n,
     lockedUntil |-> IF n >= MaxPerAccount THEN login[l].at + Lockout
                     ELSE login[l].row.lockedUntil]

\* get_password_credential and the verification, with either result.
\* A rehash replaces the hash of the same password and changes nothing here.
Verify(l) ==
    /\ LoginAt(l, "credential")
    /\ \/ /\ budget' = WithFailure
          /\ login' = [login EXCEPT ![l] = [@ EXCEPT !.pc = "failed", !.row = Failed(l), !.at = 0]]
       \/ /\ IF login[l].row = NoRow THEN LoginForgets(l, "releaseUser")
             ELSE LoginStep(l, "clear")
          /\ UNCHANGED budget
    /\ UNCHANGED <<now, limiter, account, passwordHistory>>

\* update_user of a failed login: the whole row, as the login has it.
WriteFailure(l) ==
    LET e == login[l].email IN
    /\ LoginAt(l, "failed") /\ LoginForgets(l, "refused")
    /\ account' = [account EXCEPT ![e] = login[l].row]
    /\ locks' = [locks EXCEPT ![e] = @ + IF login[l].row.failed >= MaxPerAccount THEN 1 ELSE 0]
    /\ UNCHANGED <<now, limiter, budget, era, opened, late>>

\* update_user of a successful login that read failures or a lockout.
ClearFailures(l) ==
    /\ LoginAt(l, "clear") /\ LoginForgets(l, "releaseUser")
    /\ account' = [account EXCEPT ![login[l].email] = NoRow]
    /\ UNCHANGED <<now, limiter, budget, passwordHistory>>

\* The credential context or a repository operation fails, and with it the
\* login: nothing is given back.
LoginFails(l) ==
    /\ login[l].pc \in {"budget", "user", "expired", "credential", "failed", "clear"}
    /\ LoginForgets(l, "refused")
    /\ UNCHANGED <<now, limiter, budget, account, passwordHistory>>

PasswordTick == Tick /\ UNCHANGED <<limiter, budget, account, login, passwordHistory>>

PasswordNext ==
    \/ \E l \in Logins :
          \/ \E e \in Emails : Admit(l, e)
          \/ CheckBudget(l) \/ ReadUserRow(l) \/ ResetExpired(l)
          \/ Verify(l) \/ WriteFailure(l) \/ ClearFailures(l)
          \/ ReleaseUser(l) \/ ReleaseRealm(l) \/ LoginFails(l)
    \/ PasswordTick

PasswordSpec == PasswordInit /\ [][PasswordNext]_passwordVars

-----------------------------------------------------------------------------
(* What the limits promise *)

\* The admissions of the key's present window that were not given back: logins
\* that failed and logins still on their way.
Unreturned(k) ==
    {l \in Logins :
        /\ login[l].email # Realm    \* admitted
        /\ IF k = Realm
           THEN login[l].realmEra = era[k] /\ ~LoginAt(l, "accepted")
           ELSE /\ login[l].email = k /\ login[l].userEra = era[k]
                /\ login[l].pc \notin {"releaseRealm", "accepted"}}

\* "Both counts follow the logins that failed and the ones still in flight"
\* (password_limit.rs:73), up to the releases of logins that a former window
\* admitted: those take a count of the present window, so that many more
\* logins than the limit may fail in it, and no more.
CountsCover ==
    \A k \in Keys :
        /\ era[k] > 0 /\ now < opened[k] + Lockout
           => Cardinality(Unreturned(k)) <= Count(k) + late[k]
        /\ Cardinality(Unreturned(k)) <= Limit(k) + late[k]

\* next_expiry never passes the end of a tracked window, so that a new key is
\* refused for lack of capacity only while every tracked window runs.
RefusalsEnd ==
    /\ \A k \in Tracked(entries) : nextExpiry <= entries[k].start + Lockout
    /\ Cardinality(Tracked(entries)) <= MaxEntries

\* The limiter holds and lets go: its counts cover the failed logins and those
\* under way, and nobody is refused for a window that is over
\* (ratelimit.rs:324 and :413).
LimiterHoldsAndLetsGo == CountsCover /\ RefusalsEnd

\* A lockout in force is lifted or moved only by a login that read the row
\* before the lockout was written: whoever reads it afterwards is refused.
LockoutYieldsOnlyToOverlap ==
    [][\A a \in Accounts :
          account[a].lockedUntil > now /\ account'[a].lockedUntil # account[a].lockedUntil
          => \E l \in Logins : /\ login'[l].pc # login[l].pc
                               /\ login[l].email = a
                               /\ login[l].sawLocks < locks[a]]_passwordVars
=============================================================================
