---------------------------- MODULE Login_proofs -----------------------------
(***************************************************************************)
(* Proofs about password logins and push approvals, for any number of      *)
(* logins, accounts, limits and lifetimes.                                 *)
(***************************************************************************)
EXTENDS PasswordLogin, PushLogin, FiniteSetTheorems, SequenceTheorems,
        WellFoundedInduction, TLAPS

-----------------------------------------------------------------------------
(* Numbers *)

\* The least-number principle, for the minima below.
LEMMA LeastNumber ==
    ASSUME NEW T, T \subseteq Nat, T # {}
    PROVE  \E x \in T : \A y \in T : x <= y
  <1> DEFINE R == {ss \in Nat \X Nat : ss[1] < ss[2]}
  <1>1. IsWellFoundedOn(R, Nat)
    BY NatLessThanWellFounded DEF OpToRel
  <1> HIDE DEF R
  <1>2. PICK x \in T : \A y \in T : ~ (<<y, x>> \in R)
    BY <1>1, WFMin
  <1>3. \A m, n \in Nat : <<m, n>> \in R <=> m < n
    BY DEF R
  <1>4. ASSUME NEW y \in T PROVE x <= y
    <2>1. ~(y < x)
      BY <1>2, <1>3
    <2> QED BY <2>1
  <1> QED BY <1>4

\* A set of naturals that is not empty has a least element, and Min is it.
LEMMA MinIsLeast ==
    ASSUME NEW T, T \subseteq Nat, T # {}
    PROVE  Min(T) \in T /\ \A y \in T : Min(T) <= y
  BY LeastNumber DEF Min

-----------------------------------------------------------------------------
(* PasswordLogin.  A login that holds a row either read it after the last   *)
(* lock was written, and then no lockout was in force, or has seen fewer    *)
(* locks than there were.                                                   *)

HoldsRow(r) == r.pc \in {"expired", "credential", "failed", "clear"}

LoginInStep(r) ==
    /\ r.pc = "idle" => r.email = Realm
    /\ r.pc \notin {"idle", "refused"} => r.email # Realm
    /\ r.userEra <= era[r.email] /\ r.realmEra <= era[Realm]
    /\ HoldsRow(r) =>
          /\ r.email \in Accounts
          /\ r.pc # "failed" \/ r.row.failed < MaxPerAccount => r.row.lockedUntil <= now
          /\ r.sawLocks <= locks[r.email]
          /\ r.sawLocks = locks[r.email] => account[r.email].lockedUntil <= now

\* A window that is tracked is the last one its key has had.
WindowsInStep ==
    \A k \in Keys : entries[k] # NoWindow => entries[k].start = opened[k] /\ era[k] > 0

LoginsInv ==
    /\ PasswordTypeOK /\ \A l \in Logins : LoginInStep(login[l])
    /\ WindowsInStep /\ CountsCover /\ RefusalsEnd

\* What the assumptions say of the limits and the clock.
LEMMA PasswordNumbers ==
    /\ MaxPerAccount \in Nat /\ MaxPerRealm \in Nat /\ Lockout \in Nat /\ MaxEntries \in Nat
    /\ MaxPerAccount > 0 /\ MaxPerRealm > 0 /\ Lockout > 0 /\ MaxTime \in Nat
    /\ Forever \in Nat /\ \A t \in 0..MaxTime : t + Lockout \in 0..Forever
  BY PasswordNumberAssumption, ClockAssumption DEF Forever

\* The keys of the limiter are finitely many.
LEMMA KeysFinite == IsFiniteSet(Keys) /\ Realm \in Keys /\ Emails \subseteq Keys
  BY PasswordNameAssumption, FS_AddElement DEF Keys

\* So are the logins whose admission is out.
LEMMA UnreturnedFinite ==
    ASSUME NEW k \in Keys
    PROVE  Unreturned(k) \subseteq Logins /\ Cardinality(Unreturned(k)) \in Nat
  BY PasswordNameAssumption, FS_Subset, FS_CardinalityType DEF Unreturned

\* The limiter's counts of a state, as numbers.
LEMMA CountsAreNumbers ==
    ASSUME PasswordTypeOK, NEW k \in Keys
    PROVE  /\ Count(k) \in Nat /\ Limit(k) \in Nat /\ Limit(k) > 0 /\ late[k] \in Nat
           /\ era[k] \in Nat /\ opened[k] \in Nat /\ now \in Nat /\ now \in 0..MaxTime
           /\ entries[k] # NoWindow =>
                 entries[k] \in Window /\ entries[k].count \in Nat /\ entries[k].start \in Nat
  BY PasswordNumbers DEF PasswordTypeOK, Count, Limit, Running, Window

\* A step of one login that leaves the limiter, its history and the clock.
LEMMA LimiterRests ==
    ASSUME LoginsInv, NEW l \in Logins, NEW r \in Login, login' = [login EXCEPT ![l] = r],
           UNCHANGED <<now, limiter, era, opened, late>>,
           r.email = login[l].email, r.userEra = login[l].userEra, r.realmEra = login[l].realmEra,
           login[l].pc \in {"releaseRealm", "accepted"} <=> r.pc \in {"releaseRealm", "accepted"},
           login[l].pc = "accepted" <=> r.pc = "accepted"
    PROVE  (WindowsInStep /\ CountsCover /\ RefusalsEnd)'
  <1> USE DEF LoginsInv
  <1>1. /\ login'[l] = r /\ \A m \in Logins : m # l => login'[m] = login[m]
    BY DEF PasswordTypeOK
  <1>2. ASSUME NEW k \in Keys PROVE Unreturned(k)' = Unreturned(k)
    BY <1>1 DEF Unreturned, LoginAt
  <1>3. ASSUME NEW k \in Keys PROVE Count(k)' = Count(k)
    BY DEF Count, Running, limiter
  <1>4. WindowsInStep'
    BY DEF WindowsInStep, limiter
  <1>5. CountsCover'
    BY <1>2, <1>3 DEF CountsCover, Limit
  <1>6. RefusalsEnd'
    BY DEF RefusalsEnd, Tracked, limiter
  <1> QED BY <1>4, <1>5, <1>6

\* ... and writes no row.
LEMMA RowsRest ==
    ASSUME LoginsInv, NEW l \in Logins, NEW r \in Login, login' = [login EXCEPT ![l] = r],
           UNCHANGED <<now, limiter, account, passwordHistory>>, budget' \in Window \cup {NoWindow},
           r.email = login[l].email, r.userEra = login[l].userEra, r.realmEra = login[l].realmEra,
           r.pc # "idle", login[l].pc \notin {"releaseUser", "releaseRealm", "accepted"},
           r.pc \notin {"releaseRealm", "accepted"},
           LoginInStep(r)
    PROVE  LoginsInv'
  <1> USE DEF LoginsInv
  <1>1. /\ login' \in [Logins -> Login] /\ login'[l] = r
        /\ \A m \in Logins : m # l => login'[m] = login[m]
    BY DEF PasswordTypeOK
  <1>2. PasswordTypeOK'
    BY <1>1 DEF PasswordTypeOK, limiter, passwordHistory
  <1>3. (\A m \in Logins : LoginInStep(login[m]))'
    BY <1>1 DEF LoginInStep, HoldsRow, passwordHistory
  <1>4. (WindowsInStep /\ CountsCover /\ RefusalsEnd)'
    BY LimiterRests DEF passwordHistory
  <1> QED BY <1>2, <1>3, <1>4

\* The steps that only read, and a failure, keep the login invariant.
LEMMA ReadingSteps ==
    ASSUME LoginsInv, NEW l \in Logins, CheckBudget(l) \/ ReadUserRow(l) \/ LoginFails(l)
    PROVE  LoginsInv'
  <1> USE DEF LoginsInv
  <1>0. PICK d \in Login : d = login[l]
    BY DEF PasswordTypeOK
  <1>1. /\ d.email \in Keys /\ NoRow \in Row /\ now \in Nat /\ budget \in Window \cup {NoWindow}
    BY ClockAssumption DEF Login, NoRow, Row, PasswordTypeOK
  <1>2. ASSUME NEW r \in Login, login' = [login EXCEPT ![l] = r],
               UNCHANGED <<now, limiter, account, passwordHistory, budget>>,
               r.email = d.email, r.userEra = d.userEra, r.realmEra = d.realmEra,
               d.pc \in {"budget", "user", "expired", "credential", "failed", "clear"},
               \/ r.pc \in {"refused", "user"}
               \/ HoldsRow(r) /\ LoginInStep(r)
        PROVE  LoginsInv'
    <2>1. LoginInStep(r) /\ r.pc \notin {"idle", "releaseRealm", "accepted"}
      BY <1>0, <1>2 DEF LoginInStep, HoldsRow
    <2> QED BY <1>0, <1>1, <1>2, <2>1, RowsRest
  <1>3. CASE CheckBudget(l)
    <2>1. PICK step \in {"refused", "user"} : login' = [login EXCEPT ![l].pc = step]
      BY <1>3 DEF CheckBudget, LoginStep
    <2>2. PICK r \in Login : r = [d EXCEPT !.pc = step]
      BY DEF Login, LoginSteps
    <2>3. /\ r.pc = step /\ r.email = d.email /\ r.userEra = d.userEra /\ r.realmEra = d.realmEra
          /\ login' = [login EXCEPT ![l] = r]
      BY <1>0, <2>1, <2>2 DEF Login, PasswordTypeOK
    <2> QED BY <1>0, <1>2, <1>3, <2>3 DEF CheckBudget, LoginAt
  <1>4. CASE LoginFails(l)
    <2>1. PICK r \in Login :
            r = [d EXCEPT !.pc = "refused", !.row = NoRow, !.at = 0, !.sawLocks = 0]
      BY <1>1 DEF Login, LoginSteps
    <2>2. /\ r.pc = "refused" /\ r.email = d.email /\ r.userEra = d.userEra
          /\ r.realmEra = d.realmEra
      BY <2>1 DEF Login
    <2>3. login' = [login EXCEPT ![l] = r]
      BY <1>0, <1>4, <2>1 DEF LoginFails, LoginForgets, PasswordTypeOK
    <2> QED BY <1>0, <1>2, <1>4, <2>2, <2>3 DEF LoginFails
  <1>5. CASE ReadUserRow(l)
    <2>1. d.pc = "user" /\ UNCHANGED <<now, limiter, budget, account, passwordHistory>>
      BY <1>0, <1>5 DEF ReadUserRow, LoginAt
    <2>2. CASE login' = [login EXCEPT ![l] = [d EXCEPT !.pc = "refused"]]
      <3>1. PICK r \in Login : r = [d EXCEPT !.pc = "refused"]
        BY DEF Login, LoginSteps
      <3>2. /\ r.pc = "refused" /\ r.email = d.email /\ r.userEra = d.userEra
            /\ r.realmEra = d.realmEra
        BY <3>1 DEF Login
      <3> QED BY <1>2, <2>1, <2>2, <3>1, <3>2
    <2>3. CASE /\ d.email \in Accounts /\ AfterRead(account[d.email]) # "refused"
               /\ login' = [login EXCEPT ![l] =
                     [d EXCEPT !.pc = AfterRead(account[d.email]), !.at = now,
                               !.row = account[d.email], !.sawLocks = locks[d.email]]]
      <3>1. PICK row \in Row, n \in Nat, step \in {"expired", "credential"} :
              /\ row = account[d.email] /\ n = locks[d.email] /\ step = AfterRead(row)
              /\ ~(row.lockedUntil > now)
        BY <2>3 DEF PasswordTypeOK, AfterRead
      <3>2. row.lockedUntil <= now
        BY <1>1, <3>1 DEF Row
      <3>3. PICK r \in Login :
              r = [d EXCEPT !.pc = step, !.at = now, !.row = row, !.sawLocks = n]
        BY <1>1 DEF Login, LoginSteps
      <3>4. /\ r.pc = step /\ r.email = d.email /\ r.userEra = d.userEra
            /\ r.realmEra = d.realmEra /\ r.row = row /\ r.sawLocks = n
        BY <3>3 DEF Login
      <3>5. login' = [login EXCEPT ![l] = r]
        BY <2>3, <3>1, <3>3
      <3>6. HoldsRow(r)
        BY <3>4 DEF HoldsRow
      <3>7. LoginInStep(r)
        BY <1>0, <2>1, <2>3, <3>1, <3>2, <3>4 DEF LoginInStep
      <3> QED BY <1>2, <2>1, <3>4, <3>5, <3>6, <3>7
    <2>4. \/ login' = [login EXCEPT ![l] = [d EXCEPT !.pc = "refused"]]
          \/ /\ d.email \in Accounts /\ AfterRead(account[d.email]) # "refused"
             /\ login' = [login EXCEPT ![l] =
                     [d EXCEPT !.pc = AfterRead(account[d.email]), !.at = now,
                               !.row = account[d.email], !.sawLocks = locks[d.email]]]
      BY <1>0, <1>5 DEF ReadUserRow, PasswordTypeOK
    <2> QED BY <2>2, <2>3, <2>4
  <1> QED BY <1>3, <1>4, <1>5

\* Verifying the password keeps the login invariant.
LEMMA VerifyStep ==
    ASSUME LoginsInv, NEW l \in Logins, Verify(l)
    PROVE  LoginsInv'
  <1> USE DEF LoginsInv
  <1>0. PICK d \in Login : d = login[l]
    BY DEF PasswordTypeOK
  <1>1. /\ d.email \in Keys /\ NoRow \in Row /\ now \in Nat /\ d.pc = "credential"
        /\ d.row \in Row /\ d.at \in Nat
        /\ UNCHANGED <<now, limiter, account, passwordHistory>>
        /\ budget \in Window \cup {NoWindow}
    BY <1>0, ClockAssumption DEF Login, NoRow, Row, PasswordTypeOK, Verify, LoginAt
  <1>2. CASE /\ budget' = WithFailure
             /\ login' = [login EXCEPT ![l] = [@ EXCEPT !.pc = "failed", !.row = Failed(l), !.at = 0]]
    <2>1. WithFailure \in Window
      BY <1>1 DEF WithFailure, Running, Window
    <2>2. /\ Failed(l) \in Row
          /\ Failed(l).failed < MaxPerAccount => Failed(l).lockedUntil = d.row.lockedUntil
      BY <1>0, <1>1, PasswordNumbers DEF Failed, Row
    <2>3. PICK row \in Row : row = Failed(l)
      BY <2>2
    <2>4. PICK r \in Login : r = [d EXCEPT !.pc = "failed", !.row = row, !.at = 0]
      BY DEF Login, LoginSteps
    <2>5. /\ r.pc = "failed" /\ r.email = d.email /\ r.userEra = d.userEra
          /\ r.realmEra = d.realmEra /\ r.row = row /\ r.sawLocks = d.sawLocks
      BY <2>4 DEF Login
    <2>6. login' = [login EXCEPT ![l] = r]
      BY <1>0, <1>2, <2>3, <2>4 DEF PasswordTypeOK
    <2>7. LoginInStep(r)
      BY <1>0, <1>1, <2>2, <2>3, <2>5 DEF LoginInStep, HoldsRow
    <2> QED BY <1>0, <1>1, <1>2, <2>1, <2>5, <2>6, <2>7, RowsRest
  <1>3. CASE LoginForgets(l, "releaseUser") /\ UNCHANGED budget
    <2>1. PICK r \in Login :
            r = [d EXCEPT !.pc = "releaseUser", !.row = NoRow, !.at = 0, !.sawLocks = 0]
      BY <1>1 DEF Login, LoginSteps
    <2>2. /\ r.pc = "releaseUser" /\ r.email = d.email /\ r.userEra = d.userEra
          /\ r.realmEra = d.realmEra
      BY <2>1 DEF Login
    <2>3. login' = [login EXCEPT ![l] = r]
      BY <1>0, <1>3, <2>1 DEF LoginForgets, PasswordTypeOK
    <2>4. LoginInStep(r)
      BY <1>0, <1>1, <2>2 DEF LoginInStep, HoldsRow
    <2> QED BY <1>0, <1>1, <1>3, <2>2, <2>3, <2>4, RowsRest
  <1>4. CASE LoginStep(l, "clear") /\ UNCHANGED budget
    <2>1. PICK r \in Login : r = [d EXCEPT !.pc = "clear"]
      BY DEF Login, LoginSteps
    <2>2. /\ r.pc = "clear" /\ r.email = d.email /\ r.userEra = d.userEra
          /\ r.realmEra = d.realmEra /\ r.row = d.row /\ r.sawLocks = d.sawLocks
      BY <2>1 DEF Login
    <2>3. login' = [login EXCEPT ![l] = r]
      BY <1>0, <1>4, <2>1 DEF LoginStep, PasswordTypeOK
    <2>4. LoginInStep(r)
      BY <1>0, <1>1, <2>2 DEF LoginInStep, HoldsRow
    <2> QED BY <1>0, <1>1, <1>4, <2>2, <2>3, <2>4, RowsRest
  <1> QED BY <1>2, <1>3, <1>4 DEF Verify

\* A row is written: without a lockout in force, or with one more lock.
LEMMA RowWrites ==
    ASSUME LoginsInv, NEW l \in Logins, ResetExpired(l) \/ WriteFailure(l) \/ ClearFailures(l)
    PROVE  LoginsInv'
  <1> USE DEF LoginsInv
  <1>0. PICK d \in Login : d = login[l]
    BY DEF PasswordTypeOK
  <1>1. /\ HoldsRow(d) /\ d.email \in Accounts /\ d.email \in Keys /\ NoRow \in Row /\ now \in Nat
        /\ d.row \in Row /\ locks[d.email] \in Nat
        /\ UNCHANGED <<now, limiter, budget, era, opened, late>>
    BY <1>0, ClockAssumption
    DEF HoldsRow, LoginInStep, ResetExpired, WriteFailure, ClearFailures, LoginAt,
        PasswordTypeOK, passwordHistory, Login, NoRow, Row
  <1>2. PICK r \in Login :
          /\ login' = [login EXCEPT ![l] = r]
          /\ r.email = d.email /\ r.userEra = d.userEra /\ r.realmEra = d.realmEra
          /\ r.pc \in {"credential", "releaseUser", "refused"}
          /\ HoldsRow(r) =>
                d.pc = "expired" /\ r.sawLocks = d.sawLocks /\ r.row = d.row
    <2>1. CASE ResetExpired(l)
      <3>1. PICK r \in Login : r = [d EXCEPT !.pc = "credential"]
        BY DEF Login, LoginSteps
      <3>2. /\ r.pc = "credential" /\ r.email = d.email /\ r.userEra = d.userEra
            /\ r.realmEra = d.realmEra /\ r.row = d.row /\ r.sawLocks = d.sawLocks
        BY <3>1 DEF Login
      <3>3. login' = [login EXCEPT ![l] = r]
        BY <1>0, <2>1, <3>1 DEF ResetExpired, LoginStep, PasswordTypeOK
      <3>4. d.pc = "expired"
        BY <1>0, <2>1 DEF ResetExpired, LoginAt
      <3> QED BY <2>1, <3>2, <3>3, <3>4
    <2>2. ASSUME NEW step \in {"refused", "releaseUser"}, LoginForgets(l, step)
          PROVE  \E r \in Login :
                    /\ login' = [login EXCEPT ![l] = r] /\ r.pc = step
                    /\ r.email = d.email /\ r.userEra = d.userEra /\ r.realmEra = d.realmEra
      <3>1. PICK r \in Login :
              r = [d EXCEPT !.pc = step, !.row = NoRow, !.at = 0, !.sawLocks = 0]
        BY <1>1 DEF Login, LoginSteps
      <3>2. /\ r.pc = step /\ r.email = d.email /\ r.userEra = d.userEra
            /\ r.realmEra = d.realmEra
        BY <3>1 DEF Login
      <3>3. login' = [login EXCEPT ![l] = r]
        BY <1>0, <2>2, <3>1 DEF LoginForgets, PasswordTypeOK
      <3> QED BY <3>2, <3>3
    <2>3. CASE WriteFailure(l) \/ ClearFailures(l)
      <3>1. PICK step \in {"refused", "releaseUser"} : LoginForgets(l, step)
        BY <2>3 DEF WriteFailure, ClearFailures
      <3>2. PICK r \in Login :
              /\ login' = [login EXCEPT ![l] = r] /\ r.pc = step
              /\ r.email = d.email /\ r.userEra = d.userEra /\ r.realmEra = d.realmEra
        BY <2>2, <3>1
      <3>3. ~HoldsRow(r)
        BY <3>2 DEF HoldsRow
      <3> QED BY <3>2, <3>3
    <2> QED BY <2>1, <2>3
  <1>3. PICK row \in Row, n \in Nat :
          /\ account' = [account EXCEPT ![d.email] = row] /\ locks' = [locks EXCEPT ![d.email] = n]
          /\ n = locks[d.email] + 1 \/ (n = locks[d.email] /\ row.lockedUntil <= now)
    <2>1. CASE ResetExpired(l) \/ ClearFailures(l)
      <3>1. locks' = [locks EXCEPT ![d.email] = locks[d.email]]
        BY <1>1, <2>1 DEF ResetExpired, ClearFailures, passwordHistory, PasswordTypeOK
      <3>2. NoRow.lockedUntil <= now
        BY <1>1 DEF NoRow
      <3> QED BY <1>0, <1>1, <2>1, <3>1, <3>2 DEF ResetExpired, ClearFailures
    <2>2. CASE WriteFailure(l)
      <3>1. d.pc = "failed"
        BY <1>0, <2>2 DEF WriteFailure, LoginAt
      <3>2. PICK i \in {0, 1} :
              /\ account' = [account EXCEPT ![d.email] = d.row]
              /\ locks' = [locks EXCEPT ![d.email] = locks[d.email] + i]
              /\ i = 0 => ~(d.row.failed >= MaxPerAccount)
        <4>1. /\ account' = [account EXCEPT ![d.email] = d.row]
              /\ locks' = [locks EXCEPT ![d.email] =
                              locks[d.email] + IF d.row.failed >= MaxPerAccount THEN 1 ELSE 0]
          BY <1>0, <1>1, <2>2 DEF WriteFailure, PasswordTypeOK
        <4>2. CASE d.row.failed >= MaxPerAccount
          <5>1. locks' = [locks EXCEPT ![d.email] = locks[d.email] + 1]
            BY <4>1, <4>2
          <5>2. 1 \in {0, 1} /\ 1 # 0
            OBVIOUS
          <5> QED BY <4>1, <5>1, <5>2
        <4>3. CASE ~(d.row.failed >= MaxPerAccount)
          BY <4>1, <4>3
        <4> QED BY <4>2, <4>3
      <3>3. PICK k \in Nat : k = locks[d.email] + i /\ (i = 0 => k = locks[d.email])
        BY <1>1
      <3>4. i = 0 => d.row.failed < MaxPerAccount
        BY <1>1, <3>2, PasswordNumbers DEF Row
      <3>5. i = 0 => d.row.lockedUntil <= now
        BY <1>0, <1>1, <3>4 DEF LoginInStep
      <3> QED BY <1>1, <3>2, <3>3, <3>5
    <2> QED BY <2>1, <2>2
  <1>4. /\ login' \in [Logins -> Login] /\ login'[l] = r
        /\ \A m \in Logins : m # l => login'[m] = login[m]
    BY <1>2 DEF PasswordTypeOK
  <1>5. /\ account' \in [Accounts -> Row] /\ account'[d.email] = row
        /\ \A a \in Accounts : a # d.email => account'[a] = account[a]
        /\ locks' \in [Accounts -> Nat] /\ locks'[d.email] = n
        /\ \A a \in Accounts : a # d.email => locks'[a] = locks[a]
    BY <1>1, <1>3 DEF PasswordTypeOK
  <1>6. PasswordTypeOK'
    BY <1>1, <1>4, <1>5 DEF PasswordTypeOK, limiter
  <1>7. (WindowsInStep /\ CountsCover /\ RefusalsEnd)'
    <2>1. d.pc \notin {"releaseRealm", "accepted"} /\ r.pc \notin {"releaseRealm", "accepted"}
      BY <1>1, <1>2 DEF HoldsRow
    <2> QED BY <1>0, <1>1, <1>2, <2>1, LimiterRests
  <1>8. ASSUME NEW m \in Logins PROVE LoginInStep(login[m])'
    <2>1. ASSUME NEW x \in Login, HoldsRow(x), LoginInStep(x)
          PROVE  /\ x.email \in Accounts
                 /\ x.sawLocks <= locks'[x.email]
                 /\ x.sawLocks = locks'[x.email] => account'[x.email].lockedUntil <= now
      <3>1. /\ x.email \in Accounts /\ x.sawLocks <= locks[x.email] /\ x.sawLocks \in Nat
            /\ x.sawLocks = locks[x.email] => account[x.email].lockedUntil <= now
            /\ locks[x.email] \in Nat
        BY <2>1 DEF LoginInStep, Login, PasswordTypeOK
      <3>2. CASE x.email # d.email
        BY <1>5, <3>1, <3>2
      <3>3. CASE x.email = d.email
        BY <1>1, <1>3, <1>5, <3>1, <3>3
      <3> QED BY <3>2, <3>3
    <2>2. CASE m # l
      BY <1>1, <1>4, <2>1, <2>2 DEF LoginInStep, PasswordTypeOK
    <2>3. CASE m = l
      <3>1. HoldsRow(r) => d.pc = "expired" /\ r.row = d.row /\ r.sawLocks = d.sawLocks
        BY <1>2
      <3>2. HoldsRow(r) =>
              /\ r.email \in Accounts
              /\ r.row.lockedUntil <= now
              /\ r.sawLocks <= locks'[r.email]
              /\ r.sawLocks = locks'[r.email] => account'[r.email].lockedUntil <= now
        BY <1>0, <1>1, <1>2, <2>1, <3>1 DEF LoginInStep
      <3>3. r.userEra <= era[r.email] /\ r.realmEra <= era[Realm] /\ r.email # Realm
        BY <1>0, <1>1, <1>2, PasswordNameAssumption DEF LoginInStep
      <3> QED BY <1>1, <1>2, <1>4, <2>3, <3>2, <3>3 DEF LoginInStep
    <2> QED BY <2>2, <2>3
  <1> QED BY <1>6, <1>7, <1>8

\* Pruned(T): what reserve_plan leaves of the table, every window that runs included.
Pruned(T) ==
    /\ T \in [Keys -> Window \cup {NoWindow}]
    /\ \A k \in Keys : T[k] # NoWindow => T[k] = entries[k]
    /\ \A k \in Keys : Running(entries[k]) => T[k] = entries[k]

\* A table without its expired windows tracks no more keys, and runs the same ones.
LEMMA PrunedIsSmaller ==
    ASSUME LoginsInv, NEW T, Pruned(T)
    PROVE  /\ Tracked(T) \subseteq Keys /\ Cardinality(Tracked(T)) \in Nat
           /\ Cardinality(Tracked(T)) <= MaxEntries
           /\ \A k \in Keys : Running(T[k]) <=> Running(entries[k])
  <1>1. Tracked(T) \subseteq Tracked(entries) /\ Tracked(entries) \subseteq Keys
    BY DEF Tracked, Pruned, LoginsInv, PasswordTypeOK
  <1>2. IsFiniteSet(Tracked(entries)) /\ IsFiniteSet(Tracked(T))
    BY <1>1, KeysFinite, FS_Subset
  <1>3. Cardinality(Tracked(T)) <= Cardinality(Tracked(entries))
    BY <1>1, <1>2, FS_Subset
  <1>4. Cardinality(Tracked(entries)) <= MaxEntries
    BY DEF LoginsInv, RefusalsEnd
  <1>5. Cardinality(Tracked(T)) \in Nat /\ Cardinality(Tracked(entries)) \in Nat
    BY <1>2, FS_CardinalityType
  <1>6. \A k \in Keys : Running(T[k]) <=> Running(entries[k])
    BY DEF Pruned, Running
  <1> QED BY <1>1, <1>3, <1>4, <1>5, <1>6, PasswordNumbers

\* The table and next expiry that a reservation leaves agree.
LEMMA PlanInStep ==
    ASSUME LoginsInv, NEW keys \in SUBSET Keys
    PROVE  LET plan == Reserved(keys) IN
           /\ Pruned(plan.table) /\ plan.expiry \in 0..Forever
           /\ \A k \in Tracked(plan.table) : plan.expiry <= plan.table[k].start + Lockout
  <1>1. CASE Overfull(entries, keys) /\ now >= nextExpiry
    <2>1. PICK T : T = PruneExpired(entries)
      OBVIOUS
    <2>2. T \in [Keys -> Window \cup {NoWindow}] /\ Pruned(T)
      BY <2>1 DEF PruneExpired, Pruned, LoginsInv, PasswordTypeOK
    <2>3. Reserved(keys) = [table |-> T, expiry |-> EarliestExpiry(T)]
      BY <1>1, <2>1 DEF Reserved
    <2> DEFINE ends == {Forever} \cup {T[k].start + Lockout : k \in Tracked(T)}
    <2>4. \A k \in Tracked(T) : T[k].start \in Nat
      BY <2>2 DEF Tracked, Window
    <2>5. ends \subseteq Nat /\ ends # {}
      BY <2>4, PasswordNumbers
    <2>6. Min(ends) \in ends /\ \A y \in ends : Min(ends) <= y
      BY <2>5, MinIsLeast
    <2>7. Min(ends) \in 0..Forever
      BY <2>5, <2>6, PasswordNumbers
    <2>8. EarliestExpiry(T) = Min(ends)
      BY DEF EarliestExpiry
    <2>9. \A k \in Tracked(T) : EarliestExpiry(T) <= T[k].start + Lockout
      BY <2>6, <2>8
    <2> HIDE DEF ends
    <2> QED BY <2>2, <2>3, <2>7, <2>8, <2>9
  <1>2. CASE ~(Overfull(entries, keys) /\ now >= nextExpiry)
    <2>1. Reserved(keys) = [table |-> entries, expiry |-> nextExpiry]
      BY <1>2 DEF Reserved
    <2> QED BY <2>1 DEF LoginsInv, PasswordTypeOK, RefusalsEnd, Pruned
  <1> QED BY <1>1, <1>2

\* A login refused at the door counts nowhere.
LEMMA AdmitRefused ==
    ASSUME LoginsInv, NEW l \in Logins, LoginAt(l, "idle"), Refuse(l), Pruned(entries'),
           nextExpiry' \in 0..Forever,
           \A k \in Tracked(entries') : nextExpiry' <= entries'[k].start + Lockout,
           UNCHANGED <<now, budget, account>>
    PROVE  LoginsInv'
  <1> USE DEF LoginsInv
  <1>0. PICK d \in Login : d = login[l] /\ d.pc = "idle" /\ d.email = Realm
    BY DEF PasswordTypeOK, LoginInStep, LoginAt
  <1>1. PICK r \in Login : r = [d EXCEPT !.pc = "refused"]
    BY DEF Login, LoginSteps
  <1>2. /\ r.pc = "refused" /\ r.email = Realm /\ r.userEra = d.userEra /\ r.realmEra = d.realmEra
    BY <1>0, <1>1 DEF Login
  <1>3. login' = [login EXCEPT ![l] = r] /\ UNCHANGED <<era, opened, late, locks>>
    BY <1>0, <1>1 DEF Refuse, LoginStep, PasswordTypeOK, passwordHistory
  <1>4. /\ login' \in [Logins -> Login] /\ login'[l] = r
        /\ \A m \in Logins : m # l => login'[m] = login[m]
    BY <1>3 DEF PasswordTypeOK
  <1>5. PasswordTypeOK'
    BY <1>3, <1>4 DEF PasswordTypeOK, Pruned
  <1>6. (\A m \in Logins : LoginInStep(login[m]))'
    BY <1>0, <1>2, <1>3, <1>4 DEF LoginInStep, HoldsRow
  <1>7. ASSUME NEW k \in Keys PROVE Unreturned(k)' = Unreturned(k) /\ Count(k)' = Count(k)
    <2>1. Unreturned(k)' = Unreturned(k)
      BY <1>0, <1>2, <1>3, <1>4 DEF Unreturned, LoginAt
    <2>2. Running(entries'[k]) <=> Running(entries[k])
      BY PrunedIsSmaller
    <2>3. Running(entries[k])' <=> Running(entries'[k])
      BY DEF Running
    <2>4. Count(k)' = Count(k)
      BY <2>2, <2>3 DEF Count, Pruned
    <2> QED BY <2>1, <2>4
  <1>8. WindowsInStep'
    BY <1>3 DEF WindowsInStep, Pruned
  <1>9. CountsCover'
    BY <1>3, <1>7 DEF CountsCover, Limit
  <1>10. RefusalsEnd'
    BY PrunedIsSmaller DEF RefusalsEnd
  <1> QED BY <1>5, <1>6, <1>8, <1>9, <1>10

\* An admitted login is counted on both axes: as the first of a new window, or
\* as one more of the window that runs.
LEMMA AdmitStep ==
    ASSUME LoginsInv, NEW l \in Logins, NEW e \in Emails, Admit(l, e)
    PROVE  LoginsInv'
  <1> USE DEF LoginsInv
  <1>0. PICK d \in Login : d = login[l] /\ d.pc = "idle" /\ d.email = Realm
    BY DEF PasswordTypeOK, LoginInStep, LoginAt, Admit
  <1>1. /\ e \in Keys /\ Realm \in Keys /\ e # Realm /\ {e, Realm} \in SUBSET Keys
        /\ UNCHANGED <<now, budget, account>> /\ LoginAt(l, "idle") /\ now \in 0..MaxTime
    BY KeysFinite, PasswordNameAssumption DEF Admit, PasswordTypeOK
  <1>2. PICK keys \in SUBSET Keys : keys = {e, Realm}
    BY <1>1
  <1>3. PICK T \in [Keys -> Window \cup {NoWindow}], x \in 0..Forever :
          /\ Reserved(keys).table = T /\ Reserved(keys).expiry = x /\ Pruned(T)
          /\ \A k \in Tracked(T) : x <= T[k].start + Lockout
    BY PlanInStep DEF Pruned
  <1>4. CASE Refuse(l) /\ UNCHANGED limiter
    BY <1>1, <1>4, AdmitRefused DEF limiter, Pruned, PasswordTypeOK, RefusalsEnd
  <1>5. CASE entries' = T /\ nextExpiry' = x /\ Refuse(l)
    BY <1>1, <1>3, <1>5, AdmitRefused
  <1>6. PICK fresh : fresh = {k \in keys : ~Running(entries[k])}
    OBVIOUS
  <1>7. PICK newEra \in [Keys -> Nat] :
          newEra = [k \in Keys |-> era[k] + IF k \in fresh THEN 1 ELSE 0]
    <2>1. \A k \in Keys : era[k] \in Nat /\ (IF k \in fresh THEN 1 ELSE 0) \in Nat
      BY DEF PasswordTypeOK
    <2>2. \A k \in Keys : era[k] + (IF k \in fresh THEN 1 ELSE 0) \in Nat
      BY <2>1
    <2> QED BY <2>2
  <1>8. CASE /\ \A k \in keys : HasRoom(k)
             /\ ~Overfull(T, keys)
             /\ entries' = Committed(T, keys)
             /\ nextExpiry' = EarlierExpiry(x)
             /\ era' = newEra
             /\ opened' = [k \in Keys |-> IF k \in fresh THEN now ELSE opened[k]]
             /\ late' = [k \in Keys |-> IF k \in fresh THEN 0 ELSE late[k]]
             /\ login' = [login EXCEPT ![l] = [@ EXCEPT !.pc = "budget",
                    !.email = e, !.userEra = newEra[e], !.realmEra = newEra[Realm]]]
             /\ UNCHANGED locks
    <2>1. PICK r \in Login :
            r = [d EXCEPT !.pc = "budget", !.email = e, !.userEra = newEra[e],
                          !.realmEra = newEra[Realm]]
      BY <1>1 DEF Login, LoginSteps
    <2>2. r.pc = "budget" /\ r.email = e /\ r.userEra = newEra[e] /\ r.realmEra = newEra[Realm]
      BY <2>1 DEF Login
    <2>3. login' = [login EXCEPT ![l] = r]
      BY <1>0, <1>8, <2>1 DEF PasswordTypeOK
    <2>4. /\ login' \in [Logins -> Login] /\ login'[l] = r
          /\ \A m \in Logins : m # l => login'[m] = login[m]
      BY <2>3 DEF PasswordTypeOK
    <2>5. \A k \in Keys :
            /\ era[k] \in Nat
            /\ k \in fresh => era'[k] = era[k] + 1 /\ opened'[k] = now /\ late'[k] = 0
            /\ k \notin fresh => era'[k] = era[k] /\ opened'[k] = opened[k] /\ late'[k] = late[k]
      BY <1>7, <1>8 DEF PasswordTypeOK
    <2>6. /\ era' \in [Keys -> Nat] /\ opened' \in [Keys -> Nat] /\ late' \in [Keys -> Nat]
      BY <1>1, <1>8, ClockAssumption DEF PasswordTypeOK
    <2>7. \A k \in Keys : Count(k) \in Nat /\ Limit(k) \in Nat /\ Limit(k) > 0
      BY CountsAreNumbers
    <2>8. ASSUME NEW k \in Keys
          PROVE  /\ k \notin keys => entries'[k] = T[k]
                 /\ k \in fresh =>
                       /\ entries'[k] \in Window
                       /\ entries'[k].count = 1 /\ entries'[k].start = now
                 /\ k \in keys \ fresh =>
                       /\ entries'[k] \in Window /\ T[k] = entries[k] /\ entries[k] \in Window
                       /\ entries'[k].count = Count(k) + 1
                       /\ entries'[k].start = entries[k].start
      <3>0. Running(T[k]) <=> Running(entries[k])
        BY <1>3, PrunedIsSmaller
      <3>1. CASE k \notin keys
        BY <1>6, <1>8, <3>1 DEF Committed
      <3>2. CASE k \in fresh
        <4>1. Count(k) = 0 /\ ~Running(T[k]) /\ k \in keys
          BY <1>6, <3>0, <3>2 DEF Count
        <4>2. PICK w \in Window : w = [count |-> 1, start |-> now]
          <5>1. now \in Nat
            BY <1>1, ClockAssumption
          <5> QED BY <5>1 DEF Window
        <4>3. entries'[k] = [count |-> Count(k) + 1, start |-> now]
          BY <1>8, <4>1 DEF Committed
        <4>4. entries'[k] = w
          BY <4>1, <4>2, <4>3
        <4> QED BY <1>6, <3>2, <4>2, <4>4
      <3>3. CASE k \in keys \ fresh
        <4>1. Running(entries[k]) /\ Running(T[k]) /\ T[k] = entries[k] /\ entries[k] # NoWindow
          BY <1>3, <1>6, <3>0, <3>3 DEF Pruned, Running
        <4>2. entries[k] \in Window /\ entries[k].start \in Nat
          BY <4>1, CountsAreNumbers
        <4>3. PICK w \in Window : w = [count |-> Count(k) + 1, start |-> entries[k].start]
          <5>1. Count(k) + 1 \in Nat
            BY <2>7
          <5> QED BY <4>2, <5>1 DEF Window
        <4>4. entries'[k] = [count |-> Count(k) + 1, start |-> T[k].start]
          BY <1>8, <3>3, <4>1 DEF Committed
        <4>5. entries'[k] = w
          BY <4>1, <4>3, <4>4
        <4> QED BY <3>3, <4>1, <4>2, <4>3, <4>5
      <3> QED BY <3>1, <3>2, <3>3
    <2>9. entries' \in [Keys -> Window \cup {NoWindow}]
      <3>1. \A k \in Keys : entries'[k] \in Window \cup {NoWindow}
        BY <1>3, <2>8 DEF Pruned
      <3> QED BY <1>8, <3>1 DEF Committed
    <2>10. /\ nextExpiry' \in 0..Forever /\ nextExpiry' <= x /\ nextExpiry' <= now + Lockout
      <3>1. PICK y \in 0..Forever : y = now + Lockout
        BY <1>1, PasswordNumbers
      <3>2. {x, y} \subseteq Nat /\ {x, y} # {}
        BY PasswordNumbers
      <3>3. Min({x, y}) \in {x, y} /\ Min({x, y}) <= x /\ Min({x, y}) <= y
        BY <3>2, MinIsLeast
      <3> QED BY <1>8, <3>1, <3>3 DEF EarlierExpiry
    <2>11. PasswordTypeOK'
      BY <1>1, <1>8, <2>4, <2>6, <2>9, <2>10 DEF PasswordTypeOK
    <2>12. (\A m \in Logins : LoginInStep(login[m]))'
      <3> SUFFICES ASSUME NEW m \in Logins PROVE LoginInStep(login[m])'
        OBVIOUS
      <3>1. CASE m = l
        <4>1. LoginInStep(r)'
          BY <1>1, <1>8, <2>2, <2>6 DEF LoginInStep, HoldsRow
        <4> QED BY <2>4, <3>1, <4>1 DEF LoginInStep
      <3>2. CASE m # l
        <4>1. /\ login[m].email \in Keys /\ login[m].userEra \in Nat /\ login[m].realmEra \in Nat
              /\ login[m].userEra <= era[login[m].email] /\ login[m].realmEra <= era[Realm]
          BY DEF PasswordTypeOK, Login, LoginInStep
        <4>2. \A k \in Keys : era[k] <= era'[k] /\ era[k] \in Nat /\ era'[k] \in Nat
          BY <2>5, <2>6
        <4>3. login[m].userEra <= era'[login[m].email] /\ login[m].realmEra <= era'[Realm]
          BY <1>1, <4>1, <4>2
        <4> QED BY <1>1, <1>8, <2>4, <3>2, <4>3 DEF LoginInStep
      <3> QED BY <3>1, <3>2
    <2>13. WindowsInStep'
      <3> SUFFICES ASSUME NEW k \in Keys, entries'[k] # NoWindow
                   PROVE  entries'[k].start = opened'[k] /\ era'[k] > 0
        BY DEF WindowsInStep
      <3>1. CASE k \in fresh
        BY <2>5, <2>8, <3>1
      <3>2. CASE k \notin fresh
        <4>1. entries[k] # NoWindow /\ entries'[k].start = entries[k].start
          BY <1>3, <2>8, <3>2, NoWindowAssumption DEF Pruned
        <4> QED BY <2>5, <3>2, <4>1 DEF WindowsInStep
      <3> QED BY <3>1, <3>2
    <2>14. fresh \subseteq keys /\ keys \subseteq Keys
      BY <1>6
    <2>15. ASSUME NEW k \in Keys
           PROVE  /\ k \in fresh => Unreturned(k)' = {l}
                  /\ k \in keys \ fresh => Unreturned(k)' = Unreturned(k) \cup {l}
                  /\ k \notin keys => Unreturned(k)' = Unreturned(k)
                  /\ l \notin Unreturned(k)
      <3>1. l \notin Unreturned(k)
        BY <1>0 DEF Unreturned
      <3>2. l \in Unreturned(k)' <=> k \in keys
        BY <1>1, <1>2, <1>8, <2>2, <2>4 DEF Unreturned, LoginAt
      <3>3. CASE k \in fresh
        <4>0. Unreturned(k)' \subseteq Logins /\ k \in keys
          BY <2>14, <3>3 DEF Unreturned
        <4> SUFFICES ASSUME NEW m \in Logins, m # l PROVE m \notin Unreturned(k)'
          BY <3>1, <3>2, <3>3, <4>0
        <4>1. /\ login[m].userEra \in Nat /\ login[m].realmEra \in Nat
              /\ login[m].userEra <= era[login[m].email] /\ login[m].realmEra <= era[Realm]
          BY DEF PasswordTypeOK, Login, LoginInStep
        <4>2. era'[k] = era[k] + 1 /\ era[k] \in Nat
          BY <2>5, <3>3
        <4>3. k = Realm => login[m].realmEra # era'[k]
          BY <4>1, <4>2
        <4>4. login[m].email = k => login[m].userEra # era'[k]
          BY <4>1, <4>2
        <4> QED BY <2>4, <4>3, <4>4 DEF Unreturned
      <3>4. CASE k \notin fresh
        <4>1. \A m \in Logins \ {l} : m \in Unreturned(k)' <=> m \in Unreturned(k)
          BY <2>4, <2>5, <3>4 DEF Unreturned, LoginAt
        <4>2. Unreturned(k)' \subseteq Logins /\ Unreturned(k) \subseteq Logins
          BY DEF Unreturned
        <4> QED BY <3>1, <3>2, <3>4, <4>1, <4>2
      <3> QED BY <2>14, <3>1, <3>3, <3>4
    <2>16. CountsCover'
      <3> SUFFICES ASSUME NEW k \in Keys
                   PROVE  /\ era'[k] > 0 /\ now < opened'[k] + Lockout
                             => Cardinality(Unreturned(k)') <= Count(k)' + late'[k]
                          /\ Cardinality(Unreturned(k)') <= Limit(k) + late'[k]
        BY <1>1 DEF CountsCover, Limit
      <3>0. /\ Count(k) \in Nat /\ Limit(k) \in Nat /\ Limit(k) > 0 /\ late[k] \in Nat
            /\ era[k] \in Nat /\ opened[k] \in Nat /\ now \in Nat
        BY CountsAreNumbers
      <3>1. CASE k \in fresh
        <4>1. Cardinality(Unreturned(k)') = 1 /\ late'[k] = 0
          BY <2>5, <2>15, <3>1, FS_Singleton
        <4>2. Running(entries[k])' /\ entries'[k].count = 1
          BY <1>1, <2>8, <3>0, <3>1, PasswordNumbers, NoWindowAssumption DEF Running
        <4>3. Count(k)' = 1
          BY <4>2 DEF Count
        <4> QED BY <3>0, <4>1, <4>3
      <3>2. CASE k \in keys \ fresh
        <4>1. Cardinality(Unreturned(k)') = Cardinality(Unreturned(k)) + 1
          BY <2>15, <3>2, UnreturnedFinite, PasswordNameAssumption, FS_Subset, FS_AddElement
        <4>2. Running(entries[k])
          BY <1>6, <3>2
        <4>3. entries[k] # NoWindow /\ now < opened[k] + Lockout /\ era[k] > 0
          BY <4>2 DEF Running, WindowsInStep
        <4>4. Cardinality(Unreturned(k)) <= Count(k) + late[k] /\ Cardinality(Unreturned(k)) \in Nat
          BY <4>3, UnreturnedFinite DEF CountsCover
        <4>5. entries'[k].count = Count(k) + 1 /\ entries'[k].start = entries[k].start
          BY <2>8, <3>2
        <4>6. entries'[k] \in Window
          BY <2>8, <3>2
        <4>7. Running(entries[k])'
          BY <1>1, <4>2, <4>5, <4>6, NoWindowAssumption DEF Running
        <4>8. Count(k)' = Count(k) + 1
          BY <4>5, <4>7 DEF Count
        <4>9. Count(k) < Limit(k) /\ late'[k] = late[k]
          BY <1>8, <2>5, <3>2 DEF HasRoom
        <4> QED BY <3>0, <4>1, <4>4, <4>8, <4>9
      <3>3. CASE k \notin keys
        <4>1. Unreturned(k)' = Unreturned(k) /\ era'[k] = era[k] /\ opened'[k] = opened[k]
              /\ late'[k] = late[k] /\ entries'[k] = T[k]
          BY <2>5, <2>8, <2>14, <2>15, <3>3
        <4>2. Running(entries[k])' <=> Running(entries[k])
          BY <1>1, <1>3, <4>1, PrunedIsSmaller DEF Running
        <4>3. Count(k)' = Count(k)
          BY <1>3, <4>1, <4>2 DEF Count, Pruned
        <4> QED BY <4>1, <4>3 DEF CountsCover
      <3> QED BY <2>14, <3>1, <3>2, <3>3
    <2>17. RefusalsEnd'
      <3>1. \A k \in Keys : /\ k \in keys => entries'[k] # NoWindow
                            /\ k \notin keys => entries'[k] = T[k]
        BY <2>8, NoWindowAssumption
      <3>2. Tracked(entries') = Tracked(T) \cup keys
        BY <1>3, <2>9, <2>14, <3>1 DEF Tracked, Pruned
      <3>3. Cardinality(Tracked(T) \cup keys) <= MaxEntries
        <4>1. IsFiniteSet(Tracked(T) \cup keys)
          BY <1>3, <2>14, PrunedIsSmaller, KeysFinite, FS_Subset
        <4>2. Cardinality(Tracked(T) \cup keys) \in Nat
          BY <4>1, FS_CardinalityType
        <4>3. ~(Cardinality(Tracked(T) \cup keys) > MaxEntries)
          BY <1>8 DEF Overfull
        <4> QED BY <4>2, <4>3, PasswordNumbers
      <3>4. ASSUME NEW k \in Tracked(entries')
            PROVE  nextExpiry' <= entries'[k].start + Lockout
        <4>0. k \in Keys /\ x \in Nat /\ nextExpiry' \in Nat /\ Lockout \in Nat
          BY <2>9, <2>10, PasswordNumbers DEF Tracked
        <4>1. CASE k \in fresh
          <5>1. entries'[k].start = now
            BY <2>8, <4>0, <4>1
          <5> QED BY <2>10, <5>1
        <4>2. CASE k \in keys \ fresh
          <5>1. entries'[k].start = entries[k].start /\ T[k] = entries[k] /\ entries[k] # NoWindow
            BY <2>8, <4>0, <4>2, NoWindowAssumption
          <5>2. k \in Tracked(T) /\ entries[k].start \in Nat
            BY <1>3, <4>0, <5>1, CountsAreNumbers DEF Tracked, Pruned
          <5> QED BY <1>3, <2>10, <4>0, <5>1, <5>2
        <4>3. CASE k \notin keys
          <5>1. entries'[k] = T[k] /\ k \in Tracked(T)
            BY <3>1, <3>2, <4>0, <4>3
          <5>2. T[k] \in Window
            BY <1>3, <4>0, <5>1 DEF Tracked, Pruned
          <5>3. T[k].start \in Nat
            BY <5>2 DEF Window
          <5> QED BY <1>3, <2>10, <4>0, <5>1, <5>3
        <4> QED BY <4>1, <4>2, <4>3
      <3> QED BY <3>2, <3>3, <3>4 DEF RefusalsEnd
    <2> QED BY <2>11, <2>12, <2>13, <2>16, <2>17
  <1> QED BY <1>2, <1>3, <1>4, <1>5, <1>6, <1>7, <1>8 DEF Admit

\* A release takes a count of the window that runs: the login's own, and then
\* the login is no longer counted, or another's, and then the release is late.
LEMMA ReleaseStep ==
    ASSUME LoginsInv, NEW l \in Logins, NEW k \in Keys, NEW n \in Nat, Release(k, n),
           \/ /\ LoginAt(l, "releaseUser") /\ LoginStep(l, "releaseRealm")
              /\ k = login[l].email /\ n = login[l].userEra
           \/ /\ LoginAt(l, "releaseRealm") /\ LoginStep(l, "accepted")
              /\ k = Realm /\ n = login[l].realmEra
    PROVE  LoginsInv'
  <1> USE DEF LoginsInv
  <1>0. PICK d \in Login : /\ d = login[l] /\ d.pc \in {"releaseUser", "releaseRealm"}
                           /\ d.email # Realm /\ LoginInStep(d)
    BY DEF PasswordTypeOK, LoginInStep, LoginAt
  <1>1. PICK step \in {"releaseRealm", "accepted"} :
          /\ login' = [login EXCEPT ![l].pc = step]
          /\ step = "releaseRealm" => d.pc = "releaseUser" /\ k = d.email /\ n = d.userEra
          /\ step = "accepted" => d.pc = "releaseRealm" /\ k = Realm /\ n = d.realmEra
    BY <1>0 DEF LoginStep, LoginAt
  <1>2. PICK r \in Login : r = [d EXCEPT !.pc = step]
    BY DEF Login, LoginSteps
  <1>3. /\ r.pc = step /\ r.email = d.email /\ r.userEra = d.userEra /\ r.realmEra = d.realmEra
    BY <1>2 DEF Login
  <1>4. login' = [login EXCEPT ![l] = r]
    BY <1>0, <1>1, <1>2 DEF PasswordTypeOK
  <1>5. /\ login' \in [Logins -> Login] /\ login'[l] = r
        /\ \A m \in Logins : m # l => login'[m] = login[m]
    BY <1>4 DEF PasswordTypeOK
  <1>6. UNCHANGED <<now, nextExpiry, budget, account, era, opened, locks>>
    BY DEF Release
  <1>7. /\ Count(k) \in Nat /\ late[k] \in Nat /\ now \in Nat /\ Limit(k) \in Nat
        /\ entries[k] # NoWindow =>
                 entries[k] \in Window /\ entries[k].count \in Nat /\ entries[k].start \in Nat
    BY CountsAreNumbers
  <1>8. PICK w \in Window \cup {NoWindow} :
          /\ w = Released(k)
          /\ w # NoWindow => entries[k] # NoWindow /\ w.start = entries[k].start
          /\ ~Running(entries[k]) => w = entries[k]
          /\ Running(entries[k]) /\ w # NoWindow => w.count = Count(k) - 1
          /\ Running(entries[k]) /\ w = NoWindow => Count(k) <= 1
    <2>1. CASE ~Running(entries[k])
      BY <2>1 DEF Released, PasswordTypeOK
    <2>2. CASE Running(entries[k]) /\ entries[k].count <= 1
      BY <2>2 DEF Released, Count
    <2>3. CASE Running(entries[k]) /\ ~(entries[k].count <= 1)
      <3>1. entries[k] \in Window /\ entries[k].count - 1 \in Nat
        BY <1>7, <2>3 DEF Running
      <3>2. PICK w \in Window : w = [entries[k] EXCEPT !.count = entries[k].count - 1]
        BY <3>1 DEF Window
      <3>3. w.count = entries[k].count - 1 /\ w.start = entries[k].start
        BY <3>1, <3>2 DEF Window
      <3>4. w = Released(k) /\ w # NoWindow /\ Count(k) = entries[k].count
        BY <2>3, <3>2, NoWindowAssumption DEF Released, Count
      <3> QED BY <2>3, <3>3, <3>4 DEF Running
    <2> QED BY <2>1, <2>2, <2>3
  <1>9. entries' = [entries EXCEPT ![k] = w]
    BY <1>8 DEF Release
  <1>10. /\ entries' \in [Keys -> Window \cup {NoWindow}] /\ entries'[k] = w
         /\ \A j \in Keys : j # k => entries'[j] = entries[j]
    BY <1>9 DEF PasswordTypeOK
  <1>11. PICK i \in {0, 1} :
           /\ late' = [late EXCEPT ![k] = late[k] + i]
           /\ i = 1 <=> Running(entries[k]) /\ n # era[k]
    <2>1. late' = [late EXCEPT ![k] =
                     late[k] + IF Running(entries[k]) /\ n # era[k] THEN 1 ELSE 0]
      BY DEF Release, PasswordTypeOK
    <2>2. 0 \in {0, 1} /\ 1 \in {0, 1} /\ 0 # 1
      OBVIOUS
    <2>3. CASE Running(entries[k]) /\ n # era[k]
      BY <2>1, <2>2, <2>3
    <2>4. CASE ~(Running(entries[k]) /\ n # era[k])
      BY <2>1, <2>2, <2>4
    <2> QED BY <2>3, <2>4
  <1>12. /\ late' \in [Keys -> Nat] /\ late'[k] = late[k] + i
         /\ \A j \in Keys : j # k => late'[j] = late[j]
    <2>1. late[k] + i \in Nat
      BY <1>7
    <2> QED BY <1>11, <2>1 DEF PasswordTypeOK
  <1>13. PasswordTypeOK'
    BY <1>5, <1>6, <1>10, <1>12 DEF PasswordTypeOK
  <1>14. (\A m \in Logins : LoginInStep(login[m]))'
    <2> SUFFICES ASSUME NEW m \in Logins PROVE LoginInStep(login[m])'
      OBVIOUS
    <2>1. CASE m = l
      <3>1. LoginInStep(r)'
        BY <1>0, <1>3, <1>6 DEF LoginInStep, HoldsRow
      <3> QED BY <1>5, <2>1, <3>1 DEF LoginInStep
    <2>2. CASE m # l
      BY <1>5, <1>6, <2>2 DEF LoginInStep
    <2> QED BY <2>1, <2>2
  <1>15. WindowsInStep'
    BY <1>6, <1>8, <1>10 DEF WindowsInStep
  <1>16. RefusalsEnd'
    <2>1. Tracked(entries') \subseteq Tracked(entries) /\ Tracked(entries) \subseteq Keys
      BY <1>8, <1>10 DEF Tracked, PasswordTypeOK
    <2>2. \A j \in Tracked(entries') : entries'[j].start = entries[j].start
      BY <1>8, <1>10, <2>1 DEF Tracked
    <2>3. IsFiniteSet(Tracked(entries)) /\ IsFiniteSet(Tracked(entries'))
      BY <2>1, KeysFinite, FS_Subset
    <2>4. Cardinality(Tracked(entries')) <= Cardinality(Tracked(entries))
      BY <2>1, <2>3, FS_Subset
    <2>5. Cardinality(Tracked(entries')) \in Nat /\ Cardinality(Tracked(entries)) \in Nat
      BY <2>3, FS_CardinalityType
    <2>6. Cardinality(Tracked(entries')) <= MaxEntries
      BY <2>4, <2>5, PasswordNumbers DEF RefusalsEnd
    <2> QED BY <1>6, <2>1, <2>2, <2>6 DEF RefusalsEnd
  <1>17. ASSUME NEW j \in Keys, j # k PROVE Unreturned(j)' = Unreturned(j)
    <2>1. l \in Unreturned(j)' <=> l \in Unreturned(j)
      BY <1>0, <1>1, <1>3, <1>5, <1>6, <1>17 DEF Unreturned, LoginAt
    <2>2. \A m \in Logins \ {l} : m \in Unreturned(j)' <=> m \in Unreturned(j)
      BY <1>5, <1>6 DEF Unreturned, LoginAt
    <2>3. Unreturned(j)' \subseteq Logins /\ Unreturned(j) \subseteq Logins
      BY DEF Unreturned
    <2> QED BY <2>1, <2>2, <2>3
  <1>18. /\ n = era[k] => l \in Unreturned(k)
         /\ n # era[k] => l \notin Unreturned(k)
         /\ Unreturned(k)' = Unreturned(k) \ {l}
    <2>1. l \notin Unreturned(k)'
      BY <1>0, <1>1, <1>3, <1>5, <1>6 DEF Unreturned, LoginAt
    <2>2. l \in Unreturned(k) <=> n = era[k]
      BY <1>0, <1>1 DEF Unreturned, LoginAt
    <2>3. \A m \in Logins \ {l} : m \in Unreturned(k)' <=> m \in Unreturned(k)
      BY <1>5, <1>6 DEF Unreturned, LoginAt
    <2>4. Unreturned(k)' \subseteq Logins /\ Unreturned(k) \subseteq Logins
      BY DEF Unreturned
    <2> QED BY <2>1, <2>2, <2>3, <2>4
  <1>19. CountsCover'
    <2> SUFFICES ASSUME NEW j \in Keys
                 PROVE  /\ era[j] > 0 /\ now < opened[j] + Lockout
                           => Cardinality(Unreturned(j)') <= Count(j)' + late'[j]
                        /\ Cardinality(Unreturned(j)') <= Limit(j) + late'[j]
      BY <1>6 DEF CountsCover, Limit
    <2>1. CASE j # k
      <3>1. Count(j)' = Count(j)
        BY <1>6, <1>10, <2>1 DEF Count, Running
      <3> QED BY <1>12, <1>17, <2>1, <3>1 DEF CountsCover
    <2>2. CASE j = k
      <3>0. PICK c \in Nat, before \in Nat, after \in Nat :
              /\ c = Count(k) /\ before = Cardinality(Unreturned(k))
              /\ after = Cardinality(Unreturned(k)')
              /\ n = era[k] => after = before - 1
              /\ n # era[k] => after = before
        <4>1. IsFiniteSet(Unreturned(k))
          BY UnreturnedFinite, PasswordNameAssumption, FS_Subset
        <4>2. IsFiniteSet(Unreturned(k) \ {l}) /\ Cardinality(Unreturned(k) \ {l}) =
                IF l \in Unreturned(k) THEN Cardinality(Unreturned(k)) - 1
                ELSE Cardinality(Unreturned(k))
          BY <4>1, FS_RemoveElement
        <4>3. Cardinality(Unreturned(k)) \in Nat /\ Cardinality(Unreturned(k)') \in Nat
          BY <1>18, <4>1, <4>2, FS_CardinalityType
        <4> QED BY <1>7, <1>18, <4>2, <4>3
      <3>1. CASE ~Running(entries[k])
        <4>1. i = 0 /\ w = entries[k]
          BY <1>8, <1>11, <3>1
        <4>2. Count(k)' = c
          BY <1>6, <1>10, <3>0, <3>1, <4>1 DEF Count, Running
        <4>3. late'[k] = late[k] /\ after <= before
          BY <1>7, <1>12, <3>0, <4>1
        <4>4. /\ era[k] > 0 /\ now < opened[k] + Lockout => before <= c + late[k]
              /\ before <= Limit(k) + late[k]
          BY <3>0 DEF CountsCover
        <4> QED BY <1>7, <2>2, <3>0, <4>2, <4>3, <4>4
      <3>2. CASE Running(entries[k])
        <4>1. PICK c2 \in Nat : c2 = Count(k)' /\ c2 + 1 >= c
          <5>1. CASE w = NoWindow
            <6>1. Count(k)' = 0 /\ c <= 1
              BY <1>8, <1>10, <3>0, <3>2, <5>1 DEF Count, Running
            <6> QED BY <6>1
          <5>2. CASE w # NoWindow
            <6>1. w.count = c - 1 /\ w.start = entries[k].start
              BY <1>8, <3>0, <3>2, <5>2
            <6>2. Running(entries[k])'
              BY <1>6, <1>10, <3>2, <5>2, <6>1 DEF Running
            <6>3. Count(k)' = c - 1 /\ w.count \in Nat
              BY <1>10, <5>2, <6>1, <6>2 DEF Count, Window
            <6> QED BY <6>1, <6>3
          <5> QED BY <5>1, <5>2
        <4>2. era[k] > 0 /\ now < opened[k] + Lockout
          BY <3>2 DEF Running, WindowsInStep
        <4>3. before <= c + late[k] /\ before <= Limit(k) + late[k]
          BY <3>0, <4>2 DEF CountsCover
        <4>4. (n = era[k] /\ late'[k] = late[k]) \/ (n # era[k] /\ late'[k] = late[k] + 1)
          BY <1>7, <1>11, <1>12, <3>2
        <4>5. after <= c2 + late'[k] /\ after <= Limit(k) + late'[k]
          BY <1>7, <3>0, <4>1, <4>3, <4>4
        <4> QED BY <2>2, <3>0, <4>1, <4>5
      <3> QED BY <3>1, <3>2
    <2> QED BY <2>1, <2>2
  <1> QED BY <1>13, <1>14, <1>15, <1>16, <1>19

\* Giving an admission back keeps the login invariant.
LEMMA ReleaseSteps ==
    ASSUME LoginsInv, NEW l \in Logins, ReleaseUser(l) \/ ReleaseRealm(l)
    PROVE  LoginsInv'
  <1>1. login[l].email \in Keys /\ login[l].userEra \in Nat /\ login[l].realmEra \in Nat
    BY DEF LoginsInv, PasswordTypeOK, Login
  <1> QED BY <1>1, KeysFinite, ReleaseStep DEF ReleaseUser, ReleaseRealm

\* Time ends windows and lockouts.
LEMMA PasswordTickStep ==
    ASSUME LoginsInv, PasswordTick
    PROVE  LoginsInv'
  <1> USE DEF LoginsInv
  <1>1. /\ now' = now + 1 /\ now \in Nat /\ now' \in 0..MaxTime
        /\ UNCHANGED <<entries, nextExpiry, budget, account, login, era, opened, late, locks>>
    BY ClockAssumption DEF PasswordTick, Tick, PasswordTypeOK, limiter, passwordHistory
  <1>2. PasswordTypeOK'
    BY <1>1 DEF PasswordTypeOK
  <1>3. (\A l \in Logins : LoginInStep(login[l]))'
    <2> SUFFICES ASSUME NEW l \in Logins PROVE LoginInStep(login[l])'
      OBVIOUS
    <2>1. LoginInStep(login[l]) /\ login[l] \in Login
      BY DEF PasswordTypeOK
    <2>2. HoldsRow(login[l]) =>
            /\ login[l].email \in Accounts /\ login[l].row.lockedUntil \in Nat
            /\ account[login[l].email].lockedUntil \in Nat
      BY <2>1 DEF LoginInStep, PasswordTypeOK, Login, Row
    <2> QED BY <1>1, <2>1, <2>2 DEF LoginInStep
  <1>4. WindowsInStep' /\ RefusalsEnd'
    BY <1>1 DEF WindowsInStep, RefusalsEnd
  <1>5. CountsCover'
    <2> SUFFICES ASSUME NEW k \in Keys
                 PROVE  /\ era[k] > 0 /\ now' < opened[k] + Lockout
                           => Cardinality(Unreturned(k)) <= Count(k)' + late[k]
                        /\ Cardinality(Unreturned(k)) <= Limit(k) + late[k]
      <3>1. \A k \in Keys : Unreturned(k)' = Unreturned(k)
        BY <1>1 DEF Unreturned, LoginAt
      <3> QED BY <1>1, <3>1 DEF CountsCover, Limit
    <2>1. Cardinality(Unreturned(k)) <= Limit(k) + late[k]
      BY DEF CountsCover
    <2>2. ASSUME era[k] > 0, now' < opened[k] + Lockout
          PROVE  Cardinality(Unreturned(k)) <= Count(k)' + late[k]
      <3>1. opened[k] + Lockout \in Nat
        BY CountsAreNumbers, PasswordNumbers
      <3>2. now < opened[k] + Lockout
        BY <1>1, <2>2, <3>1
      <3>3. Running(entries[k])' <=> Running(entries[k])
        BY <1>1, <2>2, <3>2 DEF Running, WindowsInStep
      <3>4. Count(k)' = Count(k)
        BY <1>1, <3>3 DEF Count
      <3> QED BY <2>2, <3>2, <3>4 DEF CountsCover
    <2> QED BY <2>1, <2>2
  <1> QED BY <1>2, <1>3, <1>4, <1>5

\* The login invariant holds at the start.
LEMMA PasswordStart == PasswordInit => LoginsInv
  <1> SUFFICES ASSUME PasswordInit PROVE LoginsInv
    OBVIOUS
  <1>1. NoRow \in Row /\ Realm \in Keys /\ now = 0
    BY KeysFinite DEF NoRow, Row, PasswordInit
  <1>2. /\ login \in [Logins -> Login]
        /\ \A l \in Logins : /\ login[l].pc = "idle" /\ login[l].email = Realm
                              /\ login[l].userEra = 0 /\ login[l].realmEra = 0
    BY <1>1 DEF PasswordInit, Login, LoginSteps
  <1>3. account \in [Accounts -> Row]
    <2>1. [failed: 0..(MaxPerAccount - 1), lockedUntil: {0}] \subseteq Row
      BY PasswordNumbers DEF Row
    <2> QED BY <2>1 DEF PasswordInit
  <1>4. /\ entries \in [Keys -> Window \cup {NoWindow}] /\ \A k \in Keys : entries[k] = NoWindow
        /\ nextExpiry \in 0..Forever /\ now \in 0..MaxTime /\ budget \in Window \cup {NoWindow}
        /\ era \in [Keys -> Nat] /\ opened \in [Keys -> Nat] /\ late \in [Keys -> Nat]
        /\ locks \in [Accounts -> Nat] /\ \A k \in Keys : era[k] = 0 /\ late[k] = 0
    BY PasswordNumbers DEF PasswordInit
  <1>5. PasswordTypeOK
    BY <1>2, <1>3, <1>4 DEF PasswordTypeOK
  <1>6. \A l \in Logins : LoginInStep(login[l])
    BY <1>1, <1>2, <1>4 DEF LoginInStep, HoldsRow
  <1>7. WindowsInStep
    BY <1>4 DEF WindowsInStep
  <1>8. CountsCover
    <2>1. \A k \in Keys : Cardinality(Unreturned(k)) = 0
      <3>1. \A k \in Keys : Unreturned(k) = {}
        BY <1>2 DEF Unreturned
      <3> QED BY <3>1, FS_EmptySet
    <2>2. \A k \in Keys : Limit(k) \in Nat
      BY PasswordNumbers DEF Limit
    <2> QED BY <1>4, <2>1, <2>2 DEF CountsCover
  <1>9. RefusalsEnd
    <2>1. Tracked(entries) = {} /\ Cardinality({}) = 0
      BY <1>4, FS_EmptySet DEF Tracked
    <2> QED BY <2>1, PasswordNumbers DEF RefusalsEnd
  <1> QED BY <1>5, <1>6, <1>7, <1>8, <1>9 DEF LoginsInv

\* Every step keeps the login invariant.
LEMMA PasswordPreserved == LoginsInv /\ [PasswordNext]_passwordVars => LoginsInv'
  <1> SUFFICES ASSUME LoginsInv, [PasswordNext]_passwordVars PROVE LoginsInv'
    OBVIOUS
  <1>1. CASE UNCHANGED passwordVars
    <2>1. UNCHANGED <<now, entries, nextExpiry, budget, account, login, era, opened, late, locks>>
      BY <1>1 DEF passwordVars, limiter, passwordHistory
    <2>2. \A k \in Keys : Unreturned(k)' = Unreturned(k) /\ Count(k)' = Count(k)
      BY <2>1 DEF Unreturned, LoginAt, Count, Running
    <2>3. CountsCover'
      BY <2>1, <2>2 DEF LoginsInv, CountsCover, Limit
    <2> QED BY <2>1, <2>3
            DEF LoginsInv, PasswordTypeOK, LoginInStep, HoldsRow, WindowsInStep, RefusalsEnd
  <1>2. CASE PasswordNext
    BY <1>2, AdmitStep, ReadingSteps, VerifyStep, RowWrites, ReleaseSteps, PasswordTickStep
    DEF PasswordNext
  <1> QED BY <1>1, <1>2

\* Logins, windows and rows fit together in every state.
THEOREM PasswordInvariant == PasswordSpec => []LoginsInv
  BY PasswordStart, PasswordPreserved, PTL DEF PasswordSpec

\* The admission limiter (password_limit.rs, ratelimit.rs) holds and lets go,
\* for any number of logins, addresses, limits and capacity.
THEOREM LimiterHolds == PasswordSpec => [](PasswordTypeOK /\ LimiterHoldsAndLetsGo)
  <1>1. LoginsInv => PasswordTypeOK /\ LimiterHoldsAndLetsGo
    BY DEF LoginsInv, LimiterHoldsAndLetsGo
  <1> QED BY <1>1, PasswordInvariant, PTL

\* Only a login that read the row before a lockout was written lifts or moves
\* it while it is in force (authenticate_password, auth.rs).
THEOREM LockoutYields == PasswordSpec => LockoutYieldsOnlyToOverlap
  <1> DEFINE Step ==
        \A a \in Accounts :
            account[a].lockedUntil > now /\ account'[a].lockedUntil # account[a].lockedUntil
            => \E l \in Logins : /\ login'[l].pc # login[l].pc
                                 /\ login[l].email = a
                                 /\ login[l].sawLocks < locks[a]
  <1>1. LoginsInv /\ [PasswordNext]_passwordVars => [Step]_passwordVars
    <2> SUFFICES ASSUME LoginsInv, PasswordNext PROVE Step
      OBVIOUS
    <2> SUFFICES ASSUME NEW a \in Accounts, account[a].lockedUntil > now,
                        account'[a].lockedUntil # account[a].lockedUntil
                 PROVE  \E l \in Logins : /\ login'[l].pc # login[l].pc
                                          /\ login[l].email = a
                                          /\ login[l].sawLocks < locks[a]
      OBVIOUS
    <2>1. PICK l \in Logins : ResetExpired(l) \/ WriteFailure(l) \/ ClearFailures(l)
      BY DEF PasswordNext, Admit, CheckBudget, ReadUserRow, Verify, LoginFails, ReleaseUser,
             ReleaseRealm, Release, PasswordTick
    <2>2. PICK d \in Login : d = login[l]
      BY DEF LoginsInv, PasswordTypeOK
    <2>3. HoldsRow(d)
      BY <2>1, <2>2 DEF ResetExpired, WriteFailure, ClearFailures, LoginAt, HoldsRow
    <2>4. a = d.email
      BY <2>1, <2>2 DEF ResetExpired, WriteFailure, ClearFailures, LoginsInv, PasswordTypeOK
    <2>5. d.sawLocks \in Nat /\ locks[a] \in Nat /\ account[a].lockedUntil \in Nat /\ now \in Nat
      BY ClockAssumption DEF LoginsInv, PasswordTypeOK, Login, Row
    <2>6. d.sawLocks <= locks[a] /\ (d.sawLocks = locks[a] => account[a].lockedUntil <= now)
      BY <2>2, <2>3, <2>4 DEF LoginsInv, LoginInStep
    <2>7. d.sawLocks < locks[a]
      BY <2>5, <2>6
    <2>8. login'[l].pc # d.pc
      <3>1. PICK r \in Login, step \in {"credential", "refused", "releaseUser"} :
              /\ login' = [login EXCEPT ![l] = r] \/ login' = [login EXCEPT ![l].pc = step]
              /\ r.pc = step
              /\ d.pc # step
        <4>1. NoRow \in Row
          BY DEF NoRow, Row
        <4>2. \A step \in {"credential", "refused", "releaseUser"} :
                /\ [d EXCEPT !.pc = step, !.row = NoRow, !.at = 0, !.sawLocks = 0] \in Login
                /\ [d EXCEPT !.pc = step, !.row = NoRow, !.at = 0, !.sawLocks = 0].pc = step
          BY <4>1 DEF Login, LoginSteps
        <4>3. CASE ResetExpired(l)
          BY <2>2, <4>2, <4>3 DEF ResetExpired, LoginAt, LoginStep
        <4>4. CASE WriteFailure(l)
          BY <2>2, <4>2, <4>4 DEF WriteFailure, LoginAt, LoginForgets
        <4>5. CASE ClearFailures(l)
          BY <2>2, <4>2, <4>5 DEF ClearFailures, LoginAt, LoginForgets
        <4> QED BY <2>1, <4>3, <4>4, <4>5
      <3> QED BY <2>2, <3>1 DEF LoginsInv, PasswordTypeOK, Login
    <2> QED BY <2>2, <2>4, <2>7, <2>8
  <1> QED BY <1>1, PasswordInvariant, PTL DEF PasswordSpec, LockoutYieldsOnlyToOverlap

-----------------------------------------------------------------------------
(* PushLogin.  A stored challenge is a valid record, none of its pushes is   *)
(* later than the clock, and its decision is one the device signed for its  *)
(* present nonce.  A start issues once, so a challenge that was cleaned up  *)
(* never comes back.                                                        *)

Deciding == [pc: {"decideRead", "decide"}, target: Starts, row: Binding,
             proof: Proof, verified: BOOLEAN, at: Nat]
Browsing == [pc: {"completeRead", "complete", "resendRead", "resend", "send"},
             target: Starts, row: Binding, browser: Starts, at: Nat]

ChallengeInStep(s, c) ==
    /\ ValidRecord(c)
    /\ \A i \in DOMAIN c.resends : c.resends[i] <= now
    /\ c.decision # "none" => <<s, Nonce(c), c.decision>> \in signed

CallInStep(c) ==
    c.pc \in {"decideRead", "decide"} =>
        /\ \A i \in DOMAIN c.row.resends :
              c.row.resends[i] <= IF c.pc = "decideRead" THEN now ELSE c.at
        /\ c.proof.genuine => <<c.target, c.proof.nonce, c.proof.decision>> \in signed
        /\ c.verified => /\ c.pc = "decide" /\ c.proof.genuine
                         /\ c.proof.nonce = Nonce(c.row)

NotIssued(s) == start[s].pc \in {"idle", "issue"}

SessionsInStep ==
    \A i \in DOMAIN sessions :
        LET x == sessions[i] IN
        /\ x.browser = x.challenge
        /\ <<x.challenge, x.nonce, "approve">> \in signed
        /\ ~NotIssued(x.challenge)
        /\ challenge[x.challenge] # NoChallenge => challenge[x.challenge].consumed
        /\ \A j \in DOMAIN sessions : sessions[j].challenge = x.challenge => i = j

PushInv ==
    /\ PushTypeOK
    /\ \A s \in Starts : /\ challenge[s] # NoChallenge => ChallengeInStep(s, challenge[s])
                         /\ NotIssued(s) => challenge[s] = NoChallenge
    /\ \A r \in PushCalls : CallInStep(call[r])
    /\ SessionsInStep

\* What the assumptions say of the limits of a push.
LEMMA PushNumbers ==
    /\ MaxAttempts \in Nat /\ MaxAttempts > 0 /\ Cooldown \in Nat /\ Cooldown > 0
    /\ Ttl \in Nat /\ Ttl > 0 /\ Devices \subseteq Nat
  BY PushAssumption

\* Which request a call is, by its step.
LEMMA CallKinds ==
    ASSUME NEW c \in PushCall
    PROVE  /\ c.pc \in {"decideRead", "decide"} => c \in Deciding
           /\ c.pc \in {"completeRead", "complete", "resendRead", "resend", "send"} => c \in Browsing
  BY DEF PushCall, Deciding, Browsing

\* A call that has answered is a call.
LEMMA DoneCall == [pc |-> "done"] \in PushCall /\ [pc |-> "done"].pc = "done"
  <1>1. [pc |-> "done"] \in [pc: {"idle", "done"}]
    OBVIOUS
  <1> QED BY <1>1, Zenon DEF PushCall

\* A call moves and no challenge changes.
LEMMA CallStep ==
    ASSUME PushInv, NEW r \in PushCalls, NEW x \in PushCall, CallBecomes(r, x),
           UNCHANGED <<now, authenticator, start, challenge, sends, sessions>>,
           delivered' \subseteq Starts \X Nat, signed \subseteq signed',
           signed' \subseteq Starts \X Nat \X Decisions, CallInStep(x)'
    PROVE  PushInv'
  <1> USE DEF PushInv
  <1>1. /\ call' \in [PushCalls -> PushCall] /\ call'[r] = x
        /\ \A q \in PushCalls : q # r => call'[q] = call[q]
    BY DEF CallBecomes, PushTypeOK
  <1>2. PushTypeOK'
    BY <1>1 DEF PushTypeOK
  <1>3. ASSUME NEW q \in PushCalls PROVE CallInStep(call[q])'
    <2>1. CASE q = r
      BY <1>1, <2>1 DEF CallInStep
    <2>2. CASE q # r
      BY <1>1, <2>2 DEF CallInStep
    <2> QED BY <2>1, <2>2
  <1>4. ASSUME NEW s \in Starts
        PROVE  /\ challenge'[s] # NoChallenge => ChallengeInStep(s, challenge[s])'
               /\ NotIssued(s)' => challenge'[s] = NoChallenge
    BY DEF ChallengeInStep, NotIssued
  <1>5. SessionsInStep'
    BY DEF SessionsInStep, NotIssued
  <1> QED BY <1>2, <1>3, <1>4, <1>5

\* The step of a call that changes a challenge.
LEMMA RecordStep ==
    ASSUME PushInv, NEW r \in PushCalls, NEW x \in PushCall, CallBecomes(r, x),
           NEW s \in Starts, challenge[s] # NoChallenge,
           NEW c \in Challenge, challenge' = [challenge EXCEPT ![s] = c], ChallengeInStep(s, c),
           UNCHANGED <<now, authenticator, start, delivered, signed>>,
           sends' \in Seq(Nat), sessions' \in Seq([challenge: Starts, browser: Starts, nonce: Nat]),
           SessionsInStep', CallInStep(x)
    PROVE  PushInv'
  <1> USE DEF PushInv
  <1>1. /\ call' \in [PushCalls -> PushCall] /\ call'[r] = x
        /\ \A q \in PushCalls : q # r => call'[q] = call[q]
    BY DEF CallBecomes, PushTypeOK
  <1>2. /\ challenge' \in [Starts -> Challenge \cup {NoChallenge}] /\ challenge'[s] = c
        /\ \A t \in Starts : t # s => challenge'[t] = challenge[t]
    BY DEF PushTypeOK
  <1>3. PushTypeOK'
    BY <1>1, <1>2 DEF PushTypeOK
  <1>4. ASSUME NEW q \in PushCalls PROVE CallInStep(call[q])'
    BY <1>1 DEF CallInStep
  <1>5. ASSUME NEW t \in Starts
        PROVE  /\ challenge'[t] # NoChallenge => ChallengeInStep(t, challenge[t])'
               /\ NotIssued(t)' => challenge'[t] = NoChallenge
    BY <1>2 DEF ChallengeInStep, NotIssued
  <1> QED BY <1>3, <1>4, <1>5

\* A session of s needs a consumed challenge: a change of one that is not
\* consumed disturbs no session.
LEMMA SessionsRest ==
    ASSUME PushInv, NEW s \in Starts, NEW c, challenge' = [challenge EXCEPT ![s] = c],
           \/ c = NoChallenge
           \/ challenge[s] # NoChallenge /\ ~challenge[s].consumed
           \/ NotIssued(s),
           UNCHANGED sessions, signed \subseteq signed',
           \A t \in Starts : ~NotIssued(t) => ~NotIssued(t)'
    PROVE  SessionsInStep'
  <1>1. \A t \in Starts : t # s => challenge'[t] = challenge[t]
    BY DEF PushInv, PushTypeOK
  <1>2. challenge'[s] = c
    BY DEF PushInv, PushTypeOK
  <1>3. \A i \in DOMAIN sessions : sessions[i].challenge \in Starts
    <2>1. sessions \in Seq([challenge: Starts, browser: Starts, nonce: Nat])
      BY DEF PushInv, PushTypeOK
    <2>2. ASSUME NEW i \in DOMAIN sessions
          PROVE  sessions[i] \in [challenge: Starts, browser: Starts, nonce: Nat]
      <3>1. i \in 1..Len(sessions)
        BY <2>1, LenProperties
      <3> QED BY <2>1, <3>1, ElementOfSeq
    <2> QED BY <2>2
  <1> SUFFICES ASSUME NEW i \in DOMAIN sessions
               PROVE  /\ sessions[i].browser = sessions[i].challenge
                      /\ <<sessions[i].challenge, sessions[i].nonce, "approve">> \in signed'
                      /\ ~NotIssued(sessions[i].challenge)'
                      /\ challenge'[sessions[i].challenge] # NoChallenge =>
                            challenge'[sessions[i].challenge].consumed
                      /\ \A j \in DOMAIN sessions :
                            sessions[j].challenge = sessions[i].challenge => i = j
    BY DEF SessionsInStep, NotIssued
  <1>4. /\ sessions[i].browser = sessions[i].challenge
        /\ <<sessions[i].challenge, sessions[i].nonce, "approve">> \in signed
        /\ ~NotIssued(sessions[i].challenge)
        /\ challenge[sessions[i].challenge] # NoChallenge =>
              challenge[sessions[i].challenge].consumed
        /\ \A j \in DOMAIN sessions : sessions[j].challenge = sessions[i].challenge => i = j
    BY DEF PushInv, SessionsInStep
  <1>5. ~NotIssued(sessions[i].challenge)'
    <2>1. PICK t \in Starts : t = sessions[i].challenge
      BY <1>3
    <2>2. ~NotIssued(t)'
      BY <1>4, <2>1
    <2> QED BY <2>1, <2>2 DEF NotIssued
  <1>6. challenge'[sessions[i].challenge] # NoChallenge =>
              challenge'[sessions[i].challenge].consumed
    BY <1>1, <1>2, <1>3, <1>4
  <1> QED BY <1>4, <1>5, <1>6

\* The reads of the device's and of the browser's requests.
LEMMA ReadSteps ==
    ASSUME PushInv, NEW r \in PushCalls,
           ReadForDecision(r) \/ ReadForBrowser(r) \/ VerifyProof(r) \/ ReadOwner(r) \/ SendAgain(r)
    PROVE  PushInv'
  <1> USE DEF PushInv
  <1>0. /\ call[r] \in PushCall /\ now \in Nat /\ delivered \subseteq Starts \X Nat
        /\ signed \subseteq Starts \X Nat \X Decisions /\ CallInStep(call[r])
    BY ClockAssumption DEF PushTypeOK
  <1>1. ASSUME NEW s \in Starts, challenge[s] # NoChallenge
        PROVE  /\ BindingOf(challenge[s]) \in Binding
               /\ \A i \in DOMAIN BindingOf(challenge[s]).resends :
                     BindingOf(challenge[s]).resends[i] <= now
    <2>1. challenge[s] \in Challenge /\ ChallengeInStep(s, challenge[s])
      BY <1>1 DEF PushTypeOK
    <2>2. BindingOf(challenge[s]) \in Binding /\ BindingOf(challenge[s]).resends = challenge[s].resends
      BY <2>1 DEF BindingOf, Binding, Challenge
    <2> QED BY <2>1, <2>2 DEF ChallengeInStep
  <1>2. CASE ReadForDecision(r)
    <2>1. PICK s \in Starts : \E proof \in ProofsFor(s) :
            /\ challenge[s] # NoChallenge
            /\ CallBecomes(r, [pc |-> "decideRead", target |-> s, row |-> BindingOf(challenge[s]),
                               proof |-> proof, verified |-> FALSE, at |-> 0])
            /\ signed' = signed \cup
                   (IF proof.genuine THEN {<<s, proof.nonce, proof.decision>>} ELSE {})
      BY <1>2 DEF ReadForDecision
    <2>2. PICK proof \in Proof :
            /\ challenge[s] # NoChallenge
            /\ CallBecomes(r, [pc |-> "decideRead", target |-> s, row |-> BindingOf(challenge[s]),
                               proof |-> proof, verified |-> FALSE, at |-> 0])
            /\ signed' = signed \cup
                   (IF proof.genuine THEN {<<s, proof.nonce, proof.decision>>} ELSE {})
      <3>1. Received(s) \subseteq Nat
        BY <1>0 DEF Received
      <3>2. ProofsFor(s) \subseteq Proof
        <4>1. [genuine: {TRUE}, nonce: Received(s), decision: Decisions] \subseteq Proof
          BY <3>1 DEF Proof
        <4>2. [genuine |-> FALSE, nonce |-> 0, decision |-> "approve"] \in Proof
          BY DEF Proof, Decisions
        <4> QED BY <4>1, <4>2 DEF ProofsFor
      <3> QED BY <2>1, <3>2
    <2>3. /\ signed \subseteq signed' /\ signed' \subseteq Starts \X Nat \X Decisions
          /\ proof.genuine => <<s, proof.nonce, proof.decision>> \in signed'
      BY <1>0, <2>2 DEF Proof
    <2>4. PICK row \in Binding : /\ row = BindingOf(challenge[s])
                                 /\ \A i \in DOMAIN row.resends : row.resends[i] <= now
      BY <1>1, <2>2
    <2>5. PICK x \in Deciding :
            x = [pc |-> "decideRead", target |-> s, row |-> row, proof |-> proof,
                 verified |-> FALSE, at |-> 0]
      BY DEF Deciding
    <2>6. /\ x.pc = "decideRead" /\ x.target = s /\ x.row = row /\ x.proof = proof
          /\ x.verified = FALSE /\ CallBecomes(r, x) /\ x \in PushCall
      BY <2>2, <2>4, <2>5 DEF Deciding, PushCall
    <2>7. CallInStep(x)'
      BY <1>2, <2>3, <2>4, <2>6 DEF CallInStep, ReadForDecision
    <2> QED BY <1>0, <1>2, <2>3, <2>6, <2>7, CallStep DEF ReadForDecision
  <1>3. CASE ReadForBrowser(r)
    <2>1. PICK s \in Starts, b \in Starts, pc \in {"completeRead", "resendRead"} :
            /\ challenge[s] # NoChallenge
            /\ CallBecomes(r, [pc |-> pc, target |-> s, row |-> BindingOf(challenge[s]),
                               browser |-> b, at |-> 0])
      BY <1>3 DEF ReadForBrowser
    <2>2. PICK row \in Binding : row = BindingOf(challenge[s])
      BY <1>1, <2>1
    <2>3. PICK x \in Browsing :
            x = [pc |-> pc, target |-> s, row |-> row, browser |-> b, at |-> 0]
      BY DEF Browsing
    <2>4. x.pc = pc /\ CallBecomes(r, x) /\ x \in PushCall
      BY <2>1, <2>2, <2>3 DEF Browsing, PushCall
    <2>5. CallInStep(x)'
      BY <2>4 DEF CallInStep
    <2> QED BY <1>0, <1>3, <2>4, <2>5, CallStep DEF ReadForBrowser, pushHistory
  <1>4. CASE VerifyProof(r)
    <2>1. PICK c \in Deciding : c = call[r] /\ c.pc = "decideRead"
      BY <1>0, <1>4, CallKinds DEF VerifyProof
    <2>2. PICK v \in BOOLEAN :
            /\ CallBecomes(r, [c EXCEPT !.pc = "decide", !.at = now, !.verified = v])
            /\ v => c.proof.genuine /\ c.proof.nonce = Nonce(c.row)
      BY <1>4, <2>1 DEF VerifyProof
    <2>3. PICK x \in Deciding : x = [c EXCEPT !.pc = "decide", !.at = now, !.verified = v]
      BY <1>0 DEF Deciding
    <2>4. /\ x.pc = "decide" /\ x.target = c.target /\ x.row = c.row /\ x.proof = c.proof
          /\ x.at = now /\ x.verified = v /\ CallBecomes(r, x) /\ x \in PushCall
      BY <2>2, <2>3 DEF Deciding, PushCall
    <2>5. UNCHANGED <<now, authenticator, start, challenge, sends, sessions, signed, delivered>>
      BY <1>4 DEF VerifyProof, pushHistory
    <2>6. CallInStep(x)
      BY <1>0, <2>1, <2>2, <2>4 DEF CallInStep
    <2>7. CallInStep(x)'
      BY <2>4, <2>5, <2>6 DEF CallInStep
    <2> QED BY <1>0, <2>4, <2>5, <2>7, CallStep
  <1>5. CASE ReadOwner(r)
    <2>1. PICK c \in Browsing : c = call[r] /\ c.pc \in {"completeRead", "resendRead"}
      BY <1>0, <1>5, CallKinds DEF ReadOwner
    <2>2. PICK pc \in {"complete", "resend"}, t \in Nat :
            CallBecomes(r, [c EXCEPT !.pc = pc, !.at = t])
      <3>1. [c EXCEPT !.pc = "resend"] = [c EXCEPT !.pc = "resend", !.at = c.at] /\ c.at \in Nat
        BY DEF Browsing
      <3> QED BY <1>0, <1>5, <2>1, <3>1 DEF ReadOwner
    <2>3. PICK x \in Browsing : x = [c EXCEPT !.pc = pc, !.at = t]
      BY DEF Browsing
    <2>4. x.pc = pc /\ CallBecomes(r, x) /\ x \in PushCall
      BY <2>2, <2>3 DEF Browsing, PushCall
    <2>5. CallInStep(x)'
      BY <2>4 DEF CallInStep
    <2> QED BY <1>0, <1>5, <2>4, <2>5, CallStep DEF ReadOwner, pushHistory
  <1>6. CASE SendAgain(r)
    <2>1. PICK c \in Browsing : c = call[r] /\ c.target \in Starts /\ Nonce(c.row) \in Nat
      BY <1>0, <1>6, CallKinds DEF SendAgain, Browsing, Binding, Nonce
    <2>2. delivered' \subseteq Starts \X Nat
      BY <1>0, <1>6, <2>1 DEF SendAgain, Provider
    <2>3. PICK x \in PushCall : x = [pc |-> "done"] /\ x.pc = "done"
      BY DoneCall
    <2>4. CallInStep(x)'
      BY <2>3 DEF CallInStep
    <2> QED BY <1>0, <1>6, <2>2, <2>3, <2>4, CallStep DEF SendAgain, CallEnds, pushHistory
  <1> QED BY <1>2, <1>3, <1>4, <1>5, <1>6

\* Two rows that same_login takes for one were pushed at the same times.
LEMMA SameLoginSameNonce ==
    ASSUME NEW c \in Challenge, NEW row \in Binding, SameLogin(c, row)
    PROVE  c.resends = row.resends /\ Nonce(c) = Nonce(row)
  BY DEF SameLogin, BindingOf, Nonce, Binding

\* A call that ends without a write keeps the push invariant.
LEMMA EndsQuietly ==
    ASSUME PushInv, NEW r \in PushCalls, CallEnds(r),
           UNCHANGED <<now, authenticator, start, challenge, sends, sessions, delivered, signed>>
    PROVE  PushInv'
  <1>1. PICK x \in PushCall : x = [pc |-> "done"] /\ x.pc = "done"
    BY DoneCall
  <1>2. CallInStep(x)'
    BY <1>1 DEF CallInStep
  <1>3. delivered \subseteq Starts \X Nat /\ signed \subseteq Starts \X Nat \X Decisions
    BY DEF PushInv, PushTypeOK
  <1> QED BY <1>1, <1>2, <1>3, CallStep DEF CallEnds

\* What is stored of a decision is what the device signed for the nonce it
\* answers, and the record is valid.
LEMMA DecisionStep ==
    ASSUME PushInv, NEW r \in PushCalls, RecordDecision(r)
    PROVE  PushInv'
  <1> USE DEF PushInv
  <1>0. PICK c \in Deciding : c = call[r] /\ c.pc = "decide" /\ CallInStep(c)
    BY CallKinds DEF PushTypeOK, RecordDecision
  <1>1. /\ UNCHANGED <<now, authenticator, start, delivered, sends, sessions, signed>>
        /\ c.target \in Starts /\ c.row \in Binding /\ c.proof \in Proof /\ c.at \in Nat
        /\ c.verified \in BOOLEAN
    BY DEF RecordDecision, pushHistory, Deciding
  <1>2. CASE CallEnds(r) /\ UNCHANGED challenge
    BY <1>1, <1>2, EndsQuietly
  <1>3. CASE /\ Attemptable(challenge[c.target], c.row, c.at)
             /\ Store(r, c.target,
                      Attempted(challenge[c.target], c.verified, c.proof.decision, c.at),
                      [pc |-> "done"])
    <2>1. PICK row \in Challenge : row = challenge[c.target] /\ challenge[c.target] # NoChallenge
      BY <1>1, <1>3 DEF Attemptable, SameLogin, PushTypeOK
    <2>2. /\ SameLogin(row, c.row) /\ row.created <= c.at /\ c.at < row.expires
          /\ row.decision = "none" /\ ~row.consumed /\ row.attempts < MaxAttempts
          /\ row.attempts \in Nat
      BY <1>3, <2>1 DEF Attemptable, Live, Challenge
    <2>3. row.resends = c.row.resends /\ Nonce(row) = Nonce(c.row)
      BY <1>1, <2>1, <2>2, SameLoginSameNonce
    <2>4. ChallengeInStep(c.target, row)
      BY <1>1, <2>1
    <2>5. PICK n \in Nat : n = row.attempts + 1 /\ n > 0 /\ n <= MaxAttempts
      BY <2>2, PushNumbers
    <2>6. PICK d \in Decisions \cup {"none"}, t \in Nat :
            /\ Attempted(row, c.verified, c.proof.decision, c.at)
                  = [row EXCEPT !.attempts = n, !.decision = d, !.decidedAt = t]
            /\ d # "none" => c.verified /\ d = c.proof.decision /\ t = c.at
      <3>1. CASE c.verified
        BY <1>1, <2>5, <3>1 DEF Attempted, Proof
      <3>2. CASE ~c.verified
        <4>1. [row EXCEPT !.attempts = n] =
                [row EXCEPT !.attempts = n, !.decision = row.decision, !.decidedAt = row.decidedAt]
          BY DEF Challenge
        <4>2. row.decidedAt \in Nat
          BY DEF Challenge
        <4> QED BY <2>2, <2>5, <3>2, <4>1, <4>2 DEF Attempted
      <3> QED BY <3>1, <3>2
    <2>7. PICK new \in Challenge :
            new = [row EXCEPT !.attempts = n, !.decision = d, !.decidedAt = t]
      BY DEF Challenge
    <2>8. /\ new.attempts = n /\ new.decision = d /\ new.decidedAt = t
          /\ new.created = row.created /\ new.expires = row.expires /\ new.issued = row.issued
          /\ new.resends = row.resends /\ new.consumed = row.consumed
      BY <2>7 DEF Challenge
    <2>9. ValidRecord(new)
      <3>1. d # "none" =>
              /\ row.created <= t /\ t < row.expires
              /\ row.resends # <<>> => Last(row.resends) <= t
        <4> SUFFICES ASSUME d # "none"
                     PROVE  /\ row.created <= t /\ t < row.expires
                            /\ row.resends # <<>> => Last(row.resends) <= t
          OBVIOUS
        <4>1. \A i \in DOMAIN row.resends : row.resends[i] <= t
          BY <1>0, <2>3, <2>6 DEF CallInStep
        <4>2. row.resends \in Seq(Nat)
          BY DEF Challenge
        <4>3. row.resends # <<>> => Len(row.resends) \in DOMAIN row.resends
          BY <4>2
        <4> QED BY <2>2, <2>6, <4>1, <4>3 DEF Last
      <3>2. /\ row.created <= row.issued /\ row.issued < row.expires
            /\ \A i \in DOMAIN row.resends :
                  row.issued < row.resends[i] /\ row.resends[i] < row.expires
            /\ \A i, j \in DOMAIN row.resends : i < j => row.resends[i] < row.resends[j]
        BY <2>4 DEF ChallengeInStep, ValidRecord
      <3> QED BY <2>2, <2>5, <2>8, <3>1, <3>2 DEF ValidRecord
    <2>10. ChallengeInStep(c.target, new)
      <3>1. Nonce(new) = Nonce(row)
        BY <2>8 DEF Nonce
      <3>2. d # "none" => <<c.target, Nonce(new), d>> \in signed
        BY <1>0, <2>3, <2>6, <3>1 DEF CallInStep
      <3>3. \A i \in DOMAIN new.resends : new.resends[i] <= now
        BY <2>4, <2>8 DEF ChallengeInStep
      <3> QED BY <2>8, <2>9, <3>2, <3>3 DEF ChallengeInStep
    <2>11. PICK x \in PushCall : x = [pc |-> "done"] /\ x.pc = "done"
      BY DoneCall
    <2>12. CallBecomes(r, x) /\ challenge' = [challenge EXCEPT ![c.target] = new]
      BY <1>3, <2>1, <2>6, <2>7, <2>9, <2>11 DEF Store
    <2>13. SessionsInStep'
      <3>1. \A s \in Starts : ~NotIssued(s) => ~NotIssued(s)'
        BY <1>1 DEF NotIssued
      <3> QED BY <1>1, <2>1, <2>2, <2>12, <3>1, SessionsRest
    <2>14. CallInStep(x)
      BY <2>11 DEF CallInStep
    <2>15. sends' \in Seq(Nat) /\ sessions' \in Seq([challenge: Starts, browser: Starts, nonce: Nat])
      BY <1>1 DEF PushTypeOK
    <2> QED BY <1>1, <2>1, <2>10, <2>11, <2>12, <2>13, <2>14, <2>15, RecordStep
  <1> QED BY <1>0, <1>2, <1>3 DEF RecordDecision

\* The login is consumed as the session begins.
LEMMA RedeemStep ==
    ASSUME PushInv, NEW r \in PushCalls, Redeem(r)
    PROVE  PushInv'
  <1> USE DEF PushInv
  <1>0. PICK c \in Browsing : c = call[r] /\ c.pc = "complete"
    BY CallKinds DEF PushTypeOK, Redeem
  <1>1. /\ UNCHANGED <<now, authenticator, start, delivered, sends, signed>>
        /\ c.target \in Starts /\ c.row \in Binding /\ c.browser \in Starts /\ c.at \in Nat
    BY DEF Redeem, Browsing
  <1>2. CASE CallEnds(r) /\ UNCHANGED <<challenge, sessions>>
    BY <1>1, <1>2, EndsQuietly
  <1>3. CASE /\ Redeemable(challenge[c.target], c.row, c.browser = c.target, c.at)
             /\ Store(r, c.target, [challenge[c.target] EXCEPT !.consumed = TRUE, !.consumedAt = c.at],
                      [pc |-> "done"])
             /\ sessions' = IF challenge' = challenge THEN sessions
                            ELSE Append(sessions, [challenge |-> c.target, browser |-> c.browser,
                                                   nonce |-> Nonce(challenge[c.target])])
    <2>1. PICK row \in Challenge : row = challenge[c.target] /\ challenge[c.target] # NoChallenge
      BY <1>1, <1>3 DEF Redeemable, SameLogin, PushTypeOK
    <2>2. /\ row.decision = "approve" /\ ~row.consumed /\ row.decidedAt <= c.at
          /\ c.at < row.expires /\ c.browser = c.target
      BY <1>3, <2>1 DEF Redeemable, Live
    <2>3. ChallengeInStep(c.target, row)
      BY <1>1, <2>1
    <2>4. PICK new \in Challenge : new = [row EXCEPT !.consumed = TRUE, !.consumedAt = c.at]
      BY <1>1 DEF Challenge
    <2>5. /\ new.attempts = row.attempts /\ new.decision = row.decision
          /\ new.decidedAt = row.decidedAt
          /\ new.created = row.created /\ new.expires = row.expires /\ new.issued = row.issued
          /\ new.resends = row.resends /\ new.consumed = TRUE /\ new.consumedAt = c.at
      BY <2>4 DEF Challenge
    <2>6. ValidRecord(new)
      BY <2>2, <2>3, <2>5 DEF ChallengeInStep, ValidRecord
    <2>7. ChallengeInStep(c.target, new)
      BY <2>3, <2>5, <2>6 DEF ChallengeInStep, Nonce
    <2>8. PICK x \in PushCall : x = [pc |-> "done"] /\ x.pc = "done"
      BY DoneCall
    <2>9. CallBecomes(r, x) /\ challenge' = [challenge EXCEPT ![c.target] = new]
      BY <1>3, <2>1, <2>4, <2>6, <2>8 DEF Store
    <2>10. /\ challenge'[c.target] = new
           /\ \A s \in Starts : s # c.target => challenge'[s] = challenge[s]
      BY <1>1, <2>9 DEF PushTypeOK
    <2>11. PICK y \in [challenge: Starts, browser: Starts, nonce: Nat] :
             y = [challenge |-> c.target, browser |-> c.browser, nonce |-> Nonce(row)]
      <3>1. Nonce(row) \in Nat
        BY DEF Nonce, Challenge
      <3> QED BY <1>1, <3>1
    <2>12. y.challenge = c.target /\ y.browser = c.target /\ y.nonce = Nonce(row)
      BY <2>2, <2>11
    <2>13. sessions' = Append(sessions, y)
      <3>1. challenge' # challenge
        BY <2>1, <2>2, <2>5, <2>10
      <3> QED BY <1>3, <2>1, <2>11, <3>1
    <2>14. sessions \in Seq([challenge: Starts, browser: Starts, nonce: Nat])
      BY DEF PushTypeOK
    <2>15. /\ sessions' \in Seq([challenge: Starts, browser: Starts, nonce: Nat])
           /\ DOMAIN sessions' = DOMAIN sessions \cup {Len(sessions) + 1}
           /\ sessions'[Len(sessions) + 1] = y
           /\ \A i \in DOMAIN sessions : /\ sessions'[i] = sessions[i] /\ i # Len(sessions) + 1
                                         /\ sessions[i].challenge \in Starts
      <3>1. /\ sessions' \in Seq([challenge: Starts, browser: Starts, nonce: Nat])
            /\ Len(sessions') = Len(sessions) + 1
            /\ \A i \in 1..Len(sessions) : sessions'[i] = sessions[i]
            /\ sessions'[Len(sessions) + 1] = y
        BY <2>13, <2>14, AppendProperties
      <3>2. Len(sessions) \in Nat /\ DOMAIN sessions = 1..Len(sessions)
            /\ DOMAIN sessions' = 1..Len(sessions')
        BY <2>14, <3>1, LenProperties
      <3>3. \A i \in 1..Len(sessions) :
              sessions[i] \in [challenge: Starts, browser: Starts, nonce: Nat]
        BY <2>14, ElementOfSeq
      <3>4. 1..(Len(sessions) + 1) = 1..Len(sessions) \cup {Len(sessions) + 1}
            /\ \A i \in 1..Len(sessions) : i # Len(sessions) + 1
        BY <3>2
      <3>5. \A i \in 1..Len(sessions) : sessions[i].challenge \in Starts
        BY <3>3
      <3> QED BY <3>1, <3>2, <3>4, <3>5
    <2>16. ASSUME NEW i \in DOMAIN sessions
           PROVE  /\ sessions[i].browser = sessions[i].challenge
                  /\ <<sessions[i].challenge, sessions[i].nonce, "approve">> \in signed
                  /\ ~NotIssued(sessions[i].challenge)
                  /\ challenge[sessions[i].challenge] # NoChallenge =>
                        challenge[sessions[i].challenge].consumed
                  /\ \A j \in DOMAIN sessions :
                        sessions[j].challenge = sessions[i].challenge => i = j
                  /\ sessions[i].challenge # c.target
      <3>1. /\ sessions[i].browser = sessions[i].challenge
            /\ <<sessions[i].challenge, sessions[i].nonce, "approve">> \in signed
            /\ ~NotIssued(sessions[i].challenge)
            /\ challenge[sessions[i].challenge] # NoChallenge =>
                  challenge[sessions[i].challenge].consumed
            /\ \A j \in DOMAIN sessions : sessions[j].challenge = sessions[i].challenge => i = j
        BY DEF SessionsInStep
      <3> QED BY <2>1, <2>2, <3>1
    <2>17. <<c.target, Nonce(row), "approve">> \in signed /\ ~NotIssued(c.target)
      BY <1>1, <2>1, <2>2, <2>3 DEF ChallengeInStep
    <2>18. SessionsInStep'
      <3> SUFFICES ASSUME NEW i \in DOMAIN sessions'
                   PROVE  /\ sessions'[i].browser = sessions'[i].challenge
                          /\ <<sessions'[i].challenge, sessions'[i].nonce, "approve">> \in signed
                          /\ ~NotIssued(sessions'[i].challenge)
                          /\ challenge'[sessions'[i].challenge] # NoChallenge =>
                                challenge'[sessions'[i].challenge].consumed
                          /\ \A j \in DOMAIN sessions' :
                                sessions'[j].challenge = sessions'[i].challenge => i = j
        BY <1>1 DEF SessionsInStep, NotIssued
      <3>1. CASE i = Len(sessions) + 1
        BY <2>5, <2>10, <2>12, <2>15, <2>16, <2>17, <3>1
      <3>2. CASE i # Len(sessions) + 1
        <4>1. i \in DOMAIN sessions /\ sessions'[i] = sessions[i]
          BY <2>15, <3>2
        <4>2. challenge'[sessions[i].challenge] = challenge[sessions[i].challenge]
          BY <2>10, <2>15, <2>16, <4>1
        <4> QED BY <2>12, <2>15, <2>16, <4>1, <4>2
      <3> QED BY <3>1, <3>2
    <2>19. CallInStep(x)
      BY <2>8 DEF CallInStep
    <2>20. sends' \in Seq(Nat)
      BY <1>1 DEF PushTypeOK
    <2> QED BY <1>1, <2>1, <2>7, <2>8, <2>9, <2>15, <2>18, <2>19, <2>20, RecordStep
  <1> QED BY <1>0, <1>2, <1>3 DEF Redeem

\* The last push of a challenge.
LEMMA LastSend ==
    ASSUME NEW n \in Nat, NEW S \in Seq(Nat)
    PROVE  /\ S = <<>> => Last(<<n>> \o S) = n
           /\ S # <<>> => Last(<<n>> \o S) = S[Len(S)] /\ Len(S) \in DOMAIN S
  <1>1. /\ Len(S) \in Nat /\ DOMAIN S = 1..Len(S) /\ <<n>> \in Seq(Nat) /\ Len(<<n>>) = 1
        /\ S = <<>> <=> Len(S) = 0
    OBVIOUS
  <1>2. /\ Len(<<n>> \o S) = Len(S) + 1
        /\ (<<n>> \o S)[1] = n
        /\ \A i \in 2..(Len(S) + 1) : (<<n>> \o S)[i] = S[i - 1]
    BY <1>1
  <1>3. CASE S = <<>>
    BY <1>1, <1>2, <1>3 DEF Last
  <1>4. CASE S # <<>>
    <2>1. Len(S) + 1 \in 2..(Len(S) + 1) /\ (Len(S) + 1) - 1 = Len(S)
      BY <1>1, <1>4
    <2> QED BY <1>1, <1>2, <1>4, <2>1 DEF Last
  <1> QED BY <1>3, <1>4

\* A resend is later than every push before it.
LEMMA ResendStep ==
    ASSUME PushInv, NEW r \in PushCalls, Resend(r)
    PROVE  PushInv'
  <1> USE DEF PushInv
  <1>0. PICK c \in Browsing : c = call[r] /\ c.pc = "resend"
    BY CallKinds DEF PushTypeOK, Resend
  <1>1. /\ UNCHANGED <<now, authenticator, start, delivered, signed, sessions>>
        /\ c.target \in Starts /\ c.row \in Binding /\ c.browser \in Starts /\ c.at \in Nat
        /\ now \in Nat
    BY ClockAssumption DEF Resend, Browsing, PushTypeOK
  <1>2. CASE CallEnds(r) /\ UNCHANGED <<challenge, sends>>
    BY <1>1, <1>2, EndsQuietly
  <1>3. CASE /\ Resendable(challenge[c.target], c.row, c.browser = c.target)
             /\ Store(r, c.target,
                      [challenge[c.target] EXCEPT !.resends = Append(@, now)],
                      [c EXCEPT !.pc = "send",
                                !.row = BindingOf([challenge[c.target] EXCEPT !.resends = Append(@, now)])])
             /\ sends' = Append(sends, now)
    <2>1. PICK row \in Challenge : row = challenge[c.target] /\ challenge[c.target] # NoChallenge
      BY <1>1, <1>3 DEF Resendable, SameLogin, PushTypeOK
    <2>2. /\ row.created <= now /\ now < row.expires /\ row.decision = "none" /\ ~row.consumed
          /\ row.attempts < MaxAttempts /\ now - Last(<<row.issued>> \o row.resends) >= Cooldown
      BY <1>3, <2>1 DEF Resendable, Live
    <2>3. ChallengeInStep(c.target, row) /\ row.resends \in Seq(Nat) /\ row.issued \in Nat
          /\ row.expires \in Nat
      BY <1>1, <2>1 DEF Challenge
    <2>4. /\ row.issued < row.expires /\ row.created <= row.issued /\ row.attempts <= MaxAttempts
          /\ \A i \in DOMAIN row.resends :
                row.issued < row.resends[i] /\ row.resends[i] < row.expires
          /\ \A i, j \in DOMAIN row.resends : i < j => row.resends[i] < row.resends[j]
      BY <2>3 DEF ChallengeInStep, ValidRecord
    <2>5. /\ Len(row.resends) \in Nat /\ DOMAIN row.resends = 1..Len(row.resends)
          /\ \A i \in DOMAIN row.resends : row.resends[i] \in Nat
      BY <2>3
    <2>6. row.issued < now /\ \A i \in DOMAIN row.resends : row.resends[i] < now
      <3>1. CASE row.resends = <<>>
        <4>1. now - row.issued >= Cooldown
          BY <2>2, <2>3, <3>1, LastSend
        <4>2. DOMAIN row.resends = {}
          BY <3>1
        <4> QED BY <1>1, <2>3, <4>1, <4>2, PushNumbers
      <3>2. CASE row.resends # <<>>
        <4>1. PICK k \in DOMAIN row.resends :
                /\ k = Len(row.resends)
                /\ Last(<<row.issued>> \o row.resends) = row.resends[k]
          BY <2>3, <3>2, LastSend
        <4>2. row.resends[k] < now
          BY <1>1, <2>2, <2>5, <4>1, PushNumbers
        <4>3. ASSUME NEW i \in DOMAIN row.resends PROVE row.resends[i] < now
          <5>1. i = k \/ i < k
            BY <2>5, <4>1
          <5>2. row.resends[i] <= row.resends[k]
            BY <2>4, <2>5, <5>1
          <5> QED BY <1>1, <2>5, <4>2, <5>2
        <4> QED BY <1>1, <2>3, <2>4, <2>5, <4>2, <4>3
      <3> QED BY <3>1, <3>2
    <2>7. PICK S \in Seq(Nat) :
            /\ S = Append(row.resends, now)
            /\ DOMAIN S = DOMAIN row.resends \cup {Len(row.resends) + 1}
            /\ S[Len(row.resends) + 1] = now
            /\ \A i \in DOMAIN row.resends : S[i] = row.resends[i] /\ i < Len(row.resends) + 1
      <3>1. /\ Append(row.resends, now) \in Seq(Nat)
            /\ Len(Append(row.resends, now)) = Len(row.resends) + 1
            /\ \A i \in 1..Len(row.resends) : Append(row.resends, now)[i] = row.resends[i]
            /\ Append(row.resends, now)[Len(row.resends) + 1] = now
        BY <1>1, <2>3, AppendProperties
      <3>2. DOMAIN Append(row.resends, now) = 1..(Len(row.resends) + 1)
        BY <3>1, LenProperties
      <3>3. 1..(Len(row.resends) + 1) = 1..Len(row.resends) \cup {Len(row.resends) + 1}
            /\ \A i \in 1..Len(row.resends) : i < Len(row.resends) + 1
        BY <2>5
      <3> QED BY <2>5, <3>1, <3>2, <3>3
    <2>8. PICK new \in Challenge :
            /\ new = [row EXCEPT !.resends = S]
            /\ new = [row EXCEPT !.resends = Append(@, now)]
      BY <2>7 DEF Challenge
    <2>9. /\ new.attempts = row.attempts /\ new.decision = "none" /\ ~new.consumed
          /\ new.created = row.created /\ new.expires = row.expires /\ new.issued = row.issued
          /\ new.resends = S
      BY <2>2, <2>8 DEF Challenge
    <2>10. ValidRecord(new)
      <3>1. \A i \in DOMAIN S : row.issued < S[i] /\ S[i] < row.expires
        BY <2>2, <2>4, <2>6, <2>7
      <3>2. \A i, j \in DOMAIN S : i < j => S[i] < S[j]
        <4> SUFFICES ASSUME NEW i \in DOMAIN S, NEW j \in DOMAIN S, i < j
                     PROVE  S[i] < S[j]
          OBVIOUS
        <4>1. i \in DOMAIN row.resends
          BY <2>5, <2>7
        <4>2. CASE j \in DOMAIN row.resends
          BY <2>4, <2>7, <4>1, <4>2
        <4>3. CASE j = Len(row.resends) + 1
          BY <2>6, <2>7, <4>1, <4>3
        <4> QED BY <2>7, <4>2, <4>3
      <3> QED BY <2>4, <2>9, <3>1, <3>2 DEF ValidRecord
    <2>11. ChallengeInStep(c.target, new)
      <3>1. \A i \in DOMAIN S : S[i] <= now
        BY <1>1, <2>5, <2>6, <2>7
      <3> QED BY <2>9, <2>10, <3>1 DEF ChallengeInStep
    <2>12. PICK x \in PushCall :
             x = [c EXCEPT !.pc = "send", !.row = BindingOf(new)] /\ x.pc = "send"
      <3>1. BindingOf(new) \in Binding
        BY DEF BindingOf, Binding, Challenge
      <3>2. /\ [c EXCEPT !.pc = "send", !.row = BindingOf(new)] \in Browsing
            /\ [c EXCEPT !.pc = "send", !.row = BindingOf(new)].pc = "send"
        BY <3>1 DEF Browsing
      <3>3. Browsing \subseteq PushCall
        BY DEF Browsing, PushCall
      <3> QED BY <3>2, <3>3
    <2>13. CallBecomes(r, x) /\ challenge' = [challenge EXCEPT ![c.target] = new]
      BY <1>3, <2>1, <2>8, <2>10, <2>12 DEF Store
    <2>14. SessionsInStep'
      <3>1. \A s \in Starts : ~NotIssued(s) => ~NotIssued(s)'
        BY <1>1 DEF NotIssued
      <3> QED BY <1>1, <2>1, <2>2, <2>13, <3>1, SessionsRest
    <2>15. CallInStep(x)
      BY <2>12 DEF CallInStep
    <2>16. sends' \in Seq(Nat) /\ sessions' \in Seq([challenge: Starts, browser: Starts, nonce: Nat])
      BY <1>1, <1>3, AppendProperties DEF PushTypeOK
    <2> QED BY <1>1, <2>1, <2>11, <2>12, <2>13, <2>14, <2>15, <2>16, RecordStep
  <1> QED BY <1>0, <1>2, <1>3 DEF Resend

\* A start issues its challenge once, and moves on.
LEMMA StartSteps ==
    ASSUME PushInv, NEW s \in Starts, ListAuthenticators(s) \/ IssuePush(s) \/ SendPush(s)
    PROVE  PushInv'
  <1> USE DEF PushInv
  <1>0. /\ now \in Nat /\ start[s] \in Start /\ UNCHANGED <<now, authenticator, call, signed, sessions>>
        /\ start[s].pc \in {"idle", "issue", "send"}
    BY ClockAssumption DEF PushTypeOK, ListAuthenticators, IssuePush, SendPush, pushHistory
  <1>1. ASSUME NEW x \in Start, StartBecomes(s, x), ~NotIssued(s) => x.pc \notin {"idle", "issue"}
        PROVE  /\ start' \in [Starts -> Start] /\ start'[s] = x
               /\ \A t \in Starts : t # s => start'[t] = start[t]
               /\ \A t \in Starts : ~NotIssued(t) => ~NotIssued(t)'
    BY <1>1 DEF StartBecomes, PushTypeOK, NotIssued
  <1>2. /\ [pc |-> "failed"] \in Start /\ [pc |-> "failed"].pc = "failed"
        /\ [pc |-> "started"] \in Start /\ [pc |-> "started"].pc = "started"
    <2>1. [pc |-> "failed"] \in [pc: {"idle", "started", "failed"}]
          /\ [pc |-> "started"] \in [pc: {"idle", "started", "failed"}]
      OBVIOUS
    <2> QED BY <2>1 DEF Start
  \* Nothing but the start and the deliveries changes.
  <1>3. ASSUME NEW x \in Start, StartBecomes(s, x), ~NotIssued(s) => x.pc \notin {"idle", "issue"},
               x.pc \in {"idle", "issue"} => NotIssued(s),
               UNCHANGED <<challenge, sends>>, delivered' \subseteq Starts \X Nat
        PROVE  PushInv'
    <2>1. /\ start' \in [Starts -> Start] /\ start'[s] = x
          /\ \A t \in Starts : t # s => start'[t] = start[t]
          /\ \A t \in Starts : ~NotIssued(t) => ~NotIssued(t)'
      BY <1>1, <1>3
    <2>2. PushTypeOK'
      BY <1>0, <1>3, <2>1 DEF PushTypeOK
    <2>3. \A r \in PushCalls : CallInStep(call[r])'
      BY <1>0 DEF CallInStep
    <2>4. ASSUME NEW t \in Starts
          PROVE  /\ challenge'[t] # NoChallenge => ChallengeInStep(t, challenge[t])'
                 /\ NotIssued(t)' => challenge'[t] = NoChallenge
      <3>1. NotIssued(t)' => NotIssued(t)
        BY <1>3, <2>1 DEF NotIssued
      <3> QED BY <1>0, <1>3, <3>1 DEF ChallengeInStep
    <2>5. SessionsInStep'
      <3>1. challenge' = [challenge EXCEPT ![s] = challenge[s]]
        BY <1>3 DEF PushTypeOK
      <3>2. ASSUME NEW i \in DOMAIN sessions PROVE ~NotIssued(sessions[i].challenge)'
        <4>1. sessions[i] \in [challenge: Starts, browser: Starts, nonce: Nat]
          <5>1. sessions \in Seq([challenge: Starts, browser: Starts, nonce: Nat])
            BY DEF PushTypeOK
          <5>2. i \in 1..Len(sessions)
            BY <5>1, LenProperties
          <5> QED BY <5>1, <5>2, ElementOfSeq
        <4>2. PICK t \in Starts : t = sessions[i].challenge
          BY <4>1
        <4>3. ~NotIssued(t)'
          BY <2>1, <4>2 DEF SessionsInStep
        <4> QED BY <1>0, <4>2, <4>3 DEF NotIssued
      <3> QED BY <1>0, <1>3, <3>2 DEF SessionsInStep, NotIssued
    <2> QED BY <2>2, <2>3, <2>4, <2>5
  <1>4. CASE ListAuthenticators(s)
    <2>1. NotIssued(s) /\ UNCHANGED <<challenge, sends>> /\ delivered' \subseteq Starts \X Nat
      BY <1>4 DEF ListAuthenticators, NotIssued, pushHistory, PushTypeOK
    <2>2. PICK usable \in SUBSET Devices :
            /\ usable = {d \in Devices : authenticator[d].status = "enrolled"}
            /\ StartBecomes(s, IF SlotFree /\ usable # {}
                               THEN [pc |-> "issue", device |-> Min(usable), created |-> now]
                               ELSE [pc |-> "failed"])
      BY <1>4 DEF ListAuthenticators
    <2>3. CASE StartBecomes(s, [pc |-> "failed"])
      <3>1. PICK x \in Start : x = [pc |-> "failed"] /\ x.pc = "failed"
        BY <1>2
      <3> QED BY <1>3, <2>1, <2>3, <3>1
    <2>4. CASE usable # {} /\ StartBecomes(s, [pc |-> "issue", device |-> Min(usable), created |-> now])
      <3>1. Min(usable) \in Devices
        BY <2>4, MinIsLeast, PushNumbers
      <3>2. PICK x \in Start :
              x = [pc |-> "issue", device |-> Min(usable), created |-> now] /\ x.pc = "issue"
        <4>1. [pc |-> "issue", device |-> Min(usable), created |-> now]
                \in [pc: {"issue", "send"}, device: Devices, created: Nat]
          BY <1>0, <3>1
        <4> QED BY <4>1 DEF Start
      <3> QED BY <1>3, <2>1, <2>4, <3>2
    <2> QED BY <2>2, <2>3, <2>4
  <1>5. CASE SendPush(s)
    <2>1. ~NotIssued(s) /\ UNCHANGED <<challenge, sends>>
      BY <1>5 DEF SendPush, NotIssued, pushHistory
    <2>2. PICK accepted \in BOOLEAN :
            /\ Provider(s, 0, accepted)
            /\ StartBecomes(s, [pc |-> IF accepted THEN "started" ELSE "failed"])
      BY <1>5 DEF SendPush
    <2>3. delivered' \subseteq Starts \X Nat
      BY <2>2 DEF Provider, PushTypeOK
    <2>4. PICK x \in Start :
            /\ x = [pc |-> IF accepted THEN "started" ELSE "failed"]
            /\ x.pc \notin {"idle", "issue"}
      <3>1. CASE accepted
        BY <1>2, <3>1
      <3>2. CASE ~accepted
        BY <1>2, <3>2
      <3> QED BY <3>1, <3>2
    <2> QED BY <1>3, <2>1, <2>2, <2>3, <2>4
  <1>6. CASE IssuePush(s)
    <2>1. /\ NotIssued(s) /\ challenge[s] = NoChallenge /\ delivered' = delivered
          /\ start[s].pc = "issue"
      BY <1>6 DEF IssuePush, NotIssued
    <2>2. start[s] \in [pc: {"issue", "send"}, device: Devices, created: Nat]
      BY <1>0, <2>1 DEF Start
    <2>3. CASE StartBecomes(s, [pc |-> "failed"]) /\ UNCHANGED <<challenge, sends>>
      <3>1. PICK x \in Start : x = [pc |-> "failed"] /\ x.pc = "failed"
        BY <1>2
      <3>2. delivered' \subseteq Starts \X Nat
        BY <2>1 DEF PushTypeOK
      <3> QED BY <1>3, <2>1, <2>3, <3>1, <3>2
    <2>4. PICK c \in Challenge :
            /\ c = [device |-> start[s].device, created |-> start[s].created,
                    expires |-> start[s].created + Ttl, issued |-> now,
                    resends |-> <<>>, attempts |-> 0, decision |-> "none",
                    decidedAt |-> 0, consumed |-> FALSE, consumedAt |-> 0]
            /\ c.created = start[s].created /\ c.expires = start[s].created + Ttl
            /\ c.issued = now /\ c.resends = <<>> /\ c.attempts = 0 /\ c.decision = "none"
            /\ ~c.consumed
      <3>1. /\ start[s].device \in Devices /\ start[s].created \in Nat
            /\ start[s].created + Ttl \in Nat
        BY <2>2, PushNumbers
      <3>2. <<>> \in Seq(Nat) /\ 0 \in Nat
        OBVIOUS
      <3>3. PICK dev \in Devices, from \in Nat, to \in Nat, none \in Seq(Nat) :
              /\ dev = start[s].device /\ from = start[s].created
              /\ to = start[s].created + Ttl /\ none = <<>>
        BY <3>1, <3>2
      <3>4. "none" \in Decisions \cup {"none"} /\ FALSE \in BOOLEAN
        OBVIOUS
      <3>5. [device |-> dev, created |-> from, expires |-> to, issued |-> now,
             resends |-> none, attempts |-> 0, decision |-> "none",
             decidedAt |-> 0, consumed |-> FALSE, consumedAt |-> 0] \in Challenge
        BY <1>0, <3>2, <3>4 DEF Challenge
      <3> QED BY <3>3, <3>5
    <2>5. CASE /\ Live(c, now)
               /\ StartBecomes(s, [start[s] EXCEPT !.pc = "send"])
               /\ challenge' = [challenge EXCEPT ![s] = c]
               /\ sends' = Append(sends, now)
      <3>1. PICK x \in Start : x = [start[s] EXCEPT !.pc = "send"] /\ x.pc = "send"
        <4>1. /\ [start[s] EXCEPT !.pc = "send"]
                     \in [pc: {"issue", "send"}, device: Devices, created: Nat]
              /\ [start[s] EXCEPT !.pc = "send"].pc = "send"
          BY <2>2
        <4>2. [pc: {"issue", "send"}, device: Devices, created: Nat] \subseteq Start
          BY DEF Start
        <4> QED BY <4>1, <4>2
      <3>2. /\ start' \in [Starts -> Start] /\ start'[s] = x
            /\ \A t \in Starts : t # s => start'[t] = start[t]
            /\ \A t \in Starts : ~NotIssued(t) => ~NotIssued(t)'
        BY <1>1, <2>5, <3>1
      <3>3. /\ challenge' \in [Starts -> Challenge \cup {NoChallenge}] /\ challenge'[s] = c
            /\ \A t \in Starts : t # s => challenge'[t] = challenge[t]
        BY <2>5 DEF PushTypeOK
      <3>4. sends' \in Seq(Nat)
        BY <1>0, <2>5, AppendProperties DEF PushTypeOK
      <3>5. PushTypeOK'
        BY <1>0, <2>1, <3>2, <3>3, <3>4 DEF PushTypeOK
      <3>6. ChallengeInStep(s, c)'
        <4>1. DOMAIN c.resends = {}
          BY <2>4
        <4> QED BY <1>0, <2>4, <2>5, <4>1, PushNumbers DEF ChallengeInStep, ValidRecord, Live
      <3>7. \A r \in PushCalls : CallInStep(call[r])'
        BY <1>0 DEF CallInStep
      <3>8. ASSUME NEW t \in Starts
            PROVE  /\ challenge'[t] # NoChallenge => ChallengeInStep(t, challenge[t])'
                   /\ NotIssued(t)' => challenge'[t] = NoChallenge
        BY <1>0, <3>1, <3>2, <3>3, <3>6 DEF ChallengeInStep, NotIssued
      <3>9. SessionsInStep'
        BY <1>0, <2>1, <2>5, <3>2, SessionsRest
      <3> QED BY <3>5, <3>7, <3>8, <3>9
    <2> QED BY <1>6, <2>3, <2>4, <2>5 DEF IssuePush
  <1> QED BY <1>4, <1>5, <1>6

\* Devices and the clock.
LEMMA DeviceSteps ==
    ASSUME PushInv, PushTick \/ \E d \in Devices : EnrolDevice(d) \/ RevokeDevice(d)
    PROVE  PushInv'
  <1> USE DEF PushInv
  <1>1. /\ UNCHANGED <<start, challenge, call, delivered, signed, sends, sessions>>
        /\ now \in 0..MaxTime /\ now' \in 0..MaxTime /\ now <= now'
    BY ClockAssumption DEF PushTick, Tick, EnrolDevice, RevokeDevice, pushHistory, PushTypeOK
  <1>2. authenticator' \in [Devices -> Authenticator]
    <2>1. ASSUME NEW d \in Devices
          PROVE  /\ [status |-> "enrolled", created |-> now] \in Authenticator
                 /\ [authenticator[d] EXCEPT !.status = "revoked"] \in Authenticator
      <3>1. authenticator[d] \in Authenticator /\ now \in Nat
        BY <1>1, ClockAssumption DEF PushTypeOK
      <3> QED BY <3>1 DEF Authenticator
    <2>2. CASE PushTick
      BY <2>2 DEF PushTick, PushTypeOK
    <2>3. ASSUME NEW d \in Devices, EnrolDevice(d) \/ RevokeDevice(d)
          PROVE  authenticator' \in [Devices -> Authenticator]
      BY <2>1, <2>3 DEF EnrolDevice, RevokeDevice, PushTypeOK
    <2> QED BY <2>2, <2>3
  <1>3. PushTypeOK'
    BY <1>1, <1>2 DEF PushTypeOK
  <1>4. ASSUME NEW s \in Starts
        PROVE  /\ challenge'[s] # NoChallenge => ChallengeInStep(s, challenge[s])'
               /\ NotIssued(s)' => challenge'[s] = NoChallenge
    <2>1. CASE challenge[s] = NoChallenge
      BY <1>1, <2>1
    <2>2. CASE challenge[s] # NoChallenge
      <3>1. ChallengeInStep(s, challenge[s]) /\ challenge[s] \in Challenge
        BY <2>2 DEF PushTypeOK
      <3>2. \A i \in DOMAIN challenge[s].resends : challenge[s].resends[i] \in Nat
        BY <3>1 DEF Challenge
      <3>3. \A i \in DOMAIN challenge[s].resends : challenge[s].resends[i] <= now'
        BY <1>1, <3>1, <3>2 DEF ChallengeInStep
      <3> QED BY <1>1, <3>1, <3>3 DEF ChallengeInStep, NotIssued
    <2> QED BY <2>1, <2>2
  <1>5. ASSUME NEW r \in PushCalls PROVE CallInStep(call[r])'
    <2> SUFFICES ASSUME call[r].pc \in {"decideRead", "decide"}
                 PROVE  CallInStep(call[r])'
      BY <1>1 DEF CallInStep
    <2>1. call[r] \in Deciding /\ CallInStep(call[r])
      BY CallKinds DEF PushTypeOK
    <2>2. \A i \in DOMAIN call[r].row.resends : call[r].row.resends[i] \in Nat
      BY <2>1 DEF Deciding, Binding
    <2> QED BY <1>1, <2>1, <2>2 DEF CallInStep
  <1>6. SessionsInStep'
    BY <1>1 DEF SessionsInStep, NotIssued
  <1> QED BY <1>3, <1>4, <1>5, <1>6

\* A challenge that is cleaned up is gone for good.
LEMMA CleanUpStep ==
    ASSUME PushInv, CleanUp
    PROVE  PushInv'
  <1> USE DEF PushInv
  <1>1. PICK s \in Starts : challenge' = [challenge EXCEPT ![s] = NoChallenge]
    BY DEF CleanUp
  <1>2. UNCHANGED <<now, authenticator, start, call, delivered, signed, sends, sessions>>
    BY DEF CleanUp, pushHistory
  <1>3. /\ challenge' \in [Starts -> Challenge \cup {NoChallenge}] /\ challenge'[s] = NoChallenge
        /\ \A t \in Starts : t # s => challenge'[t] = challenge[t]
    BY <1>1 DEF PushTypeOK
  <1>4. PushTypeOK'
    BY <1>2, <1>3 DEF PushTypeOK
  <1>5. ASSUME NEW t \in Starts
        PROVE  /\ challenge'[t] # NoChallenge => ChallengeInStep(t, challenge[t])'
               /\ NotIssued(t)' => challenge'[t] = NoChallenge
    BY <1>2, <1>3 DEF ChallengeInStep, NotIssued
  <1>6. \A r \in PushCalls : CallInStep(call[r])'
    BY <1>2 DEF CallInStep
  <1>7. SessionsInStep'
    <2>1. \A t \in Starts : ~NotIssued(t) => ~NotIssued(t)'
      BY <1>2 DEF NotIssued
    <2> QED BY <1>1, <1>2, <2>1, SessionsRest
  <1> QED BY <1>4, <1>5, <1>6, <1>7

\* The push invariant holds at the start.
LEMMA PushStart == PushInit => PushInv
  <1> SUFFICES ASSUME PushInit PROVE PushInv
    OBVIOUS
  <1>1. authenticator \in [Devices -> Authenticator]
    BY DEF PushInit, Authenticator
  <1>2. [pc |-> "idle"] \in Start /\ [pc |-> "idle"] \in PushCall /\ [pc |-> "idle"].pc = "idle"
    <2>1. [pc |-> "idle"] \in [pc: {"idle", "started", "failed"}]
          /\ [pc |-> "idle"] \in [pc: {"idle", "done"}]
      OBVIOUS
    <2> QED BY <2>1 DEF Start, PushCall
  <1>3. PushTypeOK
    BY <1>1, <1>2, ClockAssumption DEF PushInit, PushTypeOK
  <1>4. \A r \in PushCalls : CallInStep(call[r])
    BY DEF PushInit, CallInStep
  <1>5. SessionsInStep
    BY DEF PushInit, SessionsInStep
  <1> QED BY <1>3, <1>4, <1>5 DEF PushInv, PushInit

\* Every step keeps the push invariant.
LEMMA PushPreserved == PushInv /\ [PushNext]_pushVars => PushInv'
  <1> SUFFICES ASSUME PushInv, [PushNext]_pushVars PROVE PushInv'
    OBVIOUS
  <1>1. CASE PushNext
    BY <1>1, StartSteps, ReadSteps, DecisionStep, RedeemStep, ResendStep, DeviceSteps, CleanUpStep
       DEF PushNext
  <1>2. CASE UNCHANGED pushVars
    BY <1>2 DEF pushVars, pushHistory, PushInv, PushTypeOK, ChallengeInStep, CallInStep,
                NotIssued, SessionsInStep
  <1> QED BY <1>1, <1>2

\* The inductive invariant of push approvals.
THEOREM PushInvariant == PushSpec => []PushInv
  BY PushStart, PushPreserved, PTL DEF PushSpec

\* No operation that its guard accepts makes an invalid record, a decision on
\* record was signed for the last push of its login, and a session belongs to
\* the browser of the login, follows an approval and is its only one.
THEOREM PushApproved == PushSpec => [](PushTypeOK /\ PushSessionIsApproved)
  <1>1. PushInv => PushTypeOK /\ PushSessionIsApproved
    BY DEF PushInv, PushSessionIsApproved, ChallengeInStep, SessionsInStep
  <1> QED BY <1>1, PushInvariant, PTL

-----------------------------------------------------------------------------
(* The quota.  SendsWithinQuota speaks of the history of all sends, the code *)
(* counts what the rows still hold.  Number the sends of each challenge: the *)
(* history then has every send once (f), a send whose row was cleaned up is  *)
(* out of every window that is still to come, and times only rise.           *)

SendKept(x, t) ==
    /\ ~NotIssued(x[1])
    /\ \/ /\ challenge[x[1]] # NoChallenge
          /\ x[2] \in DOMAIN SendsOf(challenge[x[1]])
          /\ SendsOf(challenge[x[1]])[x[2]] = t
       \/ challenge[x[1]] = NoChallenge /\ t < QuotaStart

SendsNumbered(f) ==
    /\ f \in [DOMAIN sends -> Starts \X Nat]
    /\ \A i, j \in DOMAIN sends : f[i] = f[j] => i = j
    /\ \A i \in DOMAIN sends : SendKept(f[i], sends[i])

SendsInOrder ==
    \A i \in DOMAIN sends : /\ sends[i] <= now
                            /\ \A j \in DOMAIN sends : i <= j => sends[i] <= sends[j]

QuotaInv == SendsInOrder /\ SendsWithinQuota /\ \E f : SendsNumbered(f)

\* The sends of a challenge are its issue and then its resends.
LEMMA SendsOfChallenge ==
    ASSUME NEW c \in Challenge
    PROVE  /\ SendsOf(c) \in Seq(Nat) /\ Len(c.resends) \in Nat
           /\ DOMAIN SendsOf(c) = 1..(Len(c.resends) + 1)
           /\ SendsOf(c)[1] = c.issued
           /\ \A i \in 2..(Len(c.resends) + 1) : SendsOf(c)[i] = c.resends[i - 1]
  <1>1. PICK n \in Nat : n = c.issued
    BY DEF Challenge
  <1>2. PICK S \in Seq(Nat) : S = c.resends
    BY DEF Challenge
  <1>3. Len(S) \in Nat /\ <<n>> \in Seq(Nat) /\ Len(<<n>>) = 1
    OBVIOUS
  <1>4. /\ <<n>> \o S \in Seq(Nat) /\ Len(<<n>> \o S) = Len(S) + 1
        /\ (<<n>> \o S)[1] = n
        /\ \A i \in 2..(Len(S) + 1) : (<<n>> \o S)[i] = S[i - 1]
    BY <1>3
  <1>5. DOMAIN (<<n>> \o S) = 1..(Len(S) + 1)
    BY <1>4
  <1> QED BY <1>1, <1>2, <1>3, <1>4, <1>5 DEF SendsOf

\* The window's start, and that it only moves forward.
LEMMA WindowMoves ==
    ASSUME now \in Nat, now' \in Nat, now' >= now
    PROVE  /\ QuotaStart \in Nat /\ QuotaStart' \in Nat /\ QuotaStart <= QuotaStart'
           /\ \A t \in Nat : t < QuotaStart => now - t >= PushWindow
  <1>1. PushWindow \in Nat /\ PushWindow > 0
    BY PushAssumption
  <1>2. QuotaStart \in Nat /\ \A t \in Nat : t < QuotaStart => now - t >= PushWindow
    BY <1>1 DEF QuotaStart
  <1>3. QuotaStart <= QuotaStart' /\ QuotaStart' \in Nat
    <2> DEFINE W(t) == IF t < PushWindow THEN 0 ELSE t - (PushWindow - 1)
    <2>1. \A m, l \in Nat : W(m) \in Nat /\ (m <= l => W(m) <= W(l))
      BY <1>1
    <2>2. QuotaStart = W(now) /\ QuotaStart' = W(now')
      BY DEF QuotaStart
    <2>3. now <= now'
      OBVIOUS
    <2> HIDE DEF W
    <2>4. W(now) <= W(now') /\ W(now') \in Nat
      BY <2>1, <2>3
    <2> QED BY Zenon, <2>2, <2>4
  <1> QED BY <1>2, <1>3

\* What the rows hold in the window is finite.
LEMMA CountedFinite ==
    ASSUME PushInv
    PROVE  IsFiniteSet(Counted)
  <1>1. PICK S : S = {t \in Starts : challenge[t] # NoChallenge}
    OBVIOUS
  <1>2. IsFiniteSet(S)
    BY <1>1, PushAssumption, FS_Subset
  <1>3. PICK F : F = {{s} \X CountedOf(s) : s \in S}
    OBVIOUS
  <1>4. ASSUME NEW s \in S PROVE IsFiniteSet({s} \X CountedOf(s))
    <2>1. challenge[s] \in Challenge
      BY <1>1 DEF PushInv, PushTypeOK
    <2>2. PICK n \in Nat : DOMAIN SendsOf(challenge[s]) = 1..n
      <3>1. Len(challenge[s].resends) + 1 \in Nat
        BY <2>1, SendsOfChallenge
      <3> QED BY <2>1, <3>1, SendsOfChallenge
    <2>3. IsFiniteSet(1..n) /\ CountedOf(s) \subseteq 1..n
      BY <2>2, FS_Interval DEF CountedOf
    <2>4. IsFiniteSet(CountedOf(s)) /\ IsFiniteSet({s})
      BY <2>3, FS_Subset, FS_Singleton
    <2> QED BY <2>4, FS_Product
  <1>5. IsFiniteSet(F)
    <2>1. PICK g : g = [s \in S |-> {s} \X CountedOf(s)]
      OBVIOUS
    <2>2. g \in Surjection(S, F)
      BY <1>3, <2>1 DEF Surjection
    <2> QED BY <1>2, <2>2, FS_Surjection
  <1>6. \A T \in F : IsFiniteSet(T)
    BY <1>3, <1>4
  <1>7. IsFiniteSet(UNION F)
    BY <1>5, <1>6, FS_UNION
  <1> QED BY <1>1, <1>3, <1>7 DEF Counted

\* Where the quota leaves room, the send MaxSends before the next one is out of
\* the window: the sends since would all be counted.
LEMMA RoomInWindow ==
    ASSUME PushInv, SendsInOrder, NEW f, SendsNumbered(f), ~QuotaFull,
           NEW n \in Nat, n = Len(sends), n + 1 > MaxSends
    PROVE  now - sends[n + 1 - MaxSends] >= PushWindow
  <1>0. /\ now \in Nat /\ sends \in Seq(Nat) /\ MaxSends \in Nat /\ MaxSends > 0
        /\ DOMAIN sends = 1..n
    BY PushAssumption DEF PushInv, PushTypeOK
  <1>w. n + 1 - MaxSends \in 1..n
    BY <1>0
  <1>1. PICK a \in 1..n : a = n + 1 - MaxSends
    BY <1>w
  <1>2. sends[a] \in Nat /\ \A i \in 1..n : sends[i] \in Nat
    BY <1>0, ElementOfSeq
  <1>3. CASE sends[a] < QuotaStart
    BY <1>0, <1>1, <1>2, <1>3, PushAssumption DEF QuotaStart
  <1>4. CASE ~(sends[a] < QuotaStart)
    <2>0. QuotaStart \in Nat
      BY <1>0, PushAssumption DEF QuotaStart
    <2>1. ASSUME NEW i \in a..n PROVE f[i] \in Counted
      <3>1. i \in 1..n /\ a <= i
        BY <1>1
      <3>a. sends[a] <= sends[i]
        BY <1>0, <3>1 DEF SendsInOrder
      <3>2. sends[i] >= QuotaStart /\ sends[i] \in Nat
        BY <1>2, <1>4, <2>0, <3>1, <3>a
      <3>3. f[i] \in Starts \X Nat /\ SendKept(f[i], sends[i])
        BY <1>0, <3>1 DEF SendsNumbered
      <3>4. PICK s \in Starts, k \in Nat : f[i] = <<s, k>>
        BY <3>3
      <3>5. /\ challenge[s] # NoChallenge /\ k \in DOMAIN SendsOf(challenge[s])
            /\ SendsOf(challenge[s])[k] = sends[i]
        BY <2>0, <3>2, <3>3, <3>4 DEF SendKept
      <3>6. k \in CountedOf(s)
        BY <3>2, <3>5 DEF CountedOf
      <3>7. <<s, k>> \in {s} \X CountedOf(s)
        BY <3>6
      <3> QED BY <3>4, <3>5, <3>7 DEF Counted
    <2>2. PICK C : C = Counted
      OBVIOUS
    <2>3. PICK g : g = [i \in a..n |-> f[i]]
      OBVIOUS
    <2>4. g \in Injection(a..n, C)
      <3>1. g \in [a..n -> C]
        BY <2>1, <2>2, <2>3
      <3>2. ASSUME NEW i \in a..n, NEW j \in a..n, g[i] = g[j] PROVE i = j
        <4>1. i \in DOMAIN sends /\ j \in DOMAIN sends
          BY <1>0, <1>1
        <4> QED BY <2>3, <3>2, <4>1 DEF SendsNumbered
      <3> QED BY <3>1, <3>2 DEF Injection, IsInjective
    <2>5. IsFiniteSet(C) /\ Cardinality(C) \in Nat
      BY <2>2, CountedFinite, FS_CardinalityType
    <2>6. Cardinality(a..n) <= Cardinality(C)
      BY <2>4, <2>5, FS_Injection
    <2>7. Cardinality(a..n) = MaxSends
      BY <1>0, <1>1, FS_Interval
    <2> QED BY <1>0, <2>2, <2>5, <2>6, <2>7 DEF QuotaFull
  <1> QED BY <1>3, <1>4

\* A step that sends nothing and loses no send of a window keeps the quota.
LEMMA NothingSent ==
    ASSUME PushInv, PushInv', QuotaInv, UNCHANGED sends, now' >= now,
           \A x \in Starts \X Nat, t \in Nat :
              t <= now /\ SendKept(x, t) => SendKept(x, t)'
    PROVE  QuotaInv'
  <1>0. now \in Nat /\ now' \in Nat /\ sends \in Seq(Nat)
    BY DEF PushInv, PushTypeOK
  <1>1. \A i \in DOMAIN sends : sends[i] \in Nat /\ sends[i] <= now
    BY <1>0, ElementOfSeq DEF QuotaInv, SendsInOrder
  <1>2. SendsInOrder'
    BY <1>0, <1>1 DEF QuotaInv, SendsInOrder
  <1>3. SendsWithinQuota'
    BY DEF QuotaInv, SendsWithinQuota
  <1>4. PICK f : SendsNumbered(f)
    BY DEF QuotaInv
  <1>5. ASSUME NEW i \in DOMAIN sends PROVE SendKept(f[i], sends[i])'
    <2>1. PICK x \in Starts \X Nat : x = f[i]
      BY <1>4 DEF SendsNumbered
    <2>2. PICK t \in Nat : t = sends[i] /\ t <= now
      BY <1>1
    <2>3. SendKept(x, t)'
      BY <1>4, <2>1, <2>2 DEF SendsNumbered
    <2> QED BY <2>1, <2>2, <2>3 DEF SendKept
  <1>6. SendsNumbered(f)'
    BY <1>4, <1>5 DEF SendsNumbered
  <1> QED BY <1>2, <1>3, <1>6 DEF QuotaInv

\* A send that the quota admitted, and that its row holds, keeps the quota.
LEMMA OneSent ==
    ASSUME PushInv, PushInv', QuotaInv, ~QuotaFull, UNCHANGED now,
           sends' = Append(sends, now), NEW y \in Starts \X Nat, SendKept(y, now)',
           \A t \in Nat : ~SendKept(y, t),
           \A x \in Starts \X Nat, t \in Nat : SendKept(x, t) => SendKept(x, t)'
    PROVE  QuotaInv'
  <1>0. now \in Nat /\ sends \in Seq(Nat) /\ MaxSends \in Nat /\ MaxSends > 0
    BY PushAssumption DEF PushInv, PushTypeOK
  <1>n. PICK n \in Nat : n = Len(sends) /\ DOMAIN sends = 1..n
    BY <1>0
  <1>1. /\ DOMAIN sends' = 1..(n + 1) /\ sends'[n + 1] = now
        /\ \A i \in 1..n : sends'[i] = sends[i] /\ sends[i] \in Nat
    BY <1>0, <1>n
  <1>2. SendsInOrder'
    <2>1. ASSUME NEW i \in 1..(n + 1), NEW j \in 1..(n + 1), i <= j
          PROVE  sends'[i] <= now /\ sends'[i] <= sends'[j]
      <3>1. CASE j = n + 1
        BY <1>0, <1>1, <1>n, <3>1 DEF QuotaInv, SendsInOrder
      <3>2. CASE j # n + 1
        <4>1. i \in 1..n /\ j \in 1..n
          BY <2>1, <3>2
        <4> QED BY <1>1, <1>n, <2>1, <4>1 DEF QuotaInv, SendsInOrder
      <3> QED BY <3>1, <3>2
    <2> QED BY <1>1, <2>1 DEF SendsInOrder
  <1>4. PICK f : SendsNumbered(f)
    BY DEF QuotaInv
  <1>3. SendsWithinQuota'
    <2> SUFFICES ASSUME NEW i \in 1..(n + 1), i > MaxSends
                 PROVE  sends'[i] - sends'[i - MaxSends] >= PushWindow
      BY <1>1 DEF SendsWithinQuota
    <2>1. i - MaxSends \in 1..n
      BY <1>0
    <2>2. CASE i = n + 1
      <3>1. now - sends[n + 1 - MaxSends] >= PushWindow
        BY <1>4, <1>n, <2>2, RoomInWindow DEF QuotaInv
      <3>2. PICK k \in 1..n : k = i - MaxSends
        BY <2>1
      <3>a. sends'[i] = now
        BY <1>1, <2>2
      <3>b. sends'[k] = sends[k]
        BY <1>1
      <3>3. sends'[i] = now /\ sends'[k] = sends[k] /\ k = n + 1 - MaxSends
        BY <1>0, <2>2, <3>2, <3>a, <3>b
      <3> QED BY <3>1, <3>2, <3>3
    <2>3. CASE i # n + 1
      <3>1. i \in 1..n
        BY <2>3
      <3> QED BY <1>1, <1>n, <2>1, <3>1 DEF QuotaInv, SendsWithinQuota
    <2> QED BY <2>2, <2>3
  <1>5. PICK g : g = [i \in 1..(n + 1) |-> IF i = n + 1 THEN y ELSE f[i]]
    OBVIOUS
  <1>6. ASSUME NEW i \in 1..n
        PROVE  /\ g[i] = f[i] /\ f[i] \in Starts \X Nat /\ f[i] # y
               /\ SendKept(f[i], sends[i])'
    <2>1. i \in 1..(n + 1) /\ i # n + 1
      OBVIOUS
    <2>2. PICK x \in Starts \X Nat : x = f[i]
      BY <1>4, <1>n DEF SendsNumbered
    <2>3. PICK t \in Nat : t = sends[i] /\ t = sends'[i]
      BY <1>1
    <2>4. SendKept(x, t)
      BY <1>4, <1>n, <2>2, <2>3 DEF SendsNumbered
    <2>5. SendKept(x, t)'
      BY <2>4
    <2>6. x # y
      BY <2>4
    <2> QED BY <1>5, <2>1, <2>2, <2>3, <2>5, <2>6 DEF SendKept
  <1>7. g[n + 1] = y
    BY <1>5
  <1>8. g \in [1..(n + 1) -> Starts \X Nat]
    <2>1. ASSUME NEW i \in 1..(n + 1) PROVE g[i] \in Starts \X Nat
      <3>1. CASE i = n + 1
        BY <1>7, <3>1
      <3>2. CASE i # n + 1
        <4>1. i \in 1..n
          BY <3>2
        <4> QED BY <1>6, <4>1
      <3> QED BY <3>1, <3>2
    <2> QED BY <1>5, <2>1
  <1>9. ASSUME NEW i \in 1..(n + 1), NEW j \in 1..(n + 1), g[i] = g[j] PROVE i = j
    <2>1. CASE i \in 1..n /\ j \in 1..n
      BY <1>4, <1>6, <1>9, <1>n, <2>1 DEF SendsNumbered
    <2>2. CASE i = n + 1 \/ j = n + 1
      <3>1. \A k \in 1..n : g[k] # y
        BY <1>6
      <3>2. \A k \in 1..(n + 1) : k # n + 1 => k \in 1..n
        OBVIOUS
      <3> QED BY <1>7, <1>9, <2>2, <3>1, <3>2
    <2>3. \A k \in 1..(n + 1) : k = n + 1 \/ k \in 1..n
      OBVIOUS
    <2> QED BY <2>1, <2>2, <2>3
  <1>10. ASSUME NEW i \in 1..(n + 1) PROVE SendKept(g[i], sends[i])'
    <2>1. CASE i = n + 1
      BY <1>1, <1>7, <2>1 DEF SendKept
    <2>2. CASE i # n + 1
      <3>1. i \in 1..n
        BY <2>2
      <3> QED BY <1>6, <3>1 DEF SendKept
    <2> QED BY <2>1, <2>2
  <1>11. SendsNumbered(g)'
    BY <1>1, <1>8, <1>9, <1>10 DEF SendsNumbered
  <1> QED BY <1>2, <1>3, <1>11 DEF QuotaInv

\* The rows have the same sends after a step, and no start goes back.
SameSends ==
    \A s \in Starts :
        /\ ~NotIssued(s) => ~NotIssued(s)'
        /\ challenge[s] # NoChallenge =>
              challenge'[s] # NoChallenge /\ SendsOf(challenge'[s]) = SendsOf(challenge[s])
        /\ challenge[s] = NoChallenge /\ ~NotIssued(s) => challenge'[s] = NoChallenge

\* Then what was kept is kept.
LEMMA SameSendsKept ==
    ASSUME PushInv, PushInv', QuotaInv, UNCHANGED sends, now' >= now, SameSends
    PROVE  QuotaInv'
  <1>0. now \in Nat /\ now' \in Nat
    BY DEF PushInv, PushTypeOK
  <1>1. ASSUME NEW x \in Starts \X Nat, NEW t \in Nat, SendKept(x, t)
        PROVE  SendKept(x, t)'
    <2>1. PICK s \in Starts, k \in Nat : x = <<s, k>>
      OBVIOUS
    <2>2. ~NotIssued(s) /\ ~NotIssued(s)'
      BY <1>1, <2>1 DEF SendKept, SameSends
    <2>3. CASE challenge[s] # NoChallenge
      <3>1. k \in DOMAIN SendsOf(challenge[s]) /\ SendsOf(challenge[s])[k] = t
        BY <1>1, <2>1, <2>3 DEF SendKept
      <3>2. challenge'[s] # NoChallenge /\ SendsOf(challenge'[s]) = SendsOf(challenge[s])
        BY <2>3 DEF SameSends
      <3>3. k \in DOMAIN SendsOf(challenge'[s]) /\ SendsOf(challenge'[s])[k] = t
        BY <3>1, <3>2
      <3> QED BY <2>1, <2>2, <3>2, <3>3 DEF SendKept, SendsOf
    <2>4. CASE challenge[s] = NoChallenge
      <3>1. t < QuotaStart /\ QuotaStart <= QuotaStart' /\ QuotaStart \in Nat
        BY <1>0, <1>1, <2>1, <2>4, WindowMoves DEF SendKept
      <3>2. QuotaStart' \in Nat
        BY <1>0, WindowMoves
      <3>3. challenge'[s] = NoChallenge /\ t < QuotaStart'
        BY <2>2, <2>4, <3>1, <3>2 DEF SameSends
      <3> QED BY <2>1, <2>2, <3>3 DEF SendKept
    <2> QED BY <2>3, <2>4
  <1> QED BY <1>1, NothingSent

\* A row that is replaced by one with the same issue and resends.
LEMMA RowKeepsSends ==
    ASSUME PushInv, UNCHANGED start, NEW s \in Starts, challenge[s] # NoChallenge,
           NEW c, c # NoChallenge, c.issued = challenge[s].issued,
           c.resends = challenge[s].resends, challenge' = [challenge EXCEPT ![s] = c]
    PROVE  SameSends
  <1>1. SendsOf(c) = SendsOf(challenge[s])
    BY DEF SendsOf
  <1>2. challenge'[s] = c /\ \A t \in Starts : t # s => challenge'[t] = challenge[t]
    BY DEF PushInv, PushTypeOK
  <1>3. \A t \in Starts : ~NotIssued(t) => ~NotIssued(t)'
    BY DEF NotIssued
  <1> QED BY <1>1, <1>2, <1>3 DEF SameSends

\* Where every call is of its type, what an operation stores is valid.
LEMMA StoreStores ==
    ASSUME PushInv, PushInv', NEW r \in PushCalls, NEW s, NEW c, NEW ended, Store(r, s, c, ended)
    PROVE  challenge' = [challenge EXCEPT ![s] = c]
  <1> SUFFICES ASSUME ~ValidRecord(c) PROVE FALSE
    BY DEF Store
  <1>1. CallBecomes(r, [pc |-> "corrupt"])
    BY DEF Store
  <1>2. call'[r] = [pc |-> "corrupt"]
    BY <1>1 DEF CallBecomes, PushInv, PushTypeOK
  <1>3. call'[r] \in PushCall
    BY DEF PushInv, PushTypeOK
  <1>4. call'[r].pc # "corrupt"
    BY <1>3 DEF PushCall
  <1> QED BY <1>2, <1>4

\* The steps that neither send nor forget a push.
LEMMA QuietQuota ==
    ASSUME PushInv, PushInv', QuotaInv,
           \/ \E s \in Starts : ListAuthenticators(s) \/ SendPush(s)
           \/ \E r \in PushCalls : \/ ReadForDecision(r) \/ VerifyProof(r) \/ ReadForBrowser(r)
                                   \/ ReadOwner(r) \/ SendAgain(r)
           \/ \E d \in Devices : EnrolDevice(d) \/ RevokeDevice(d)
           \/ PushTick \/ UNCHANGED pushVars
    PROVE  QuotaInv'
  <1>1. UNCHANGED <<challenge, sends>>
    BY DEF ListAuthenticators, SendPush, ReadForDecision, VerifyProof, ReadForBrowser, ReadOwner,
           SendAgain, EnrolDevice, RevokeDevice, PushTick, pushVars, pushHistory
  <1>2. now' >= now
    <2>1. UNCHANGED now \/ Tick
      BY DEF ListAuthenticators, SendPush, ReadForDecision, VerifyProof, ReadForBrowser, ReadOwner,
             SendAgain, EnrolDevice, RevokeDevice, PushTick, pushVars
    <2>2. now \in Nat
      BY DEF PushInv, PushTypeOK
    <2> QED BY <2>1, <2>2 DEF Tick
  <1>3. ASSUME NEW s \in Starts, ~NotIssued(s) PROVE ~NotIssued(s)'
    <2>1. CASE UNCHANGED start
      BY <1>3, <2>1 DEF NotIssued
    <2>2. ASSUME NEW p \in Starts, ListAuthenticators(p) \/ SendPush(p) PROVE ~NotIssued(s)'
      <3>1. CASE p # s
        BY <1>3, <2>2, <3>1 DEF NotIssued, ListAuthenticators, SendPush, StartBecomes,
           PushInv, PushTypeOK
      <3>2. CASE p = s /\ ListAuthenticators(s)
        BY <1>3, <3>2 DEF NotIssued, ListAuthenticators
      <3>3. CASE p = s /\ SendPush(s)
        <4>1. PICK z \in {"started", "failed"} : StartBecomes(s, [pc |-> z])
          BY <3>3 DEF SendPush
        <4>2. start'[s].pc = z
          BY <4>1 DEF StartBecomes, PushInv, PushTypeOK
        <4> QED BY <4>2 DEF NotIssued
      <3> QED BY <2>2, <3>1, <3>2, <3>3
    <2>3. UNCHANGED start \/ \E p \in Starts : ListAuthenticators(p) \/ SendPush(p)
      BY DEF ReadForDecision, VerifyProof, ReadForBrowser, ReadOwner,
             SendAgain, EnrolDevice, RevokeDevice, PushTick, pushVars
    <2> QED BY <2>1, <2>2, <2>3
  <1>4. SameSends
    BY <1>1, <1>3 DEF SameSends
  <1> QED BY <1>1, <1>2, <1>4, SameSendsKept

\* A decision and a redemption leave the sends of their row.
LEMMA RecordQuota ==
    ASSUME PushInv, PushInv', QuotaInv, NEW r \in PushCalls, RecordDecision(r) \/ Redeem(r)
    PROVE  QuotaInv'
  <1>0. UNCHANGED <<now, start, sends>> /\ now \in Nat
    BY DEF RecordDecision, Redeem, pushHistory, PushInv, PushTypeOK
  <1>1. CASE UNCHANGED challenge
    <2>1. SameSends
      BY <1>0, <1>1 DEF SameSends, NotIssued
    <2> QED BY <1>0, <2>1, SameSendsKept
  <1>2. CASE RecordDecision(r) /\ ~UNCHANGED challenge
    <2>0. PICK c \in Deciding : c = call[r]
      BY <1>2, CallKinds DEF RecordDecision, PushInv, PushTypeOK
    <2>t. c.target \in Starts
      BY DEF Deciding
    <2>1. /\ Attemptable(challenge[c.target], c.row, c.at)
          /\ Store(r, c.target, Attempted(challenge[c.target], c.verified, c.proof.decision, c.at),
                   [pc |-> "done"])
      BY <1>2, <2>0 DEF RecordDecision
    <2>2. PICK row \in Challenge : row = challenge[c.target] /\ challenge[c.target] # NoChallenge
      BY <2>t, <2>1 DEF Attemptable, SameLogin, PushInv, PushTypeOK
    <2>3. PICK new : new = Attempted(row, c.verified, c.proof.decision, c.at)
      OBVIOUS
    <2>4. challenge' = [challenge EXCEPT ![c.target] = new]
      BY <2>1, <2>2, <2>3, StoreStores
    <2>5. new.issued = row.issued /\ new.resends = row.resends
      BY <2>3 DEF Attempted, Challenge
    <2>6. new # NoChallenge
      <3>1. challenge'[c.target] = new
        BY <2>t, <2>4 DEF PushInv, PushTypeOK
      <3>2. new \in Challenge \cup {NoChallenge}
        BY <2>t, <3>1 DEF PushInv, PushTypeOK
      <3>3. row.attempts \in Nat /\ DOMAIN row = DOMAIN new
        BY <2>3 DEF Challenge, Attempted
      <3>4. /\ row.attempts + 1 \in Nat /\ row.attempts \in Nat
            /\ c.proof.decision \in Decisions /\ c.at \in Nat
        BY <3>3 DEF Deciding, Proof
      <3>5. new \in Challenge
        BY <2>3, <3>4 DEF Attempted, Challenge
      <3> QED BY <3>5, NoChallengeAssumption
    <2>7. /\ new.issued = challenge[c.target].issued
          /\ new.resends = challenge[c.target].resends
      BY <2>2, <2>5
    <2>8. SameSends
      BY <1>0, <2>t, <2>2, <2>4, <2>6, <2>7, RowKeepsSends
    <2> QED BY <1>0, <2>8, SameSendsKept
  <1>3. CASE Redeem(r) /\ ~UNCHANGED challenge
    <2>0. PICK c \in Browsing : c = call[r]
      BY <1>3, CallKinds DEF Redeem, PushInv, PushTypeOK
    <2>t. c.target \in Starts /\ c.at \in Nat
      BY DEF Browsing
    <2>1. /\ Redeemable(challenge[c.target], c.row, c.browser = c.target, c.at)
          /\ Store(r, c.target, [challenge[c.target] EXCEPT !.consumed = TRUE, !.consumedAt = c.at],
                   [pc |-> "done"])
      BY <1>3, <2>0 DEF Redeem
    <2>2. PICK row \in Challenge : row = challenge[c.target] /\ challenge[c.target] # NoChallenge
      BY <2>t, <2>1 DEF Redeemable, SameLogin, PushInv, PushTypeOK
    <2>3. PICK new : new = [row EXCEPT !.consumed = TRUE, !.consumedAt = c.at]
      OBVIOUS
    <2>4. challenge' = [challenge EXCEPT ![c.target] = new]
      BY <2>1, <2>2, <2>3, StoreStores
    <2>5. new.issued = row.issued /\ new.resends = row.resends
      BY <2>3 DEF Challenge
    <2>6. new # NoChallenge
      <3>1. new \in Challenge
        BY <2>t, <2>3 DEF Challenge
      <3> QED BY <3>1, NoChallengeAssumption
    <2>7. /\ new.issued = challenge[c.target].issued
          /\ new.resends = challenge[c.target].resends
      BY <2>2, <2>5
    <2>8. SameSends
      BY <1>0, <2>t, <2>2, <2>4, <2>6, <2>7, RowKeepsSends
    <2> QED BY <1>0, <2>8, SameSendsKept
  <1> QED BY <1>1, <1>2, <1>3

\* A new challenge has one send, which nobody counted before.
LEMMA IssueQuota ==
    ASSUME PushInv, PushInv', QuotaInv, NEW s \in Starts, IssuePush(s)
    PROVE  QuotaInv'
  <1>0. UNCHANGED now /\ now \in Nat /\ start[s].pc = "issue" /\ NotIssued(s)
        /\ start \in [Starts -> Start] /\ challenge \in [Starts -> Challenge \cup {NoChallenge}]
    BY DEF IssuePush, NotIssued, PushInv, PushTypeOK
  <1>1. CASE StartBecomes(s, [pc |-> "failed"]) /\ UNCHANGED <<challenge, sends>>
    <2>1. \A t \in Starts : ~NotIssued(t) => ~NotIssued(t)'
      BY <1>0, <1>1 DEF StartBecomes, NotIssued
    <2>2. SameSends
      BY <1>1, <2>1 DEF SameSends
    <2> QED BY <1>0, <1>1, <2>2, SameSendsKept
  <1>2. CASE ~(StartBecomes(s, [pc |-> "failed"]) /\ UNCHANGED <<challenge, sends>>)
    <2>0. PICK c : c = [device |-> start[s].device, created |-> start[s].created,
                        expires |-> start[s].created + Ttl, issued |-> now,
                        resends |-> <<>>, attempts |-> 0, decision |-> "none",
                        decidedAt |-> 0, consumed |-> FALSE, consumedAt |-> 0]
      OBVIOUS
    <2>1. /\ ~QuotaFull /\ StartBecomes(s, [start[s] EXCEPT !.pc = "send"])
          /\ challenge' = [challenge EXCEPT ![s] = c] /\ sends' = Append(sends, now)
      BY <1>2, <2>0 DEF IssuePush
    <2>2. challenge'[s] = c /\ \A t \in Starts : t # s => challenge'[t] = challenge[t]
      BY <1>0, <2>1
    <2>3. start'[s].pc = "send" /\ \A t \in Starts : t # s => start'[t] = start[t]
      <3>1. start'[s] = [start[s] EXCEPT !.pc = "send"]
        BY <1>0, <2>1 DEF StartBecomes
      <3>2. start[s] \in [pc: {"issue", "send"}, device: Devices, created: Nat]
        BY <1>0 DEF Start
      <3>3. start'[s].pc = "send"
        BY <3>1, <3>2
      <3> QED BY <1>0, <2>1, <3>3 DEF StartBecomes
    <2>4. c \in Challenge
      <3>1. start[s] \in [pc: {"issue", "send"}, device: Devices, created: Nat]
        BY <1>0 DEF Start
      <3>2. start[s].device \in Devices /\ start[s].created \in Nat /\ start[s].created + Ttl \in Nat
        BY <3>1, PushNumbers
      <3> QED BY <1>0, <2>0, <3>2 DEF Challenge
    <2>5. c # NoChallenge
      BY <2>4, NoChallengeAssumption
    <2>6. 1 \in DOMAIN SendsOf(c) /\ SendsOf(c)[1] = now
      <3>1. c.issued = now /\ Len(c.resends) \in Nat
        BY <2>0, <2>4, SendsOfChallenge
      <3> QED BY <2>4, <3>1, SendsOfChallenge
    <2>7. SendKept(<<s, 1>>, now)'
      <3>1. 1 \in DOMAIN SendsOf(challenge'[s]) /\ SendsOf(challenge'[s])[1] = now'
        BY <1>0, <2>2, <2>6
      <3>2. ~NotIssued(s)' /\ challenge'[s] # NoChallenge
        BY <2>2, <2>3, <2>5 DEF NotIssued
      <3> QED BY <3>1, <3>2 DEF SendKept, SendsOf
    <2>8. \A t \in Nat : ~SendKept(<<s, 1>>, t)
      BY <1>0 DEF SendKept
    <2>9. ASSUME NEW x \in Starts \X Nat, NEW t \in Nat, SendKept(x, t) PROVE SendKept(x, t)'
      <3>1. PICK p \in Starts, k \in Nat : x = <<p, k>>
        OBVIOUS
      <3>2. p # s
        BY <1>0, <2>9, <3>1 DEF SendKept
      <3>3. challenge'[p] = challenge[p] /\ start'[p] = start[p]
        BY <2>2, <2>3, <3>2
      <3>4. QuotaStart' = QuotaStart
        BY <1>0 DEF QuotaStart
      <3> QED BY <2>9, <3>1, <3>3, <3>4 DEF SendKept, SendsOf, NotIssued
    <2>10. <<s, 1>> \in Starts \X Nat
      OBVIOUS
    <2> QED BY <1>0, <2>1, <2>7, <2>8, <2>9, <2>10, OneSent
  <1> QED BY <1>1, <1>2

\* A resend is one more send of its row.
LEMMA ResendQuota ==
    ASSUME PushInv, PushInv', QuotaInv, NEW r \in PushCalls, Resend(r)
    PROVE  QuotaInv'
  <1>0. UNCHANGED <<now, start>> /\ now \in Nat
        /\ challenge \in [Starts -> Challenge \cup {NoChallenge}]
    BY DEF Resend, PushInv, PushTypeOK
  <1>1. CASE UNCHANGED <<challenge, sends>>
    <2>1. SameSends
      BY <1>0, <1>1 DEF SameSends, NotIssued
    <2> QED BY <1>0, <1>1, <2>1, SameSendsKept
  <1>2. CASE ~UNCHANGED <<challenge, sends>>
    <2>0. PICK c \in Browsing : c = call[r]
      BY CallKinds DEF Resend, PushInv, PushTypeOK
    <2>t. PICK s \in Starts : s = c.target
      BY DEF Browsing
    <2>1. /\ ~QuotaFull /\ Resendable(challenge[s], c.row, c.browser = s)
          /\ Store(r, s, [challenge[s] EXCEPT !.resends = Append(@, now)],
                   [c EXCEPT !.pc = "send",
                             !.row = BindingOf([challenge[s] EXCEPT !.resends = Append(@, now)])])
          /\ sends' = Append(sends, now)
      BY <1>2, <2>0, <2>t DEF Resend
    <2>2. PICK row \in Challenge : row = challenge[s] /\ challenge[s] # NoChallenge
      BY <1>0, <2>1 DEF Resendable, SameLogin
    <2>3. PICK S \in Seq(Nat), n \in Nat : S = row.resends /\ n = Len(S)
      BY DEF Challenge
    <2>4. PICK new : new = [challenge[s] EXCEPT !.resends = Append(@, now)]
      OBVIOUS
    <2>5. challenge' = [challenge EXCEPT ![s] = new]
      BY <2>1, <2>4, StoreStores
    <2>6. challenge'[s] = new /\ \A t \in Starts : t # s => challenge'[t] = challenge[t]
      BY <1>0, <2>5
    <2>7. /\ Append(S, now) \in Seq(Nat) /\ Len(Append(S, now)) = n + 1
          /\ Append(S, now)[n + 1] = now /\ \A i \in 1..n : Append(S, now)[i] = S[i]
      BY <1>0, <2>3, AppendProperties
    <2>8. new \in Challenge /\ new.issued = row.issued /\ new.resends = Append(S, now)
      BY <2>2, <2>3, <2>4, <2>7 DEF Challenge
    <2>9. new # NoChallenge
      BY <2>8, NoChallengeAssumption
    <2>10. /\ DOMAIN SendsOf(row) = 1..(n + 1)
           /\ DOMAIN SendsOf(new) = 1..(n + 2)
           /\ SendsOf(new)[n + 2] = now
           /\ \A i \in 1..(n + 1) : SendsOf(new)[i] = SendsOf(row)[i]
      <3>1. DOMAIN SendsOf(row) = 1..(n + 1) /\ SendsOf(row)[1] = row.issued
            /\ \A i \in 2..(n + 1) : SendsOf(row)[i] = S[i - 1]
        BY <2>3, SendsOfChallenge
      <3>2. DOMAIN SendsOf(new) = 1..(n + 1 + 1) /\ SendsOf(new)[1] = new.issued
            /\ \A i \in 2..(n + 1 + 1) : SendsOf(new)[i] = Append(S, now)[i - 1]
        BY <2>7, <2>8, SendsOfChallenge
      <3>3. n + 2 \in 2..(n + 1 + 1) /\ (n + 2) - 1 = n + 1 /\ n + 1 + 1 = n + 2
        OBVIOUS
      <3>4. SendsOf(new)[n + 2] = Append(S, now)[n + 1]
        BY <3>2, <3>3
      <3>5. ASSUME NEW i \in 1..(n + 1) PROVE SendsOf(new)[i] = SendsOf(row)[i]
        <4>1. CASE i = 1
          BY <2>8, <3>1, <3>2, <4>1
        <4>2. CASE i # 1
          <5>1. i \in 2..(n + 1) /\ i \in 2..(n + 1 + 1) /\ i - 1 \in 1..n
            BY <4>2
          <5> QED BY <2>7, <3>1, <3>2, <5>1
        <4> QED BY <4>1, <4>2
      <3> QED BY <2>7, <3>1, <3>2, <3>3, <3>4, <3>5
    <2>i. ~NotIssued(s) /\ ~NotIssued(s)'
      BY <1>0, <2>2 DEF PushInv, NotIssued
    <2>11. SendKept(<<s, n + 2>>, now)'
      <3>1. n + 2 \in DOMAIN SendsOf(challenge'[s]) /\ SendsOf(challenge'[s])[n + 2] = now'
        BY <1>0, <2>6, <2>10
      <3>2. challenge'[s] # NoChallenge
        BY <2>6, <2>9
      <3> QED BY <2>i, <3>1, <3>2 DEF SendKept, SendsOf
    <2>12. \A t \in Nat : ~SendKept(<<s, n + 2>>, t)
      <3>1. n + 2 \notin DOMAIN SendsOf(challenge[s])
        BY <2>2, <2>10
      <3> QED BY <2>2, <3>1 DEF SendKept
    <2>13. ASSUME NEW x \in Starts \X Nat, NEW t \in Nat, SendKept(x, t) PROVE SendKept(x, t)'
      <3>1. PICK p \in Starts, k \in Nat : x = <<p, k>>
        OBVIOUS
      <3>4. QuotaStart' = QuotaStart
        BY <1>0 DEF QuotaStart
      <3>5. CASE p # s
        <4>1. challenge'[p] = challenge[p] /\ start'[p] = start[p]
          BY <1>0, <2>6, <3>5
        <4> QED BY <2>13, <3>1, <3>4, <4>1 DEF SendKept, SendsOf, NotIssued
      <3>6. CASE p = s
        <4>1. k \in DOMAIN SendsOf(row) /\ SendsOf(row)[k] = t
          BY <2>2, <2>13, <3>1, <3>6 DEF SendKept
        <4>2. k \in DOMAIN SendsOf(challenge'[s]) /\ SendsOf(challenge'[s])[k] = t
          BY <2>6, <2>10, <4>1
        <4>3. challenge'[s] # NoChallenge
          BY <2>6, <2>9
        <4> QED BY <2>i, <3>1, <3>6, <4>2, <4>3 DEF SendKept, SendsOf
      <3> QED BY <3>5, <3>6
    <2>14. <<s, n + 2>> \in Starts \X Nat
      OBVIOUS
    <2> QED BY <1>0, <2>1, <2>11, <2>12, <2>13, <2>14, OneSent
  <1> QED BY <1>1, <1>2

\* A challenge is cleaned up only when no window can still hold one of its sends.
LEMMA CleanUpQuota ==
    ASSUME PushInv, PushInv', QuotaInv, CleanUp
    PROVE  QuotaInv'
  <1>0. UNCHANGED <<now, start, sends>> /\ now \in Nat
        /\ challenge \in [Starts -> Challenge \cup {NoChallenge}]
    BY DEF CleanUp, pushHistory, PushInv, PushTypeOK
  <1>1. PICK s \in Starts : /\ challenge[s] # NoChallenge /\ Forgettable(challenge[s])
                            /\ challenge' = [challenge EXCEPT ![s] = NoChallenge]
    BY DEF CleanUp
  <1>2. PICK row \in Challenge : row = challenge[s]
    BY <1>0, <1>1
  <1>3. row.expires \in Nat /\ row.issued \in Nat /\ row.resends \in Seq(Nat)
    BY DEF Challenge
  <1>4. ASSUME NEW k \in DOMAIN SendsOf(row) PROVE SendsOf(row)[k] < row.expires
    <2>1. /\ row.issued < row.expires
          /\ \A i \in DOMAIN row.resends : row.resends[i] < row.expires
      BY <1>1, <1>2 DEF PushInv, ChallengeInStep, ValidRecord
    <2>2. CASE k = 1
      BY <2>1, <2>2, SendsOfChallenge
    <2>3. CASE k # 1
      <3>1. k \in 2..(Len(row.resends) + 1) /\ k - 1 \in 1..Len(row.resends)
        BY <2>3, SendsOfChallenge
      <3>a. SendsOf(row)[k] = row.resends[k - 1]
        BY <3>1, SendsOfChallenge
      <3>b. DOMAIN row.resends = 1..Len(row.resends)
        BY <1>3
      <3>2. SendsOf(row)[k] = row.resends[k - 1] /\ k - 1 \in DOMAIN row.resends
        BY <3>1, <3>a, <3>b
      <3> QED BY <2>1, <3>2
    <2> QED BY <2>2, <2>3
  <1>5. \A t \in Nat : t < row.expires => t < QuotaStart
    <2>1. row.expires + Horizon < now
      BY <1>1, <1>2 DEF Forgettable
    <2>2. Horizon \in Nat /\ PushWindow \in Nat /\ PushWindow <= Horizon /\ PushWindow > 0
      BY PushAssumption
    <2> QED BY <1>0, <1>3, <2>1, <2>2 DEF QuotaStart
  <1>6. challenge'[s] = NoChallenge /\ \A t \in Starts : t # s => challenge'[t] = challenge[t]
    BY <1>0, <1>1
  <1>7. QuotaStart' = QuotaStart
    BY <1>0 DEF QuotaStart
  <1>8. ASSUME NEW x \in Starts \X Nat, NEW t \in Nat, SendKept(x, t) PROVE SendKept(x, t)'
    <2>1. PICK p \in Starts, k \in Nat : x = <<p, k>>
      OBVIOUS
    <2>2. CASE p # s
      <3>1. challenge'[p] = challenge[p] /\ start'[p] = start[p]
        BY <1>0, <1>6, <2>2
      <3> QED BY <1>7, <1>8, <2>1, <3>1 DEF SendKept, SendsOf, NotIssued
    <2>3. CASE p = s
      <3>1. ~NotIssued(s) /\ k \in DOMAIN SendsOf(row) /\ SendsOf(row)[k] = t
        BY <1>1, <1>2, <1>8, <2>1, <2>3 DEF SendKept
      <3>2. t < QuotaStart
        BY <1>4, <1>5, <3>1
      <3>3. ~NotIssued(s)'
        BY <1>0, <3>1 DEF NotIssued
      <3> QED BY <1>6, <1>7, <2>1, <2>3, <3>2, <3>3 DEF SendKept
    <2> QED BY <2>2, <2>3
  <1> QED BY <1>0, <1>8, NothingSent

\* No user is pushed more than MaxSends times in any window, however starts,
\* resends, failing sends, decisions and the cleanup overlap (send_count,
\* quota_window_start, cleanup_cutoff).
THEOREM QuotaHolds == PushSpec => []SendsWithinQuota
  <1>1. PushInit => QuotaInv
    <2> SUFFICES ASSUME PushInit PROVE QuotaInv
      OBVIOUS
    <2>1. sends = <<>> /\ DOMAIN sends = {}
      BY DEF PushInit
    <2>2. PICK f : f \in [DOMAIN sends -> Starts \X Nat]
      <3>1. <<>> \in [{} -> Starts \X Nat]
        OBVIOUS
      <3> QED BY <2>1, <3>1
    <2> QED BY <2>1, <2>2 DEF QuotaInv, SendsInOrder, SendsWithinQuota, SendsNumbered
  <1>2. PushInv /\ QuotaInv /\ [PushNext]_pushVars => (PushInv /\ QuotaInv)'
    <2> SUFFICES ASSUME PushInv, QuotaInv, [PushNext]_pushVars PROVE PushInv' /\ QuotaInv'
      OBVIOUS
    <2>1. PushInv'
      BY PushPreserved
    <2>2. QuotaInv'
      BY <2>1, QuietQuota, RecordQuota, IssueQuota, ResendQuota, CleanUpQuota DEF PushNext
    <2> QED BY <2>1, <2>2
  <1>3. QuotaInv => SendsWithinQuota
    BY DEF QuotaInv
  <1> QED BY <1>1, <1>2, <1>3, PushStart, PTL DEF PushSpec
=============================================================================
