------------------------------ MODULE Accounts ------------------------------
(***************************************************************************)
(* Accounts, sessions, tokens and the guard against password guessing.     *)
(*                                                                         *)
(* Accounts and credentials are files, one each; a call of a store is      *)
(* atomic under the store's mutex, a request is several of them.  So a     *)
(* request is several actions here, and between two of them any other      *)
(* request may run.  The limiters live in memory and count the failures of *)
(* one address: those of different addresses share nothing.                *)
(*                                                                         *)
(* Who may administer accounts is the policy of the server, the subject of *)
(* module Repositories: administration starts here once it is authorized.  *)
(***************************************************************************)
EXTENDS Integers, FiniteSets

CONSTANTS
    User, Password, Request,
    fold,                           \* strings.ToLower on the names; two accounts may differ in case only
    address,                        \* the key of the limiter of the address
    free,                           \* failures without a wait, per key
    base, max, forget, sweepEvery,  \* how long a wait is, and when failures are forgotten
    sessionAbsolute, sessionIdle,
    MaxCred, MaxRequests, MaxTime, MaxCrashes   \* bounds

\* The key an account has in the limiter of address and account.
pairKey(n) == fold[n]

Key == {pairKey(n) : n \in User} \cup {address}
Cred == 1..MaxCred

ASSUME AccountsAssumption ==
    /\ fold = [n \in User |-> fold[n]] /\ \A n \in User : fold[n] # address
    /\ IsFiniteSet(Request) /\ Request # {}
    /\ free \in [Key -> Nat \ {0}]
    /\ base \in Nat \ {0} /\ max \in Nat /\ base <= max
    /\ forget \in Nat /\ max <= forget          \* 15 minutes and one hour
    /\ sweepEvery \in Nat
    /\ sessionAbsolute \in Nat /\ sessionIdle \in Nat
    /\ {MaxCred, MaxRequests, MaxTime, MaxCrashes} \subseteq Nat

VARIABLES
    accounts, creds,               \* the files of the two stores
    failures, lastSweep,           \* the limiters
    request,                       \* what each request is doing
    now, minted,                   \* the clock; the credentials given out
    revoked, off, clobbered,       \* history: credentials removed; accounts disabled or deleted by
                                   \* an operation that returned; accounts with a lost update
    owed, late,                    \* history: the wait imposed on a key; the failures since
    requests, crashes

stores == <<accounts, creds>>
limits == <<failures, lastSweep, owed, late>>
ghosts == <<revoked, off, clobbered>>
bounds == <<requests, crashes>>
vars == <<stores, limits, request, now, minted, ghosts, bounds>>

----------------------------------------------------------------------------
(* Stores                                                                  *)

\* current: the hash has today's parameters, so a login need not replace it.
NoAccount == [state |-> "none"]
Account(s, pw, current) == [state |-> s, password |-> pw, current |-> current]
Active(n) == accounts[n].state = "active"
Exists(n) == accounts[n] # NoAccount

NoCred == [kind |-> "none"]
Session(n) == [kind |-> "session", subject |-> n, expires |-> now + sessionAbsolute, last |-> now]
Token(n) == [kind |-> "token", subject |-> n]

\* A token neither expires nor idles.
valid(c) ==
    c.kind = "session" => now <= c.expires /\ now <= c.last + sessionIdle

----------------------------------------------------------------------------
(* The limiters                                                            *)

NoFailure == [count |-> 0, last |-> 0, until |-> 0]
Waiting(k) == failures[k].until > now

\* Mutant: the doubling is not stopped.
WaitUncapped(k, count) == base * 2 ^ (count - free[k])

\* The loop of fail, after i rounds.
Doubled[i \in Nat] ==
    IF i = 0 THEN base ELSE IF Doubled[i - 1] < max THEN 2 * Doubled[i - 1] ELSE Doubled[i - 1]

\* How long the count-th failure makes a key wait.
Wait(k, count) == IF Doubled[count - free[k]] > max THEN max ELSE Doubled[count - free[k]]

\* The limiter drops an entry nobody has touched for long, but looks only now and then.
Swept(k) == lastSweep[k] + sweepEvery <= now /\ now - failures[k].last > forget

\* One failure more for a key: what was long ago does not count.
Failed(k) ==
    LET old == IF failures[k] = NoFailure \/ Swept(k) \/ now - failures[k].last > forget
               THEN NoFailure ELSE failures[k]
        count == old.count + 1
    IN  [count |-> count, last |-> now,
         until |-> IF count >= free[k] THEN now + Wait(k, count) ELSE old.until]

\* Mutant: only the limiter of the address is asked.
throttledByAddress(n) == Waiting(address)
throttled(n) == Waiting(pairKey(n)) \/ Waiting(address)

\* guessGuard.failed records the failure for the key of the account and for the address; each
\* limiter sweeps all its keys.
failed(n) ==
    LET Next(k) == IF k \in {pairKey(n), address} THEN Failed(k) ELSE IF Swept(k) THEN NoFailure ELSE failures[k]
    IN  /\ failures' = [k \in Key |-> Next(k)]
        /\ lastSweep' = [k \in Key |-> IF lastSweep[k] + sweepEvery <= now THEN now ELSE lastSweep[k]]
        /\ owed' = [k \in Key |-> IF k \in {pairKey(n), address} /\ owed[k] < Next(k).until
                                  THEN Next(k).until ELSE owed[k]]
        /\ late' = [k \in Key |-> IF k \notin {pairKey(n), address} THEN late[k]
                                  ELSE IF owed[k] > now THEN late[k] + 1 ELSE 0]

\* Mutant: the address is forgiven, too.
succeededForAll(n) ==
    /\ failures' = [k \in Key |-> IF k \in {pairKey(n), address} THEN NoFailure ELSE failures[k]]
    /\ owed' = [owed EXCEPT ![pairKey(n)] = 0]
    /\ UNCHANGED <<lastSweep, late>>

\* The key of the account is forgiven, and with it every account of that key, not the address.
succeeded(n) ==
    /\ failures' = [failures EXCEPT ![pairKey(n)] = NoFailure]
    /\ owed' = [owed EXCEPT ![pairKey(n)] = 0]
    /\ UNCHANGED <<lastSweep, late>>

----------------------------------------------------------------------------
(* Passwords: handleLogin, and authn with a Basic credential               *)

NoRequest == [at |-> "none"]
Done(r) == request' = [request EXCEPT ![r] = NoRequest]
Goto(r, at) == request' = [request EXCEPT ![r].at = at]

Arrives(r, q) ==
    /\ request[r].at = "none"
    /\ requests < MaxRequests
    /\ requests' = requests + 1
    /\ request' = [request EXCEPT ![r] = q]

\* want: "login", or what the request does once it is authenticated.
PresentPassword(r, n, pw, want) ==
    /\ Arrives(r, IF throttled(n) THEN NoRequest
                  ELSE [at |-> "password", user |-> n, password |-> pw, want |-> want, cred |-> 0,
                        after |-> off[n]])
    /\ UNCHANGED <<stores, limits, now, minted, ghosts, crashes>>

\* Get and VerifyPassword; the record read is what a rehash writes back.
CheckPassword(r) ==
    LET q == request[r]
        a == accounts[q.user]
        matches == Active(q.user) /\ a.password = q.password
    IN  /\ q.at = "password"
        /\ request' = [request EXCEPT ![r] =
                          IF ~matches THEN [q EXCEPT !.at = "failed"]
                          ELSE IF a.current THEN [q EXCEPT !.at = "verified"]
                          ELSE [at |-> "rehash", user |-> q.user, want |-> q.want, cred |-> 0,
                                after |-> q.after, read |-> a]]
        /\ UNCHANGED <<stores, limits, now, minted, ghosts, bounds>>

\* Mutant: Update does not look whether the account is still there.
UpdateBlindly(n, a) == accounts' = [accounts EXCEPT ![n] = a]
\* Update writes the whole record over the file, if there is one.
Update(n, a) == accounts' = IF Exists(n) THEN [accounts EXCEPT ![n] = a] ELSE accounts
Clobbers(n, read) == clobbered' = [clobbered EXCEPT ![n] = @ \/ (Exists(n) /\ accounts[n] # read)]

Rehash(r) ==
    LET q == request[r]
    IN  /\ q.at = "rehash"
        /\ Update(q.user, [q.read EXCEPT !.current = TRUE])
        /\ Clobbers(q.user, q.read)
        /\ request' = [request EXCEPT ![r] = [at |-> "verified", user |-> q.user, want |-> q.want,
                                              cred |-> 0, after |-> q.after]]
        /\ UNCHANGED <<creds, limits, now, minted, revoked, off, bounds>>

Put(c) ==
    /\ minted < MaxCred
    /\ minted' = minted + 1
    /\ creds' = [creds EXCEPT ![minted + 1] = c]

\* A login has its session before the guard hears of the success.
PutSession(r) ==
    /\ request[r].at = "verified" /\ request[r].want = "login"
    /\ Put(Session(request[r].user))
    /\ Goto(r, "counted")
    /\ UNCHANGED <<accounts, limits, now, ghosts, bounds>>

Succeed(r) ==
    LET q == request[r]
    IN  /\ \/ q.at = "counted" /\ Done(r)
           \/ q.at = "verified" /\ q.want # "login" /\ Goto(r, "authenticated")
        /\ succeeded(q.user)
        /\ UNCHANGED <<stores, now, minted, ghosts, bounds>>

FailPassword(r) ==
    /\ request[r].at = "failed"
    /\ failed(request[r].user)
    /\ Done(r)
    /\ UNCHANGED <<stores, now, minted, ghosts, bounds>>

----------------------------------------------------------------------------
(* Bearer credentials                                                      *)

\* GetBySecretHash and valid.
PresentBearer(r, c, want) ==
    /\ creds[c] # NoCred
    /\ Arrives(r, IF ~valid(creds[c]) THEN NoRequest
                  ELSE [at |-> "subject", user |-> creds[c].subject, want |-> want, cred |-> c,
                        time |-> now, after |-> off[creds[c].subject]])
    /\ UNCHANGED <<stores, limits, now, minted, ghosts, crashes>>

\* Mutant: whose credential it is is not looked up.
CheckSubjectNever(r) ==
    /\ request[r].at = "subject"
    /\ Goto(r, "touch")
    /\ UNCHANGED <<stores, limits, now, minted, ghosts, bounds>>

CheckSubject(r) ==
    /\ request[r].at = "subject"
    /\ IF Active(request[r].user) THEN Goto(r, "touch") ELSE Done(r)
    /\ UNCHANGED <<stores, limits, now, minted, ghosts, bounds>>

Authenticated(r) ==
    LET q == request[r]
    IN  request' = [request EXCEPT ![r] = [at |-> "authenticated", user |-> q.user, want |-> q.want,
                                           cred |-> q.cred, after |-> q.after]]

\* Mutant: the credential is written back as it was presented.
TouchBlindly(r) ==
    LET q == request[r]
    IN  /\ q.at = "touch"
        /\ creds' = [creds EXCEPT ![q.cred] = Session(q.user)]
        /\ Authenticated(r)
        /\ UNCHANGED <<accounts, limits, now, minted, ghosts, bounds>>

\* Touch reads and writes the file under one lock, and its error is ignored.  The time is
\* the one the request was checked with.
Touch(r) ==
    LET q == request[r]
    IN  /\ q.at = "touch"
        /\ creds' = IF creds[q.cred].kind = "session" THEN [creds EXCEPT ![q.cred].last = q.time] ELSE creds
        /\ Authenticated(r)
        /\ UNCHANGED <<accounts, limits, now, minted, ghosts, bounds>>

----------------------------------------------------------------------------
(* What an authenticated request does                                      *)

Revoke(cs) ==
    /\ creds' = [c \in Cred |-> IF c \in cs THEN NoCred ELSE creds[c]]
    /\ revoked' = revoked \cup {c \in cs : creds[c] # NoCred}

\* A request with a password cannot log out: what it names is the session it came with.
Logout(r) ==
    LET q == request[r]
    IN  /\ q.at = "authenticated" /\ q.want = "logout"
        /\ Revoke({q.cred})
        /\ Done(r)
        /\ UNCHANGED <<accounts, limits, now, minted, off, clobbered, bounds>>

CreateToken(r) ==
    /\ request[r].at = "authenticated" /\ request[r].want = "createToken"
    /\ Put(Token(request[r].user))
    /\ Done(r)
    /\ UNCHANGED <<accounts, limits, now, ghosts, bounds>>

\* The id of a session will do, as long as it is the caller's own.
RevokeToken(r, c) ==
    LET q == request[r]
    IN  /\ q.at = "authenticated" /\ q.want = "revokeToken"
        /\ IF creds[c] # NoCred /\ creds[c].subject = q.user THEN Revoke({c}) ELSE UNCHANGED <<creds, revoked>>
        /\ Done(r)
        /\ UNCHANGED <<accounts, limits, now, minted, off, clobbered, bounds>>

\* A user changes the own password, or an administrator anybody's.
GetForPassword(r, pw) ==
    LET q == request[r]
    IN  /\ q.at = "authenticated" /\ q.want = "setPassword"
        /\ request' = [request EXCEPT ![r] =
                          IF ~Exists(q.user) THEN NoRequest
                          ELSE [at |-> "setPassword", user |-> q.user, password |-> pw, read |-> accounts[q.user],
                                after |-> q.after]]
        /\ UNCHANGED <<stores, limits, now, minted, ghosts, bounds>>

SetPassword(r) ==
    LET q == request[r]
    IN  /\ q.at = "setPassword"
        /\ Update(q.user, [q.read EXCEPT !.password = q.password, !.current = TRUE])
        /\ Clobbers(q.user, q.read)
        /\ Done(r)
        /\ UNCHANGED <<creds, limits, now, minted, revoked, off, bounds>>

----------------------------------------------------------------------------
(* Administration                                                          *)

CreateAccount(r, n, pw) ==
    /\ request[r].at = "none"
    /\ requests < MaxRequests
    /\ requests' = requests + 1
    /\ \/ Exists(n) /\ UNCHANGED <<accounts, off, clobbered, request>>
       \/ /\ ~Exists(n)
          /\ accounts' = [accounts EXCEPT ![n] = Account("active", pw, TRUE)]
          /\ off' = [off EXCEPT ![n] = FALSE]
          /\ clobbered' = [clobbered EXCEPT ![n] = FALSE]
          /\ request' = [q \in Request |-> IF request[q].at # "none" /\ request[q].user = n
                                           THEN [request[q] EXCEPT !.after = FALSE] ELSE request[q]]
    /\ UNCHANGED <<creds, limits, now, minted, revoked, crashes>>

\* DisableAccount, DeleteAccount and an administrator's ChangePassword begin with Get.
Administer(r, n, what) ==
    /\ Arrives(r, IF ~Exists(n) THEN NoRequest
                  ELSE IF what = "setPassword"
                  THEN [at |-> "authenticated", user |-> n, want |-> what, cred |-> 0, after |-> FALSE]
                  ELSE [at |-> what, user |-> n, read |-> accounts[n], after |-> FALSE])
    /\ UNCHANGED <<stores, limits, now, minted, ghosts, crashes>>

DisableUpdate(r) ==
    LET q == request[r]
    IN  /\ q.at = "disable"
        /\ Update(q.user, [q.read EXCEPT !.state = "disabled"])
        /\ Clobbers(q.user, q.read)
        /\ request' = [request EXCEPT ![r] =
                          IF Exists(q.user) THEN [at |-> "revokeAll", user |-> q.user, after |-> FALSE] ELSE NoRequest]
        /\ UNCHANGED <<creds, limits, now, minted, revoked, off, bounds>>

Of(n) == {c \in Cred : creds[c] # NoCred /\ creds[c].subject = n}

DisableRevoke(r) ==
    LET q == request[r]
    IN  /\ q.at = "revokeAll"
        /\ Revoke(Of(q.user))
        /\ off' = [off EXCEPT ![q.user] = @ \/ accounts[q.user].state = "disabled"]
        /\ Done(r)
        /\ UNCHANGED <<accounts, limits, now, minted, clobbered, bounds>>

DeleteRevoke(r) ==
    LET q == request[r]
    IN  /\ q.at = "delete"
        /\ Revoke(Of(q.user))
        /\ request' = [request EXCEPT ![r] = [at |-> "remove", user |-> q.user, after |-> FALSE]]
        /\ UNCHANGED <<accounts, limits, now, minted, off, clobbered, bounds>>

Delete(r) ==
    LET q == request[r]
    IN  /\ q.at = "remove"
        /\ accounts' = [accounts EXCEPT ![q.user] = NoAccount]
        /\ off' = [off EXCEPT ![q.user] = TRUE]
        /\ Done(r)
        /\ UNCHANGED <<creds, limits, now, minted, revoked, clobbered, bounds>>

----------------------------------------------------------------------------
(* Time and restarts                                                       *)

Tick ==
    /\ now < MaxTime
    /\ now' = now + 1
    /\ UNCHANGED <<stores, limits, request, minted, ghosts, bounds>>

\* A restart forgives everyone.  A removal that was under way may have got anywhere.
Crash ==
    /\ crashes < MaxCrashes
    /\ crashes' = crashes + 1
    /\ request' = [r \in Request |-> NoRequest]
    /\ failures' = [k \in Key |-> NoFailure]
    /\ lastSweep' = [k \in Key |-> 0]
    /\ owed' = [k \in Key |-> 0]
    /\ late' = [k \in Key |-> 0]
    /\ \E cs \in SUBSET UNION {Of(request[r].user) : r \in {q \in Request : request[q].at \in {"revokeAll", "delete"}}} :
          Revoke(cs)
    /\ UNCHANGED <<accounts, now, minted, off, clobbered, requests>>

----------------------------------------------------------------------------

\* Everybody has an account, with a hash old or new.
Init ==
    /\ accounts \in [User -> {Account("active", pw, c) : pw \in Password, c \in BOOLEAN}]
    /\ creds = [c \in Cred |-> NoCred]
    /\ failures = [k \in Key |-> NoFailure] /\ lastSweep = [k \in Key |-> 0]
    /\ request = [r \in Request |-> NoRequest]
    /\ now = 0 /\ minted = 0
    /\ revoked = {}
    /\ off = [n \in User |-> FALSE]
    /\ clobbered = [n \in User |-> FALSE]
    /\ owed = [k \in Key |-> 0] /\ late = [k \in Key |-> 0]
    /\ requests = 0 /\ crashes = 0

Wants == {"logout", "createToken", "revokeToken", "setPassword"}

Next ==
    \/ \E r \in Request :
          \/ \E n \in User, pw \in Password, want \in (Wants \ {"logout"}) \cup {"login"} : PresentPassword(r, n, pw, want)
          \/ CheckPassword(r) \/ Rehash(r) \/ PutSession(r) \/ Succeed(r) \/ FailPassword(r)
          \/ \E c \in Cred, want \in Wants : PresentBearer(r, c, want)
          \/ CheckSubject(r) \/ Touch(r)
          \/ Logout(r) \/ CreateToken(r)
          \/ \E c \in Cred : RevokeToken(r, c)
          \/ \E pw \in Password : GetForPassword(r, pw)
          \/ SetPassword(r)
          \/ \E n \in User, pw \in Password : CreateAccount(r, n, pw)
          \/ \E n \in User, what \in {"disable", "delete", "setPassword"} : Administer(r, n, what)
          \/ DisableUpdate(r) \/ DisableRevoke(r) \/ DeleteRevoke(r) \/ Delete(r)
    \/ Tick
    \/ Crash

Spec == Init /\ [][Next]_vars

----------------------------------------------------------------------------
(* Properties                                                              *)

\* Every variable has its type, and no wait is longer than the limiter's max
\* (failureLimiter.fail).
TypeOK ==
    /\ \A n \in User : accounts[n] = NoAccount \/ accounts[n].state \in {"active", "disabled"}
    /\ \A c \in Cred : creds[c] = NoCred \/ (c <= minted /\ creds[c].subject \in User)
    /\ \A k \in Key : failures[k].last <= now /\ failures[k].until <= failures[k].last + max
    /\ now \in 0..MaxTime /\ minted \in 0..MaxCred

\* A credential that was revoked - by a logout, by its owner, with its account - never
\* authenticates again: no request that had read it before puts it back (Touch against
\* RevokeByID, DeleteBySecretHash and RevokeAllForSubject).
RevokedStaysRevoked == \A c \in revoked : creds[c] = NoCred

\* Once DisableAccount or DeleteAccount has returned, no request that arrives later gets
\* through, neither with the password nor with a credential that a request under way minted
\* after the sweep (accountBasicSource, accountBearerSource).  Left out are accounts a lost
\* update has brought back: ChangePassword and the rehash of a login write the whole record
\* they read before.
DisableHolds ==
    \A r \in Request : (request[r].at \in {"rehash", "verified", "counted", "touch", "authenticated", "setPassword"}
                        /\ request[r].after) => clobbered[request[r].user]

\* An account that was deleted is not there again unless it is created: no request that
\* read it before writes it back (Update against Delete).
DeletedNotRevived ==
    \A n \in User : (off[n] /\ ~clobbered[n]) => ~Active(n)

\* A wait once imposed is served: the key is refused until the wait is over, the server
\* restarts, or an account of that very key signs in, one whose name differs in case only
\* included.  No failure, sweep or success of another key ends or shortens it, although
\* requests that passed the check before it began go on (failureLimiter.wait, fail and
\* sweep; guessGuard.succeeded).
WaitServed == \A k \in Key : owed[k] > now => Waiting(k)

\* While a key waits, only the requests that were past the check when the wait began are
\* still counted: guessing cannot go on behind the limiter (guessGuard.throttled).
ThrottleHolds == \A k \in Key : late[k] < Cardinality(Request)
=============================================================================
