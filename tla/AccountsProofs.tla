--------------------------- MODULE AccountsProofs ---------------------------
(***************************************************************************)
(* Proofs about Accounts, for every set of accounts, passwords and         *)
(* requests under way, and for every length of the waits.                  *)
(***************************************************************************)
EXTENDS CommitGraphProofs, Accounts

USE AccountsAssumption

----------------------------------------------------------------------------
(* The inductive invariant                                                 *)

AccountRecord == [state : {"active", "disabled"}, password : Password, current : BOOLEAN]

CredRecord ==
    [kind : {"session"}, subject : User, expires : Nat, last : Nat] \cup [kind : {"token"}, subject : User]

FailureRecord == [count : Nat, last : Nat, until : Int]

At == {"none", "password", "failed", "rehash", "verified", "counted", "subject", "touch",
       "authenticated", "setPassword", "disable", "delete", "revokeAll", "remove"}

\* What a request carries from one call of a store to the next.
Shape(q) ==
    /\ "at" \in DOMAIN q /\ q.at \in At
    /\ q.at # "none" =>
          /\ {"user", "after"} \subseteq DOMAIN q
          /\ q.user \in User /\ q.after \in BOOLEAN
    /\ q.at \in {"password", "failed", "rehash", "verified", "counted", "subject", "touch", "authenticated"} =>
          /\ {"want", "cred"} \subseteq DOMAIN q
          /\ q.want = "logout" => q.cred \in Cred
    /\ q.at \in {"password", "rehash"} => q.want # "logout"
    /\ q.at \in {"rehash", "setPassword", "disable"} => "read" \in DOMAIN q /\ q.read \in AccountRecord
    /\ q.at = "setPassword" => "password" \in DOMAIN q /\ q.password \in Password
    /\ q.at \in {"subject", "touch"} => "time" \in DOMAIN q /\ q.time \in Nat

StoresTyped ==
    /\ accounts \in [User -> AccountRecord \cup {NoAccount}]
    /\ creds \in [Cred -> CredRecord \cup {NoCred}]
    /\ \A c \in Cred : creds[c] # NoCred => c <= minted
    /\ minted \in 0..MaxCred
    /\ now \in 0..MaxTime
    /\ off \in [User -> BOOLEAN] /\ clobbered \in [User -> BOOLEAN]

RequestsTyped == DOMAIN request = Request /\ \A r \in Request : Shape(request[r])

\* A key below its free failures waits for nothing; the others wait from their last failure
\* on as long as the count says.
FailureOK(k, f) ==
    /\ f \in FailureRecord
    /\ f.last <= now
    /\ f.count < free[k] => f.until = 0
    /\ f.count >= free[k] => f.until <= f.last + Wait(k, f.count)

LimitsTyped ==
    /\ DOMAIN failures = Key /\ DOMAIN owed = Key /\ DOMAIN late = Key /\ DOMAIN lastSweep = Key
    /\ \A k \in Key : FailureOK(k, failures[k]) /\ owed[k] \in Int /\ late[k] \in Nat /\ lastSweep[k] \in Nat

\* A wait that is owed is in the limiter.
WaitKept == \A k \in Key : owed[k] > now => owed[k] <= failures[k].until

\* A request under way that came after its account was disabled or deleted finds it
\* inactive in the accounts as, unless an update was lost (cs); it got no further than the
\* check of the account unless one was.
OffOK(q, as, cs) ==
    /\ q.at # "none" /\ q.after => as[q.user].state # "active" \/ cs[q.user]
    /\ q.at \in {"rehash", "verified", "counted", "touch", "authenticated", "setPassword"} /\ q.after =>
          cs[q.user]

\* Only credentials given out are revoked.
RevokedMinted == revoked \subseteq 1..minted

\* The requests that were let past the limiter of a key and are not yet judged.
Past(k) ==
    {r \in Request : request[r].at \in {"password", "failed"} /\ (k = address \/ pairKey(request[r].user) = k)}

\* While a key waits, the failures counted and those that may still come leave one request
\* out: the one whose failure began the wait.
ThrottleCounts ==
    \A k \in Key : owed[k] > now => late[k] + Cardinality(Past(k)) < Cardinality(Request)

TypesInv == StoresTyped /\ RequestsTyped /\ LimitsTyped
RevokedInv == RevokedMinted /\ RevokedStaysRevoked
OffInv == DeletedNotRevived /\ \A r \in Request : OffOK(request[r], accounts, clobbered)
ThrottleInv == ThrottleCounts /\ ThrottleHolds

----------------------------------------------------------------------------
(* The limiters                                                            *)

\* The loop of failureLimiter.fail never makes the wait shorter.
LEMMA DoubledGrows ==
    /\ Doubled \in [Nat -> Nat]
    /\ \A i \in Nat : Doubled[i] <= Doubled[i + 1]
<1> DEFINE F == [d \in Nat |-> IF d < max THEN 2 * d ELSE d]
<1>1. F \in [Nat -> Nat] /\ base \in Nat
  OBVIOUS
<1>F. \A d \in Nat : F[d] = IF d < max THEN 2 * d ELSE d
  OBVIOUS
<1> HIDE DEF F
<1>it. PICK w : Iterates(w, F, Nat, base)
  BY <1>1, IterationExists
<1>2. w \in [Nat -> Nat] /\ w[0] = base /\ \A i \in Nat : w[i + 1] = F[w[i]]
  BY <1>it DEF Iterates
<1> DEFINE Rounds(g) == [i \in Nat |-> IF i = 0 THEN base
                                       ELSE IF g[i - 1] < max THEN 2 * g[i - 1] ELSE g[i - 1]]
<1>3. w = Rounds(w)
  <2>1. ASSUME NEW i \in Nat, i # 0 PROVE w[i] = F[w[i - 1]] /\ w[i - 1] \in Nat
    <3>1. i - 1 \in Nat /\ i = (i - 1) + 1
      BY <2>1
    <3> QED BY <3>1, <1>2
  <2>2. \A i \in Nat : w[i] = Rounds(w)[i]
    BY <1>F, <1>2, <2>1
  <2> QED BY <1>2, <2>2
<1>4. Doubled = Rounds(Doubled)
  BY <1>3 DEF Doubled
<1>5. \A i \in Nat : Doubled[i] \in Nat
  <2> DEFINE T == {i \in Nat : Doubled[i] \in Nat}
  <2>1. 0 \in T
    BY <1>4
  <2>2. ASSUME NEW i \in Nat, i \in T PROVE i + 1 \in T
    BY <1>4, <2>2
  <2> HIDE DEF T
  <2>3. \A i \in Nat : i \in T
    BY <2>1, <2>2, SetInduction
  <2> QED BY <2>3 DEF T
<1>6. ASSUME NEW i \in Nat PROVE Doubled[i] <= Doubled[i + 1]
  <2>1. Doubled[i + 1] = IF Doubled[i] < max THEN 2 * Doubled[i] ELSE Doubled[i]
    BY <1>4
  <2>2. Doubled[i] \in Nat
    BY <1>5
  <2> QED BY <2>1, <2>2
<1>7. Doubled \in [Nat -> Nat]
  BY <1>4, <1>5
<1> QED BY <1>6, <1>7

\* A wait is at most max, and no shorter after one failure more.
LEMMA WaitGrows ==
    ASSUME NEW k \in Key, NEW c \in Nat, c >= free[k]
    PROVE  /\ Wait(k, c) \in Nat
           /\ Wait(k, c) <= max
           /\ Wait(k, c) <= Wait(k, c + 1)
<1>1. free[k] \in Nat
  OBVIOUS
<1>2. c - free[k] \in Nat /\ (c + 1) - free[k] = (c - free[k]) + 1
  BY <1>1
<1>3. Doubled[c - free[k]] \in Nat /\ Doubled[(c - free[k]) + 1] \in Nat
      /\ Doubled[c - free[k]] <= Doubled[(c - free[k]) + 1]
  BY <1>2, DoubledGrows
<1> QED BY <1>2, <1>3 DEF Wait

\* An entry's wait ends at most max after its last failure.
LEMMA UntilBounded ==
    ASSUME NEW k \in Key, NEW f, FailureOK(k, f), now \in Nat
    PROVE  f.until <= f.last + max
<1>1. f.count \in Nat /\ f.last \in Nat /\ f.until \in Int /\ free[k] \in Nat
  BY DEF FailureOK, FailureRecord
<1>2. CASE f.count < free[k]
  BY <1>1, <1>2 DEF FailureOK
<1>3. CASE f.count >= free[k]
  BY <1>1, <1>3, WaitGrows DEF FailureOK
<1> QED BY <1>1, <1>2, <1>3

\* Nothing is owed by a key without failures.
LEMMA NoFailureOK ==
    ASSUME NEW k \in Key, now \in Nat
    PROVE  FailureOK(k, NoFailure)
<1>1. NoFailure \in FailureRecord /\ free[k] \in Nat \ {0}
  BY DEF NoFailure, FailureRecord
<1> QED BY <1>1 DEF FailureOK, NoFailure

\* Recording a failure keeps an entry in order, and makes no wait that is under way end
\* earlier: the entry can be neither swept nor forgotten before.
LEMMA FailedOK ==
    ASSUME NEW k \in Key, now \in Nat, FailureOK(k, failures[k]), lastSweep[k] \in Nat
    PROVE  /\ FailureOK(k, Failed(k))
           /\ failures[k].until > now => failures[k].until <= Failed(k).until
<1> DEFINE forgotten == failures[k] = NoFailure \/ Swept(k) \/ now - failures[k].last > forget
           old == IF forgotten THEN NoFailure ELSE failures[k]
           count == old.count + 1
           until == IF count >= free[k] THEN now + Wait(k, count) ELSE old.until
<1>1. FailureOK(k, old)
  BY NoFailureOK
<1>2. Failed(k) = [count |-> count, last |-> now, until |-> until]
  BY DEF Failed
<1>3. old.count \in Nat /\ old.last \in Nat /\ old.until \in Int /\ free[k] \in Nat \ {0} /\ old.last <= now
  BY <1>1 DEF FailureOK, FailureRecord
<1>4. count \in Nat /\ count >= free[k] => Wait(k, count) \in Nat
  BY <1>3, WaitGrows
<1>5. FailureOK(k, Failed(k))
  <2> HIDE DEF old
  <2>1. until \in Int
    BY <1>3, <1>4
  <2>2. Failed(k) \in FailureRecord
    BY <1>2, <1>3, <2>1 DEF FailureRecord
  <2>3. count < free[k] => old.until = 0
    BY <1>1, <1>3 DEF FailureOK
  <2> QED BY <1>2, <1>3, <1>4, <2>2, <2>3 DEF FailureOK
<1>6. ASSUME failures[k].until > now PROVE failures[k].until <= Failed(k).until
  <2>1. /\ failures[k].count \in Nat /\ failures[k].last \in Nat /\ failures[k].until \in Int
        /\ failures[k].last <= now /\ failures[k].until <= failures[k].last + max
    BY UntilBounded DEF FailureOK, FailureRecord
  <2>2. ~forgotten
    BY <1>6, <2>1 DEF NoFailure, Swept
  <2>3. old = failures[k]
    BY <2>2
  <2>4. old.count >= free[k]
    BY <1>6, <2>1, <2>3, <1>3 DEF FailureOK
  <2>5. old.until <= old.last + Wait(k, old.count)
    BY <1>1, <2>4 DEF FailureOK
  <2>6. Wait(k, old.count) \in Nat /\ Wait(k, count) \in Nat /\ Wait(k, old.count) <= Wait(k, count)
    BY <1>3, <2>4, WaitGrows
  <2>7. Failed(k).until = now + Wait(k, count)
    BY <1>2, <1>3, <2>4
  <2> HIDE DEF old
  <2> QED BY <1>3, <2>3, <2>5, <2>6, <2>7
<1> QED BY <1>5, <1>6

----------------------------------------------------------------------------
(* What requests carry                                                     *)

\* A request moves on with what it carries.
LEMMA ShapeMoves ==
    ASSUME NEW q, Shape(q)
    PROVE  /\ q.at \in {"password", "verified"} =>
                 \A l \in {"failed", "verified", "counted", "authenticated"} : Shape([q EXCEPT !.at = l])
           /\ q.at = "subject" => Shape([q EXCEPT !.at = "touch"])
           /\ q.at # "none" => Shape([q EXCEPT !.after = FALSE])
<1>1. ASSUME q.at \in {"password", "verified"}, NEW l \in {"failed", "verified", "counted", "authenticated"}
      PROVE  Shape([q EXCEPT !.at = l])
  <2> DEFINE x == [q EXCEPT !.at = l]
  <2>1. {"at", "user", "after", "want", "cred"} \subseteq DOMAIN q
    BY <1>1 DEF Shape
  <2>2. DOMAIN x = DOMAIN q /\ x.at = l /\ x.user = q.user /\ x.after = q.after
        /\ x.want = q.want /\ x.cred = q.cred
    BY <2>1
  <2> HIDE DEF x
  <2>3. Shape(x)
    BY <1>1, <2>1, <2>2 DEF Shape, At
  <2> QED BY <2>3 DEF x
<1>2. ASSUME q.at = "subject" PROVE Shape([q EXCEPT !.at = "touch"])
  <2> DEFINE x == [q EXCEPT !.at = "touch"]
  <2>1. {"at", "user", "after", "want", "cred", "time"} \subseteq DOMAIN q
    BY <1>2 DEF Shape
  <2>2. DOMAIN x = DOMAIN q /\ x.at = "touch" /\ x.user = q.user /\ x.after = q.after
        /\ x.want = q.want /\ x.cred = q.cred /\ x.time = q.time
    BY <2>1
  <2> HIDE DEF x
  <2>3. Shape(x)
    BY <1>2, <2>1, <2>2 DEF Shape, At
  <2> QED BY <2>3 DEF x
<1>3. ASSUME q.at # "none" PROVE Shape([q EXCEPT !.after = FALSE])
  <2> DEFINE x == [q EXCEPT !.after = FALSE]
  <2>1. {"at", "user", "after"} \subseteq DOMAIN q
    BY <1>3 DEF Shape
  <2>2. DOMAIN x = DOMAIN q /\ x.after = FALSE /\ \A f \in DOMAIN q : f # "after" => x[f] = q[f]
    BY <2>1
  <2>3. x.at = q.at /\ x.user = q.user /\ ("want" \in DOMAIN q => x.want = q.want)
        /\ ("cred" \in DOMAIN q => x.cred = q.cred) /\ ("read" \in DOMAIN q => x.read = q.read)
        /\ ("time" \in DOMAIN q => x.time = q.time) /\ ("password" \in DOMAIN q => x.password = q.password)
    BY <2>1, <2>2
  <2> HIDE DEF x
  <2>4. Shape(x)
    BY <1>3, <2>1, <2>2, <2>3 DEF Shape
  <2> QED BY <2>4 DEF x
<1> QED BY <1>1, <1>2, <1>3

\* One request moves on, the others stay.
LEMMA OneRequest ==
    ASSUME RequestsTyped, NEW r \in Request, NEW x, Shape(x), request' = [request EXCEPT ![r] = x]
    PROVE  RequestsTyped'
BY DEF RequestsTyped

\* A request that is answered carries nothing.
LEMMA DoneTyped ==
    ASSUME RequestsTyped, NEW r \in Request, Done(r)
    PROVE  RequestsTyped'
<1>1. Shape(NoRequest)
  BY DEF NoRequest, Shape, At
<1> QED BY <1>1, OneRequest DEF Done

\* Every step keeps the shape of the requests.
LEMMA RequestsStep == TypesInv /\ [Next]_vars => RequestsTyped'
<1> SUFFICES ASSUME TypesInv, [Next]_vars PROVE RequestsTyped'
  OBVIOUS
<1> USE DEF TypesInv
<1>none. Shape(NoRequest)
  BY DEF NoRequest, Shape, At
<1>q. \A r \in Request : Shape(request[r])
  BY DEF RequestsTyped
<1>0. CASE UNCHANGED vars
  BY <1>0 DEF vars, RequestsTyped
<1>1. ASSUME NEW r \in Request, NEW n \in User, NEW pw \in Password,
             NEW want \in (Wants \ {"logout"}) \cup {"login"}, PresentPassword(r, n, pw, want)
      PROVE  RequestsTyped'
  <2> DEFINE x == IF throttled(n) THEN NoRequest
                  ELSE [at |-> "password", user |-> n, password |-> pw, want |-> want, cred |-> 0,
                        after |-> off[n]]
  <2>1. Shape(x)
    BY <1>none DEF Shape, At, StoresTyped, Wants
  <2>2. request' = [request EXCEPT ![r] = x]
    BY <1>1 DEF PresentPassword, Arrives
  <2> HIDE DEF x
  <2> QED BY <2>1, <2>2, OneRequest
<1>2. ASSUME NEW r \in Request, CheckPassword(r) PROVE RequestsTyped'
  <2> DEFINE q == request[r]
             a == accounts[q.user]
             matches == Active(q.user) /\ a.password = q.password
             y == [at |-> "rehash", user |-> q.user, want |-> q.want, cred |-> 0, after |-> q.after, read |-> a]
             x == IF ~matches THEN [q EXCEPT !.at = "failed"]
                  ELSE IF a.current THEN [q EXCEPT !.at = "verified"] ELSE y
  <2>1. q.at = "password" /\ request' = [request EXCEPT ![r] = x]
    BY <1>2 DEF CheckPassword
  <2>2. Shape([q EXCEPT !.at = "failed"]) /\ Shape([q EXCEPT !.at = "verified"])
    BY <2>1, <1>q, ShapeMoves
  <2>3. matches => Shape(y)
    <3> SUFFICES ASSUME matches PROVE Shape(y)
      OBVIOUS
    <3>1. q.user \in User /\ q.after \in BOOLEAN /\ q.want # "logout"
      BY <2>1, <1>q DEF Shape
    <3>2. a \in AccountRecord
      BY <3>1 DEF StoresTyped, Active, NoAccount
    <3> QED BY <3>1, <3>2 DEF Shape, At
  <2>4. Shape(x)
    <3> HIDE DEF y, matches
    <3> QED BY <2>2, <2>3
  <2> HIDE DEF x
  <2> QED BY <2>1, <2>4, OneRequest
<1>3. ASSUME NEW r \in Request, Rehash(r) PROVE RequestsTyped'
  <2> DEFINE q == request[r]
             x == [at |-> "verified", user |-> q.user, want |-> q.want, cred |-> 0, after |-> q.after]
  <2>1. q.at = "rehash" /\ request' = [request EXCEPT ![r] = x]
    BY <1>3 DEF Rehash
  <2>2. Shape(x)
    BY <2>1, <1>q DEF Shape, At
  <2> HIDE DEF x
  <2> QED BY <2>1, <2>2, OneRequest
<1>4. ASSUME NEW r \in Request, PutSession(r) PROVE RequestsTyped'
  <2>1. request[r].at = "verified" /\ request' = [request EXCEPT ![r] = [request[r] EXCEPT !.at = "counted"]]
    BY <1>4 DEF PutSession, Goto
  <2>2. Shape([request[r] EXCEPT !.at = "counted"])
    BY <2>1, <1>q, ShapeMoves
  <2> QED BY <2>1, <2>2, OneRequest
<1>5. ASSUME NEW r \in Request, Succeed(r) PROVE RequestsTyped'
  <2>1. CASE Done(r)
    BY <2>1, DoneTyped
  <2>2. CASE request[r].at = "verified" /\ Goto(r, "authenticated")
    <3>1. request' = [request EXCEPT ![r] = [request[r] EXCEPT !.at = "authenticated"]]
      BY <2>2 DEF Goto
    <3>2. Shape([request[r] EXCEPT !.at = "authenticated"])
      BY <2>2, <1>q, ShapeMoves
    <3> QED BY <3>1, <3>2, OneRequest
  <2> QED BY <1>5, <2>1, <2>2 DEF Succeed
<1>6. ASSUME NEW r \in Request, FailPassword(r) PROVE RequestsTyped'
  BY <1>6, DoneTyped DEF FailPassword
<1>7. ASSUME NEW r \in Request, NEW c \in Cred, NEW want \in Wants, PresentBearer(r, c, want)
      PROVE  RequestsTyped'
  <2> DEFINE x == IF ~valid(creds[c]) THEN NoRequest
                  ELSE [at |-> "subject", user |-> creds[c].subject, want |-> want, cred |-> c,
                        time |-> now, after |-> off[creds[c].subject]]
  <2>1. creds[c] \in CredRecord /\ now \in Nat
    BY <1>7 DEF PresentBearer, StoresTyped
  <2>2. creds[c].subject \in User
    BY <2>1 DEF CredRecord
  <2>3. off[creds[c].subject] \in BOOLEAN
    BY <2>2 DEF StoresTyped
  <2>4. Shape(x)
    BY <1>none, <2>1, <2>2, <2>3 DEF Shape, At
  <2>5. request' = [request EXCEPT ![r] = x]
    BY <1>7 DEF PresentBearer, Arrives
  <2> HIDE DEF x
  <2> QED BY <2>4, <2>5, OneRequest
<1>8. ASSUME NEW r \in Request, CheckSubject(r) PROVE RequestsTyped'
  <2>1. CASE Done(r)
    BY <2>1, DoneTyped
  <2>2. CASE Goto(r, "touch")
    <3>1. request' = [request EXCEPT ![r] = [request[r] EXCEPT !.at = "touch"]]
      BY <2>2 DEF Goto
    <3>2. Shape([request[r] EXCEPT !.at = "touch"])
      BY <1>8, <1>q, ShapeMoves DEF CheckSubject
    <3> QED BY <3>1, <3>2, OneRequest
  <2> QED BY <1>8, <2>1, <2>2 DEF CheckSubject
<1>9. ASSUME NEW r \in Request, Touch(r) PROVE RequestsTyped'
  <2> DEFINE q == request[r]
             x == [at |-> "authenticated", user |-> q.user, want |-> q.want, cred |-> q.cred, after |-> q.after]
  <2>1. q.at = "touch" /\ request' = [request EXCEPT ![r] = x]
    BY <1>9 DEF Touch, Authenticated
  <2>2. Shape(x)
    BY <2>1, <1>q DEF Shape, At
  <2> HIDE DEF x
  <2> QED BY <2>1, <2>2, OneRequest
<1>10. ASSUME NEW r \in Request, Logout(r) PROVE RequestsTyped'
  BY <1>10, DoneTyped DEF Logout
<1>11. ASSUME NEW r \in Request, CreateToken(r) PROVE RequestsTyped'
  BY <1>11, DoneTyped DEF CreateToken
<1>12. ASSUME NEW r \in Request, NEW c \in Cred, RevokeToken(r, c) PROVE RequestsTyped'
  BY <1>12, DoneTyped DEF RevokeToken
<1>13. ASSUME NEW r \in Request, NEW pw \in Password, GetForPassword(r, pw) PROVE RequestsTyped'
  <2> DEFINE q == request[r]
             x == IF ~Exists(q.user) THEN NoRequest
                  ELSE [at |-> "setPassword", user |-> q.user, password |-> pw, read |-> accounts[q.user],
                        after |-> q.after]
  <2>1. q.at = "authenticated" /\ request' = [request EXCEPT ![r] = x]
    BY <1>13 DEF GetForPassword
  <2>2. q.user \in User /\ q.after \in BOOLEAN
    BY <2>1, <1>q DEF Shape
  <2>3. Exists(q.user) => accounts[q.user] \in AccountRecord
    BY <2>2 DEF Exists, StoresTyped
  <2>4. Shape(x)
    BY <1>none, <2>2, <2>3 DEF Shape, At
  <2> HIDE DEF x
  <2> QED BY <2>1, <2>4, OneRequest
<1>14. ASSUME NEW r \in Request, SetPassword(r) PROVE RequestsTyped'
  BY <1>14, DoneTyped DEF SetPassword
<1>15. ASSUME NEW r \in Request, NEW n \in User, NEW pw \in Password, CreateAccount(r, n, pw)
       PROVE  RequestsTyped'
  <2>1. CASE UNCHANGED request
    BY <2>1 DEF RequestsTyped
  <2>2. CASE request' = [q \in Request |-> IF request[q].at # "none" /\ request[q].user = n
                                           THEN [request[q] EXCEPT !.after = FALSE] ELSE request[q]]
    <3>1. ASSUME NEW q \in Request PROVE Shape(request'[q])
      BY <2>2, <1>q, ShapeMoves
    <3> QED BY <2>2, <3>1 DEF RequestsTyped
  <2> QED BY <1>15, <2>1, <2>2 DEF CreateAccount
<1>16. ASSUME NEW r \in Request, NEW n \in User, NEW what \in {"disable", "delete", "setPassword"},
              Administer(r, n, what)
       PROVE  RequestsTyped'
  <2> DEFINE y == [at |-> "authenticated", user |-> n, want |-> what, cred |-> 0, after |-> FALSE]
             z == [at |-> what, user |-> n, read |-> accounts[n], after |-> FALSE]
             x == IF ~Exists(n) THEN NoRequest ELSE IF what = "setPassword" THEN y ELSE z
  <2>1. request' = [request EXCEPT ![r] = x]
    BY <1>16 DEF Administer, Arrives
  <2>2. Shape(y)
    BY DEF Shape, At
  <2>3. Exists(n) => accounts[n] \in AccountRecord
    BY DEF Exists, StoresTyped
  <2>4. Exists(n) /\ what # "setPassword" => Shape(z)
    BY <2>3 DEF Shape, At
  <2> HIDE DEF y, z
  <2>5. Shape(x)
    BY <1>none, <2>2, <2>4
  <2> HIDE DEF x
  <2> QED BY <2>1, <2>5, OneRequest
<1>17. ASSUME NEW r \in Request, DisableUpdate(r) PROVE RequestsTyped'
  <2> DEFINE q == request[r]
             x == IF Exists(q.user) THEN [at |-> "revokeAll", user |-> q.user, after |-> FALSE] ELSE NoRequest
  <2>1. q.at = "disable" /\ request' = [request EXCEPT ![r] = x]
    BY <1>17 DEF DisableUpdate
  <2>2. Shape(x)
    BY <2>1, <1>q, <1>none DEF Shape, At
  <2> HIDE DEF x
  <2> QED BY <2>1, <2>2, OneRequest
<1>18. ASSUME NEW r \in Request, DisableRevoke(r) PROVE RequestsTyped'
  BY <1>18, DoneTyped DEF DisableRevoke
<1>19. ASSUME NEW r \in Request, DeleteRevoke(r) PROVE RequestsTyped'
  <2> DEFINE q == request[r]
             x == [at |-> "remove", user |-> q.user, after |-> FALSE]
  <2>1. q.at = "delete" /\ request' = [request EXCEPT ![r] = x]
    BY <1>19 DEF DeleteRevoke
  <2>2. Shape(x)
    BY <2>1, <1>q DEF Shape, At
  <2> HIDE DEF x
  <2> QED BY <2>1, <2>2, OneRequest
<1>20. ASSUME NEW r \in Request, Delete(r) PROVE RequestsTyped'
  BY <1>20, DoneTyped DEF Delete
<1>21. CASE Tick
  BY <1>21 DEF Tick, RequestsTyped
<1>22. CASE Crash
  BY <1>22, <1>none DEF Crash, RequestsTyped
<1> QED
  BY <1>0, <1>1, <1>2, <1>3, <1>4, <1>5, <1>6, <1>7, <1>8, <1>9, <1>10, <1>11, <1>12, <1>13,
     <1>14, <1>15, <1>16, <1>17, <1>18, <1>19, <1>20, <1>21, <1>22 DEF Next

----------------------------------------------------------------------------
(* The stores                                                              *)

AccountsTyped ==
    /\ accounts \in [User -> AccountRecord \cup {NoAccount}]
    /\ off \in [User -> BOOLEAN] /\ clobbered \in [User -> BOOLEAN]

CredsTyped ==
    /\ creds \in [Cred -> CredRecord \cup {NoCred}]
    /\ \A c \in Cred : creds[c] # NoCred => c <= minted
    /\ minted \in 0..MaxCred

\* Update writes a whole record, and an update that is lost is remembered.
LEMMA UpdateTyped ==
    ASSUME AccountsTyped, NEW n \in User, NEW a \in AccountRecord, NEW read,
           Update(n, a), Clobbers(n, read), UNCHANGED off
    PROVE  AccountsTyped'
BY DEF AccountsTyped, Update, Clobbers, Exists

\* A credential that is put is a new one.
LEMMA PutTyped ==
    ASSUME CredsTyped, NEW c \in CredRecord, Put(c)
    PROVE  CredsTyped'
<1>1. minted + 1 \in Cred /\ minted' = minted + 1 /\ creds' = [creds EXCEPT ![minted + 1] = c]
  BY DEF CredsTyped, Put, Cred
<1> QED BY <1>1 DEF CredsTyped, Cred

\* Revoking credentials leaves the others.
LEMMA RevokeTyped ==
    ASSUME CredsTyped, NEW cs, Revoke(cs), UNCHANGED minted
    PROVE  CredsTyped'
BY DEF CredsTyped, Revoke

\* Every step keeps accounts and credentials well formed.
LEMMA StoresStep == TypesInv /\ [Next]_vars => StoresTyped'
<1> SUFFICES ASSUME TypesInv, [Next]_vars PROVE StoresTyped'
  OBVIOUS
<1>a. AccountsTyped /\ CredsTyped /\ now \in 0..MaxTime
  BY DEF TypesInv, StoresTyped, AccountsTyped, CredsTyped
<1>q. \A r \in Request : Shape(request[r])
  BY DEF TypesInv, RequestsTyped
<1> SUFFICES AccountsTyped' /\ CredsTyped' /\ (now \in 0..MaxTime)'
  BY DEF StoresTyped, AccountsTyped, CredsTyped
<1> DEFINE Kept == UNCHANGED <<stores, now, minted, off, clobbered>>
<1>k. ASSUME Kept PROVE AccountsTyped' /\ CredsTyped' /\ (now \in 0..MaxTime)'
  BY <1>k, <1>a DEF AccountsTyped, CredsTyped, stores
<1>ac. ASSUME UNCHANGED <<accounts, off, clobbered>> PROVE AccountsTyped'
  BY <1>ac, <1>a DEF AccountsTyped
<1>cr. ASSUME UNCHANGED <<creds, minted>> PROVE CredsTyped'
  BY <1>cr, <1>a DEF CredsTyped
<1>0. CASE UNCHANGED vars
  BY <1>0, <1>k DEF vars, ghosts
<1>1. ASSUME NEW r \in Request, NEW n \in User, NEW pw \in Password,
             NEW want \in (Wants \ {"logout"}) \cup {"login"}, PresentPassword(r, n, pw, want)
      PROVE  Kept
  BY <1>1 DEF PresentPassword, ghosts, stores
<1>2. ASSUME NEW r \in Request, CheckPassword(r) PROVE Kept
  BY <1>2 DEF CheckPassword, ghosts, stores
<1>3. ASSUME NEW r \in Request, Rehash(r) PROVE AccountsTyped' /\ CredsTyped' /\ (now \in 0..MaxTime)'
  <2> DEFINE q == request[r]
  <2>1. q.at = "rehash" /\ q.user \in User /\ q.read \in AccountRecord
    BY <1>3, <1>q DEF Rehash, Shape
  <2>2. [q.read EXCEPT !.current = TRUE] \in AccountRecord
    BY <2>1 DEF AccountRecord
  <2>3. AccountsTyped'
    BY <1>3, <1>a, <2>1, <2>2, UpdateTyped DEF Rehash
  <2> QED BY <1>3, <1>a, <1>cr, <2>3 DEF Rehash
<1>4. ASSUME NEW r \in Request, PutSession(r) PROVE AccountsTyped' /\ CredsTyped' /\ (now \in 0..MaxTime)'
  <2> DEFINE c == Session(request[r].user)
  <2>1. request[r].user \in User
    BY <1>4, <1>q DEF PutSession, Shape
  <2>2. c \in CredRecord
    BY <1>a, <2>1 DEF Session, CredRecord
  <2>3. Put(c) /\ UNCHANGED <<accounts, off, clobbered, now>>
    BY <1>4 DEF PutSession, ghosts
  <2> HIDE DEF c
  <2>4. CredsTyped'
    BY <1>a, <2>2, <2>3, PutTyped
  <2> QED BY <1>a, <1>ac, <2>3, <2>4
<1>5. ASSUME NEW r \in Request, Succeed(r) PROVE Kept
  BY <1>5 DEF Succeed, ghosts, stores
<1>6. ASSUME NEW r \in Request, FailPassword(r) PROVE Kept
  BY <1>6 DEF FailPassword, ghosts, stores
<1>7. ASSUME NEW r \in Request, NEW c \in Cred, NEW want \in Wants, PresentBearer(r, c, want) PROVE Kept
  BY <1>7 DEF PresentBearer, ghosts, stores
<1>8. ASSUME NEW r \in Request, CheckSubject(r) PROVE Kept
  BY <1>8 DEF CheckSubject, ghosts, stores
<1>9. ASSUME NEW r \in Request, Touch(r) PROVE AccountsTyped' /\ CredsTyped' /\ (now \in 0..MaxTime)'
  <2> DEFINE q == request[r]
  <2>1. q.time \in Nat
    BY <1>9, <1>q DEF Touch, Shape
  <2>2. CredsTyped'
    <3>1. CASE creds[q.cred].kind = "session" /\ q.cred \in Cred
      <4>1. creds' = [creds EXCEPT ![q.cred].last = q.time]
        BY <1>9, <3>1 DEF Touch
      <4>2. creds[q.cred] \in CredRecord /\ creds[q.cred] # NoCred
        BY <1>a, <3>1 DEF CredsTyped, NoCred
      <4>3. [creds[q.cred] EXCEPT !.last = q.time] \in CredRecord
        BY <2>1, <3>1, <4>2 DEF CredRecord
      <4> QED BY <1>9, <1>a, <3>1, <4>1, <4>2, <4>3 DEF Touch, CredsTyped
    <3>2. CASE ~(creds[q.cred].kind = "session" /\ q.cred \in Cred)
      <4>1. creds' = creds
        BY <1>9, <1>a, <3>2 DEF Touch, CredsTyped
      <4> QED BY <1>9, <1>cr, <4>1 DEF Touch
    <3> QED BY <3>1, <3>2
  <2> QED BY <1>9, <1>a, <1>ac, <2>2 DEF Touch, ghosts
<1>10. ASSUME NEW r \in Request, Logout(r) PROVE AccountsTyped' /\ CredsTyped' /\ (now \in 0..MaxTime)'
  BY <1>10, <1>a, <1>ac, RevokeTyped DEF Logout
<1>11. ASSUME NEW r \in Request, CreateToken(r) PROVE AccountsTyped' /\ CredsTyped' /\ (now \in 0..MaxTime)'
  <2> DEFINE c == Token(request[r].user)
  <2>1. request[r].user \in User
    BY <1>11, <1>q DEF CreateToken, Shape
  <2>2. c \in CredRecord
    BY <2>1 DEF Token, CredRecord
  <2>3. Put(c) /\ UNCHANGED <<accounts, off, clobbered, now>>
    BY <1>11 DEF CreateToken, ghosts
  <2> HIDE DEF c
  <2>4. CredsTyped'
    BY <1>a, <2>2, <2>3, PutTyped
  <2> QED BY <1>a, <1>ac, <2>3, <2>4
<1>12. ASSUME NEW r \in Request, NEW c \in Cred, RevokeToken(r, c)
       PROVE  AccountsTyped' /\ CredsTyped' /\ (now \in 0..MaxTime)'
  BY <1>12, <1>a, <1>ac, <1>cr, RevokeTyped DEF RevokeToken
<1>13. ASSUME NEW r \in Request, NEW pw \in Password, GetForPassword(r, pw) PROVE Kept
  BY <1>13 DEF GetForPassword, ghosts, stores
<1>14. ASSUME NEW r \in Request, SetPassword(r) PROVE AccountsTyped' /\ CredsTyped' /\ (now \in 0..MaxTime)'
  <2> DEFINE q == request[r]
  <2>1. q.at = "setPassword" /\ q.user \in User /\ q.read \in AccountRecord /\ q.password \in Password
    BY <1>14, <1>q DEF SetPassword, Shape
  <2>2. [q.read EXCEPT !.password = q.password, !.current = TRUE] \in AccountRecord
    BY <2>1 DEF AccountRecord
  <2>3. AccountsTyped'
    BY <1>14, <1>a, <2>1, <2>2, UpdateTyped DEF SetPassword
  <2> QED BY <1>14, <1>a, <1>cr, <2>3 DEF SetPassword
<1>15. ASSUME NEW r \in Request, NEW n \in User, NEW pw \in Password, CreateAccount(r, n, pw)
       PROVE  AccountsTyped' /\ CredsTyped' /\ (now \in 0..MaxTime)'
  <2>1. Account("active", pw, TRUE) \in AccountRecord
    BY DEF Account, AccountRecord
  <2>2. AccountsTyped'
    <3>1. CASE UNCHANGED <<accounts, off, clobbered>>
      BY <1>ac, <3>1
    <3>2. CASE /\ accounts' = [accounts EXCEPT ![n] = Account("active", pw, TRUE)]
               /\ off' = [off EXCEPT ![n] = FALSE] /\ clobbered' = [clobbered EXCEPT ![n] = FALSE]
      BY <1>a, <2>1, <3>2 DEF AccountsTyped
    <3> QED BY <1>15, <3>1, <3>2 DEF CreateAccount
  <2> QED BY <1>15, <1>a, <1>cr, <2>2 DEF CreateAccount
<1>16. ASSUME NEW r \in Request, NEW n \in User, NEW what \in {"disable", "delete", "setPassword"},
              Administer(r, n, what)
       PROVE  Kept
  BY <1>16 DEF Administer, ghosts, stores
<1>17. ASSUME NEW r \in Request, DisableUpdate(r) PROVE AccountsTyped' /\ CredsTyped' /\ (now \in 0..MaxTime)'
  <2> DEFINE q == request[r]
  <2>1. q.at = "disable" /\ q.user \in User /\ q.read \in AccountRecord
    BY <1>17, <1>q DEF DisableUpdate, Shape
  <2>2. [q.read EXCEPT !.state = "disabled"] \in AccountRecord
    BY <2>1 DEF AccountRecord
  <2>3. AccountsTyped'
    BY <1>17, <1>a, <2>1, <2>2, UpdateTyped DEF DisableUpdate
  <2> QED BY <1>17, <1>a, <1>cr, <2>3 DEF DisableUpdate
<1>18. ASSUME NEW r \in Request, DisableRevoke(r) PROVE AccountsTyped' /\ CredsTyped' /\ (now \in 0..MaxTime)'
  <2>1. AccountsTyped'
    BY <1>18, <1>a DEF DisableRevoke, AccountsTyped
  <2> QED BY <1>18, <1>a, <2>1, RevokeTyped DEF DisableRevoke
<1>19. ASSUME NEW r \in Request, DeleteRevoke(r) PROVE AccountsTyped' /\ CredsTyped' /\ (now \in 0..MaxTime)'
  BY <1>19, <1>a, <1>ac, RevokeTyped DEF DeleteRevoke
<1>20. ASSUME NEW r \in Request, Delete(r) PROVE AccountsTyped' /\ CredsTyped' /\ (now \in 0..MaxTime)'
  <2>1. AccountsTyped'
    BY <1>20, <1>a DEF Delete, AccountsTyped
  <2> QED BY <1>20, <1>a, <1>cr, <2>1 DEF Delete
<1>21. CASE Tick
  BY <1>21, <1>a, <1>ac, <1>cr DEF Tick, stores, ghosts
<1>22. CASE Crash
  BY <1>22, <1>a, <1>ac, RevokeTyped DEF Crash
<1> QED
  BY <1>k, <1>0, <1>1, <1>2, <1>3, <1>4, <1>5, <1>6, <1>7, <1>8, <1>9, <1>10, <1>11, <1>12, <1>13,
     <1>14, <1>15, <1>16, <1>17, <1>18, <1>19, <1>20, <1>21, <1>22 DEF Next

----------------------------------------------------------------------------
(* Steps of the limiters                                                   *)

\* Only a judged password, time and a restart touch the limiters.
LEMMA LimitsTouched ==
    ASSUME [Next]_vars
    PROVE  \/ UNCHANGED <<limits, now>>
           \/ \E r \in Request : FailPassword(r) \/ Succeed(r)
           \/ Tick \/ Crash
<1> USE DEF limits
<1>0. CASE UNCHANGED vars
  BY <1>0 DEF vars
<1>1. ASSUME NEW r \in Request, NEW n \in User, NEW pw \in Password,
             NEW want \in (Wants \ {"logout"}) \cup {"login"}, PresentPassword(r, n, pw, want)
      PROVE  UNCHANGED <<limits, now>>
  BY <1>1 DEF PresentPassword
<1>2. ASSUME NEW r \in Request, CheckPassword(r) PROVE UNCHANGED <<limits, now>>
  BY <1>2 DEF CheckPassword
<1>3. ASSUME NEW r \in Request, Rehash(r) PROVE UNCHANGED <<limits, now>>
  BY <1>3 DEF Rehash
<1>4. ASSUME NEW r \in Request, PutSession(r) PROVE UNCHANGED <<limits, now>>
  BY <1>4 DEF PutSession
<1>5. ASSUME NEW r \in Request, NEW c \in Cred, NEW want \in Wants, PresentBearer(r, c, want)
      PROVE  UNCHANGED <<limits, now>>
  BY <1>5 DEF PresentBearer
<1>6. ASSUME NEW r \in Request, CheckSubject(r) PROVE UNCHANGED <<limits, now>>
  BY <1>6 DEF CheckSubject
<1>7. ASSUME NEW r \in Request, Touch(r) PROVE UNCHANGED <<limits, now>>
  BY <1>7 DEF Touch
<1>8. ASSUME NEW r \in Request, Logout(r) PROVE UNCHANGED <<limits, now>>
  BY <1>8 DEF Logout
<1>9. ASSUME NEW r \in Request, CreateToken(r) PROVE UNCHANGED <<limits, now>>
  BY <1>9 DEF CreateToken
<1>10. ASSUME NEW r \in Request, NEW c \in Cred, RevokeToken(r, c) PROVE UNCHANGED <<limits, now>>
  BY <1>10 DEF RevokeToken
<1>11. ASSUME NEW r \in Request, NEW pw \in Password, GetForPassword(r, pw) PROVE UNCHANGED <<limits, now>>
  BY <1>11 DEF GetForPassword
<1>12. ASSUME NEW r \in Request, SetPassword(r) PROVE UNCHANGED <<limits, now>>
  BY <1>12 DEF SetPassword
<1>13. ASSUME NEW r \in Request, NEW n \in User, NEW pw \in Password, CreateAccount(r, n, pw)
       PROVE  UNCHANGED <<limits, now>>
  BY <1>13 DEF CreateAccount
<1>14. ASSUME NEW r \in Request, NEW n \in User, NEW what \in {"disable", "delete", "setPassword"},
              Administer(r, n, what)
       PROVE  UNCHANGED <<limits, now>>
  BY <1>14 DEF Administer
<1>15. ASSUME NEW r \in Request, DisableUpdate(r) PROVE UNCHANGED <<limits, now>>
  BY <1>15 DEF DisableUpdate
<1>16. ASSUME NEW r \in Request, DisableRevoke(r) PROVE UNCHANGED <<limits, now>>
  BY <1>16 DEF DisableRevoke
<1>17. ASSUME NEW r \in Request, DeleteRevoke(r) PROVE UNCHANGED <<limits, now>>
  BY <1>17 DEF DeleteRevoke
<1>18. ASSUME NEW r \in Request, Delete(r) PROVE UNCHANGED <<limits, now>>
  BY <1>18 DEF Delete
<1> QED
  BY <1>0, <1>1, <1>2, <1>3, <1>4, <1>5, <1>6, <1>7, <1>8, <1>9, <1>10, <1>11, <1>12, <1>13,
     <1>14, <1>15, <1>16, <1>17, <1>18 DEF Next

\* What failed(n) does to one key.
LEMMA FailedKey ==
    ASSUME LimitsTyped, NEW n \in User, failed(n), NEW k \in Key
    PROVE  /\ DOMAIN failures' = Key /\ DOMAIN owed' = Key /\ DOMAIN late' = Key /\ DOMAIN lastSweep' = Key
           /\ k \in {pairKey(n), address} =>
                 /\ failures'[k] = Failed(k)
                 /\ owed'[k] = IF owed[k] < Failed(k).until THEN Failed(k).until ELSE owed[k]
                 /\ late'[k] = IF owed[k] > now THEN late[k] + 1 ELSE 0
           /\ k \notin {pairKey(n), address} =>
                 /\ failures'[k] = IF Swept(k) THEN NoFailure ELSE failures[k]
                 /\ owed'[k] = owed[k] /\ late'[k] = late[k]
           /\ lastSweep'[k] \in {lastSweep[k], now}
<1> DEFINE N(j) == IF j \in {pairKey(n), address} THEN Failed(j) ELSE IF Swept(j) THEN NoFailure ELSE failures[j]
<1>1. /\ failures' = [j \in Key |-> N(j)]
      /\ lastSweep' = [j \in Key |-> IF lastSweep[j] + sweepEvery <= now THEN now ELSE lastSweep[j]]
      /\ owed' = [j \in Key |-> IF j \in {pairKey(n), address} /\ owed[j] < N(j).until THEN N(j).until ELSE owed[j]]
      /\ late' = [j \in Key |-> IF j \notin {pairKey(n), address} THEN late[j]
                                ELSE IF owed[j] > now THEN late[j] + 1 ELSE 0]
  BY DEF failed
<1> QED BY <1>1

\* Every step keeps the limiters' entries in order and every wait that is owed.
LEMMA LimitsStep == TypesInv /\ WaitKept /\ [Next]_vars => LimitsTyped' /\ WaitKept'
<1> SUFFICES ASSUME TypesInv, WaitKept, [Next]_vars PROVE LimitsTyped' /\ WaitKept'
  OBVIOUS
<1>n. now \in Nat /\ LimitsTyped
  BY DEF TypesInv, StoresTyped
<1>f. \A k \in Key : /\ failures[k].last \in Nat /\ failures[k].until \in Int /\ failures[k].last <= now
                     /\ failures[k].until <= failures[k].last + max
                     /\ owed[k] \in Int /\ late[k] \in Nat /\ lastSweep[k] \in Nat
                     /\ FailureOK(k, failures[k])
  BY <1>n, UntilBounded DEF LimitsTyped, FailureOK, FailureRecord
<1>1. CASE UNCHANGED <<limits, now>>
  BY <1>1, <1>n DEF limits, LimitsTyped, FailureOK, WaitKept
<1>2. ASSUME NEW r \in Request, FailPassword(r) PROVE LimitsTyped' /\ WaitKept'
  <2> DEFINE n == request[r].user
  <2>1. n \in User /\ failed(n) /\ now' = now
    BY <1>2 DEF FailPassword, TypesInv, RequestsTyped, Shape
  <2>2. ASSUME NEW k \in Key
        PROVE  /\ FailureOK(k, failures'[k]) /\ owed'[k] \in Int /\ late'[k] \in Nat /\ lastSweep'[k] \in Nat
               /\ owed'[k] > now => owed'[k] <= failures'[k].until
    <3>0. lastSweep'[k] \in Nat
      BY <1>n, <1>f, <2>1, FailedKey
    <3>1. CASE k \in {pairKey(n), address}
      <4>1. /\ failures'[k] = Failed(k)
            /\ owed'[k] = IF owed[k] < Failed(k).until THEN Failed(k).until ELSE owed[k]
            /\ late'[k] = IF owed[k] > now THEN late[k] + 1 ELSE 0
        BY <1>n, <2>1, <3>1, FailedKey
      <4>2. FailureOK(k, Failed(k)) /\ (failures[k].until > now => failures[k].until <= Failed(k).until)
        BY <1>n, <1>f, FailedOK
      <4>3. Failed(k).until \in Int
        BY <4>2 DEF FailureOK, FailureRecord
      <4>4. owed[k] > now => owed[k] <= failures[k].until
        BY DEF WaitKept
      <4> QED BY <1>n, <1>f, <3>0, <4>1, <4>2, <4>3, <4>4
    <3>2. CASE k \notin {pairKey(n), address}
      <4>1. /\ failures'[k] = IF Swept(k) THEN NoFailure ELSE failures[k]
            /\ owed'[k] = owed[k] /\ late'[k] = late[k]
        BY <1>n, <2>1, <3>2, FailedKey
      <4>2. FailureOK(k, failures'[k])
        BY <1>n, <1>f, <4>1, NoFailureOK
      <4>3. Swept(k) => failures[k].until <= now
        BY <1>n, <1>f DEF Swept
      <4> QED BY <1>n, <1>f, <3>0, <4>1, <4>2, <4>3 DEF WaitKept
    <3> QED BY <3>1, <3>2
  <2>3. DOMAIN failures' = Key /\ DOMAIN owed' = Key /\ DOMAIN late' = Key /\ DOMAIN lastSweep' = Key
    BY <1>n, <2>1, FailedKey DEF Key
  <2> QED BY <2>1, <2>2, <2>3 DEF LimitsTyped, FailureOK, WaitKept
<1>3. ASSUME NEW r \in Request, Succeed(r) PROVE LimitsTyped' /\ WaitKept'
  <2> DEFINE n == request[r].user
  <2>1. pairKey(n) \in Key /\ succeeded(n) /\ now' = now
    BY <1>3 DEF Succeed, TypesInv, RequestsTyped, Shape, Key
  <2>2. FailureOK(pairKey(n), NoFailure)
    BY <1>n, <2>1, NoFailureOK
  <2>3. ASSUME NEW k \in Key
        PROVE  /\ FailureOK(k, failures'[k]) /\ owed'[k] \in Int
               /\ owed'[k] > now => owed'[k] <= failures'[k].until
    BY <1>n, <1>f, <2>1, <2>2 DEF succeeded, LimitsTyped, WaitKept
  <2> QED BY <1>n, <1>f, <2>1, <2>3 DEF succeeded, LimitsTyped, FailureOK, WaitKept
<1>4. CASE Tick
  BY <1>4, <1>n, <1>f DEF Tick, limits, LimitsTyped, FailureOK, WaitKept
<1>5. CASE Crash
  <2>1. \A k \in Key : FailureOK(k, NoFailure)
    BY <1>n, NoFailureOK
  <2> QED BY <1>5, <1>n, <2>1 DEF Crash, LimitsTyped, FailureOK, WaitKept
<1> QED BY <1>1, <1>2, <1>3, <1>4, <1>5, LimitsTouched

----------------------------------------------------------------------------
(* Revoked credentials                                                     *)

\* A new credential is none that was revoked.
LEMMA PutFresh ==
    ASSUME CredsTyped, RevokedInv, NEW c, Put(c), UNCHANGED revoked
    PROVE  RevokedInv'
BY DEF CredsTyped, RevokedInv, RevokedMinted, RevokedStaysRevoked, Put, Cred

\* Revoking credentials that were given out.
LEMMA RevokeSound ==
    ASSUME CredsTyped, RevokedInv, NEW cs \in SUBSET Cred, Revoke(cs), UNCHANGED minted
    PROVE  RevokedInv'
<1>1. revoked' = revoked \cup {c \in cs : creds[c] # NoCred}
  BY DEF Revoke
<1>2. ASSUME NEW c \in revoked' PROVE c \in 1..minted /\ creds'[c] = NoCred
  <2>1. minted \in Nat /\ minted <= MaxCred /\ MaxCred \in Nat
    BY DEF CredsTyped
  <2>2. CASE c \in revoked
    BY <2>1, <2>2 DEF RevokedInv, RevokedMinted, RevokedStaysRevoked, Revoke, Cred
  <2>3. CASE c \in cs /\ creds[c] # NoCred
    BY <2>1, <2>3 DEF CredsTyped, Revoke, Cred
  <2> QED BY <1>1, <2>2, <2>3
<1> QED BY <1>2 DEF RevokedInv, RevokedMinted, RevokedStaysRevoked

\* Every step keeps revoked credentials revoked.
LEMMA RevokedStep == TypesInv /\ RevokedInv /\ [Next]_vars => RevokedInv'
<1> SUFFICES ASSUME TypesInv, RevokedInv, [Next]_vars PROVE RevokedInv'
  OBVIOUS
<1>a. CredsTyped
  BY DEF TypesInv, StoresTyped, CredsTyped
<1>q. \A r \in Request : Shape(request[r])
  BY DEF TypesInv, RequestsTyped
<1> DEFINE Kept == UNCHANGED <<creds, minted, revoked>>
<1>k. ASSUME Kept PROVE RevokedInv'
  BY <1>k DEF RevokedInv, RevokedMinted, RevokedStaysRevoked
<1>0. CASE UNCHANGED vars
  BY <1>0, <1>k DEF vars, stores, ghosts
<1>1. ASSUME NEW r \in Request, NEW n \in User, NEW pw \in Password,
             NEW want \in (Wants \ {"logout"}) \cup {"login"}, PresentPassword(r, n, pw, want)
      PROVE  Kept
  BY <1>1 DEF PresentPassword, ghosts, stores
<1>2. ASSUME NEW r \in Request, CheckPassword(r) PROVE Kept
  BY <1>2 DEF CheckPassword, ghosts, stores
<1>3. ASSUME NEW r \in Request, Rehash(r) PROVE Kept
  BY <1>3 DEF Rehash
<1>4. ASSUME NEW r \in Request, PutSession(r) PROVE RevokedInv'
  BY <1>4, <1>a, PutFresh DEF PutSession, ghosts
<1>5. ASSUME NEW r \in Request, Succeed(r) PROVE Kept
  BY <1>5 DEF Succeed, ghosts, stores
<1>6. ASSUME NEW r \in Request, FailPassword(r) PROVE Kept
  BY <1>6 DEF FailPassword, ghosts, stores
<1>7. ASSUME NEW r \in Request, NEW c \in Cred, NEW want \in Wants, PresentBearer(r, c, want) PROVE Kept
  BY <1>7 DEF PresentBearer, ghosts, stores
<1>8. ASSUME NEW r \in Request, CheckSubject(r) PROVE Kept
  BY <1>8 DEF CheckSubject, ghosts, stores
<1>9. ASSUME NEW r \in Request, Touch(r) PROVE RevokedInv'
  <2> DEFINE q == request[r]
  <2>1. UNCHANGED <<minted, revoked>> /\ revoked \subseteq Cred
    BY <1>9, <1>a DEF Touch, ghosts, RevokedInv, RevokedMinted, CredsTyped, Cred
  <2>2. ASSUME NEW c \in revoked PROVE creds'[c] = NoCred
    <3>1. creds[c] = NoCred /\ c \in DOMAIN creds
      BY <2>1, <1>a DEF RevokedInv, RevokedStaysRevoked, CredsTyped
    <3>2. creds[q.cred].kind = "session" => q.cred # c
      BY <3>1 DEF NoCred
    <3> QED BY <1>9, <3>1, <3>2 DEF Touch
  <2> QED BY <2>1, <2>2 DEF RevokedInv, RevokedMinted, RevokedStaysRevoked
<1>10. ASSUME NEW r \in Request, Logout(r) PROVE RevokedInv'
  <2>1. {request[r].cred} \in SUBSET Cred
    BY <1>10, <1>q DEF Logout, Shape
  <2> QED BY <1>10, <1>a, <2>1, RevokeSound DEF Logout
<1>11. ASSUME NEW r \in Request, CreateToken(r) PROVE RevokedInv'
  BY <1>11, <1>a, PutFresh DEF CreateToken, ghosts
<1>12. ASSUME NEW r \in Request, NEW c \in Cred, RevokeToken(r, c) PROVE RevokedInv'
  <2>1. {c} \in SUBSET Cred
    OBVIOUS
  <2>2. CASE Revoke({c})
    BY <1>12, <1>a, <2>1, <2>2, RevokeSound DEF RevokeToken
  <2>3. CASE UNCHANGED <<creds, revoked>>
    BY <1>12, <1>k, <2>3 DEF RevokeToken
  <2> QED BY <1>12, <2>2, <2>3 DEF RevokeToken
<1>13. ASSUME NEW r \in Request, NEW pw \in Password, GetForPassword(r, pw) PROVE Kept
  BY <1>13 DEF GetForPassword, ghosts, stores
<1>14. ASSUME NEW r \in Request, SetPassword(r) PROVE Kept
  BY <1>14 DEF SetPassword
<1>15. ASSUME NEW r \in Request, NEW n \in User, NEW pw \in Password, CreateAccount(r, n, pw) PROVE Kept
  BY <1>15 DEF CreateAccount
<1>16. ASSUME NEW r \in Request, NEW n \in User, NEW what \in {"disable", "delete", "setPassword"},
              Administer(r, n, what)
       PROVE  Kept
  BY <1>16 DEF Administer, ghosts, stores
<1>17. ASSUME NEW r \in Request, DisableUpdate(r) PROVE Kept
  BY <1>17 DEF DisableUpdate
<1>of. \A n : Of(n) \in SUBSET Cred
  BY DEF Of
<1>18. ASSUME NEW r \in Request, DisableRevoke(r) PROVE RevokedInv'
  BY <1>18, <1>a, <1>of, RevokeSound DEF DisableRevoke
<1>19. ASSUME NEW r \in Request, DeleteRevoke(r) PROVE RevokedInv'
  BY <1>19, <1>a, <1>of, RevokeSound DEF DeleteRevoke
<1>20. ASSUME NEW r \in Request, Delete(r) PROVE Kept
  BY <1>20 DEF Delete
<1>21. CASE Tick
  BY <1>21, <1>k DEF Tick, stores, ghosts
<1>22. CASE Crash
  <2>1. PICK cs \in SUBSET UNION {Of(request[r].user) :
                 r \in {q \in Request : request[q].at \in {"revokeAll", "delete"}}} : Revoke(cs)
    BY <1>22 DEF Crash
  <2>2. cs \in SUBSET Cred
    BY <2>1, <1>of
  <2> QED BY <1>22, <1>a, <2>1, <2>2, RevokeSound DEF Crash
<1> QED
  BY <1>k, <1>0, <1>1, <1>2, <1>3, <1>4, <1>5, <1>6, <1>7, <1>8, <1>9, <1>10, <1>11, <1>12, <1>13,
     <1>14, <1>15, <1>16, <1>17, <1>18, <1>19, <1>20, <1>21, <1>22 DEF Next

----------------------------------------------------------------------------
(* Accounts that were disabled or deleted                                  *)

\* No account becomes active without an update being lost.
Quiet ==
    \A n \in User : /\ clobbered[n] => clobbered'[n]
                    /\ accounts'[n].state = "active" => accounts[n].state = "active" \/ clobbered'[n]

\* A quiet step in which one request moves on.
LEMMA QuietStep ==
    ASSUME TypesInv, OffInv, Quiet, UNCHANGED off, NEW r \in Request, NEW x,
           OffOK(x, accounts', clobbered'), request' = [request EXCEPT ![r] = x]
    PROVE  OffInv'
<1>1. DeletedNotRevived'
  BY DEF OffInv, DeletedNotRevived, Active, Quiet
<1>2. ASSUME NEW q \in Request PROVE OffOK(request'[q], accounts', clobbered')
  <2>1. CASE q = r
    BY <2>1 DEF TypesInv, RequestsTyped
  <2>2. CASE q # r
    <3>1. request'[q] = request[q] /\ OffOK(request[q], accounts, clobbered)
      BY <2>2 DEF OffInv, TypesInv, RequestsTyped
    <3>2. request[q].at # "none" => request[q].user \in User
      BY DEF TypesInv, RequestsTyped, Shape
    <3> QED BY <3>1, <3>2 DEF OffOK, Quiet
  <2> QED BY <2>1, <2>2
<1> QED BY <1>1, <1>2 DEF OffInv

\* A request is answered.
LEMMA DoneQuiet ==
    ASSUME TypesInv, OffInv, Quiet, UNCHANGED off, NEW r \in Request, Done(r)
    PROVE  OffInv'
<1>1. OffOK(NoRequest, accounts', clobbered')
  BY DEF OffOK, NoRequest
<1> QED BY <1>1, QuietStep DEF Done

\* Writing back a record that was read is quiet: either nothing changed since, or an update
\* is lost.
LEMMA UpdateQuiet ==
    ASSUME TypesInv, NEW n \in User, NEW read \in AccountRecord, NEW a \in AccountRecord,
           a.state = "active" => read.state = "active", Update(n, a), Clobbers(n, read)
    PROVE  Quiet
<1>1. clobbered' = [clobbered EXCEPT ![n] = @ \/ (Exists(n) /\ accounts[n] # read)]
  BY DEF Clobbers
<1>2. ASSUME NEW m \in User, m # n PROVE accounts'[m] = accounts[m] /\ clobbered'[m] = clobbered[m]
  BY <1>1, <1>2 DEF Update, TypesInv, StoresTyped
<1>3. clobbered[n] => clobbered'[n]
  BY <1>1 DEF TypesInv, StoresTyped
<1>4. accounts'[n].state = "active" => accounts[n].state = "active" \/ clobbered'[n]
  <2>1. CASE ~Exists(n)
    BY <2>1 DEF Update
  <2>2. CASE Exists(n) /\ accounts[n] = read
    BY <2>2 DEF Update, TypesInv, StoresTyped
  <2>3. CASE Exists(n) /\ accounts[n] # read
    BY <1>1, <2>3 DEF TypesInv, StoresTyped
  <2> QED BY <2>1, <2>2, <2>3
<1> QED BY <1>2, <1>3, <1>4 DEF Quiet

\* Every step keeps requests out of accounts that are off, and these accounts inactive,
\* unless an update was lost.
LEMMA OffStep == TypesInv /\ OffInv /\ [Next]_vars => OffInv'
<1> SUFFICES ASSUME TypesInv, OffInv, [Next]_vars PROVE OffInv'
  OBVIOUS
<1>q. \A r \in Request : Shape(request[r]) /\ OffOK(request[r], accounts, clobbered)
  BY DEF TypesInv, RequestsTyped, OffInv
<1>d. DOMAIN request = Request
  BY DEF TypesInv, RequestsTyped
<1>k. ASSUME UNCHANGED <<accounts, clobbered>> PROVE Quiet
  BY <1>k DEF Quiet
<1>none. \A as, cs : OffOK(NoRequest, as, cs)
  BY DEF OffOK, NoRequest
<1>0. CASE UNCHANGED <<accounts, off, clobbered, request>>
  BY <1>0 DEF OffInv, DeletedNotRevived, Active
<1>1. ASSUME NEW r \in Request, NEW n \in User, NEW pw \in Password,
             NEW want \in (Wants \ {"logout"}) \cup {"login"}, PresentPassword(r, n, pw, want)
      PROVE  OffInv'
  <2> DEFINE x == IF throttled(n) THEN NoRequest
                  ELSE [at |-> "password", user |-> n, password |-> pw, want |-> want, cred |-> 0,
                        after |-> off[n]]
  <2>1. request' = [request EXCEPT ![r] = x] /\ UNCHANGED <<accounts, off, clobbered>>
    BY <1>1 DEF PresentPassword, Arrives, ghosts, stores
  <2>2. OffOK(x, accounts, clobbered)
    BY <1>none DEF OffOK, OffInv, DeletedNotRevived, Active
  <2> HIDE DEF x
  <2> QED BY <1>k, <2>1, <2>2, QuietStep
<1>2. ASSUME NEW r \in Request, CheckPassword(r) PROVE OffInv'
  <2> DEFINE q == request[r]
             a == accounts[q.user]
             matches == Active(q.user) /\ a.password = q.password
             y == [at |-> "rehash", user |-> q.user, want |-> q.want, cred |-> 0, after |-> q.after, read |-> a]
             x == IF ~matches THEN [q EXCEPT !.at = "failed"]
                  ELSE IF a.current THEN [q EXCEPT !.at = "verified"] ELSE y
  <2>1. q.at = "password" /\ request' = [request EXCEPT ![r] = x] /\ UNCHANGED <<accounts, off, clobbered>>
    BY <1>2 DEF CheckPassword, ghosts, stores
  <2>2. {"at", "user", "after"} \subseteq DOMAIN q /\ OffOK(q, accounts, clobbered)
    BY <2>1, <1>q DEF Shape
  <2>3. OffOK([q EXCEPT !.at = "failed"], accounts, clobbered)
    BY <2>1, <2>2 DEF OffOK
  <2>4. matches => OffOK([q EXCEPT !.at = "verified"], accounts, clobbered)
    BY <2>1, <2>2 DEF OffOK, Active
  <2>5. matches => OffOK(y, accounts, clobbered)
    BY <2>1, <2>2 DEF OffOK, Active
  <2>6. OffOK(x, accounts, clobbered)
    <3> HIDE DEF y, matches
    <3> QED BY <2>3, <2>4, <2>5
  <2> HIDE DEF x
  <2> QED BY <1>k, <2>1, <2>6, QuietStep
<1>3. ASSUME NEW r \in Request, Rehash(r) PROVE OffInv'
  <2> DEFINE q == request[r]
             x == [at |-> "verified", user |-> q.user, want |-> q.want, cred |-> 0, after |-> q.after]
             a == [q.read EXCEPT !.current = TRUE]
  <2>1. q.at = "rehash" /\ request' = [request EXCEPT ![r] = x] /\ UNCHANGED off
    BY <1>3 DEF Rehash
  <2>2. q.user \in User /\ q.read \in AccountRecord /\ Update(q.user, a) /\ Clobbers(q.user, q.read)
    BY <1>3, <1>q DEF Rehash, Shape
  <2>3. a \in AccountRecord /\ a.state = q.read.state
    BY <2>2 DEF AccountRecord
  <2>4. Quiet
    BY <2>2, <2>3, UpdateQuiet
  <2>5. OffOK(x, accounts', clobbered')
    BY <1>q, <2>1, <2>2, <2>4 DEF OffOK, Quiet
  <2> HIDE DEF x
  <2> QED BY <2>1, <2>4, <2>5, QuietStep
<1>4. ASSUME NEW r \in Request, PutSession(r) PROVE OffInv'
  <2> DEFINE q == request[r]
  <2>1. /\ q.at = "verified" /\ request' = [request EXCEPT ![r] = [q EXCEPT !.at = "counted"]]
        /\ UNCHANGED <<accounts, off, clobbered>>
    BY <1>4 DEF PutSession, Goto, ghosts
  <2>2. {"at", "user", "after"} \subseteq DOMAIN q
    BY <2>1, <1>q DEF Shape
  <2>3. OffOK([q EXCEPT !.at = "counted"], accounts, clobbered)
    BY <2>1, <2>2, <1>q DEF OffOK
  <2> QED BY <1>k, <2>1, <2>3, QuietStep
<1>5. ASSUME NEW r \in Request, Succeed(r) PROVE OffInv'
  <2> DEFINE q == request[r]
  <2>1. UNCHANGED <<accounts, off, clobbered>>
    BY <1>5 DEF Succeed, stores, ghosts
  <2>2. CASE Done(r)
    BY <1>k, <2>1, <2>2, DoneQuiet
  <2>3. CASE q.at = "verified" /\ Goto(r, "authenticated")
    <3>1. request' = [request EXCEPT ![r] = [q EXCEPT !.at = "authenticated"]]
      BY <2>3 DEF Goto
    <3>2. {"at", "user", "after"} \subseteq DOMAIN q
      BY <2>3, <1>q DEF Shape
    <3>3. OffOK([q EXCEPT !.at = "authenticated"], accounts, clobbered)
      BY <2>3, <3>2, <1>q DEF OffOK
    <3> QED BY <1>k, <2>1, <3>1, <3>3, QuietStep
  <2> QED BY <1>5, <2>2, <2>3 DEF Succeed
<1>6. ASSUME NEW r \in Request, FailPassword(r) PROVE OffInv'
  BY <1>6, <1>k, DoneQuiet DEF FailPassword, stores, ghosts
<1>7. ASSUME NEW r \in Request, NEW c \in Cred, NEW want \in Wants, PresentBearer(r, c, want) PROVE OffInv'
  <2> DEFINE n == creds[c].subject
             x == IF ~valid(creds[c]) THEN NoRequest
                  ELSE [at |-> "subject", user |-> n, want |-> want, cred |-> c, time |-> now, after |-> off[n]]
  <2>1. request' = [request EXCEPT ![r] = x] /\ UNCHANGED <<accounts, off, clobbered>>
    BY <1>7 DEF PresentBearer, Arrives, ghosts, stores
  <2>2. n \in User
    BY <1>7 DEF PresentBearer, TypesInv, StoresTyped, CredRecord
  <2> HIDE DEF n
  <2>3. OffOK(x, accounts, clobbered)
    BY <1>none, <2>2 DEF OffOK, OffInv, DeletedNotRevived, Active
  <2> HIDE DEF x
  <2> QED BY <1>k, <2>1, <2>3, QuietStep
<1>8. ASSUME NEW r \in Request, CheckSubject(r) PROVE OffInv'
  <2> DEFINE q == request[r]
  <2>1. q.at = "subject" /\ UNCHANGED <<accounts, off, clobbered>>
    BY <1>8 DEF CheckSubject, stores, ghosts
  <2>2. CASE Done(r)
    BY <1>k, <2>1, <2>2, DoneQuiet
  <2>3. CASE Active(q.user) /\ Goto(r, "touch")
    <3>1. request' = [request EXCEPT ![r] = [q EXCEPT !.at = "touch"]]
      BY <2>3 DEF Goto
    <3>2. {"at", "user", "after"} \subseteq DOMAIN q
      BY <2>1, <1>q DEF Shape
    <3>3. OffOK([q EXCEPT !.at = "touch"], accounts, clobbered)
      BY <2>1, <2>3, <3>2, <1>q DEF OffOK, Active
    <3> QED BY <1>k, <2>1, <3>1, <3>3, QuietStep
  <2> QED BY <1>8, <2>2, <2>3 DEF CheckSubject
<1>9. ASSUME NEW r \in Request, Touch(r) PROVE OffInv'
  <2> DEFINE q == request[r]
             x == [at |-> "authenticated", user |-> q.user, want |-> q.want, cred |-> q.cred, after |-> q.after]
  <2>1. /\ q.at = "touch" /\ request' = [request EXCEPT ![r] = x] /\ UNCHANGED <<accounts, off, clobbered>>
    BY <1>9 DEF Touch, Authenticated, ghosts
  <2>2. OffOK(x, accounts, clobbered)
    BY <1>q, <2>1 DEF OffOK
  <2> HIDE DEF x
  <2> QED BY <1>k, <2>1, <2>2, QuietStep
<1>10. ASSUME NEW r \in Request, Logout(r) PROVE OffInv'
  BY <1>10, <1>k, DoneQuiet DEF Logout
<1>11. ASSUME NEW r \in Request, CreateToken(r) PROVE OffInv'
  BY <1>11, <1>k, DoneQuiet DEF CreateToken, ghosts
<1>12. ASSUME NEW r \in Request, NEW c \in Cred, RevokeToken(r, c) PROVE OffInv'
  BY <1>12, <1>k, DoneQuiet DEF RevokeToken
<1>13. ASSUME NEW r \in Request, NEW pw \in Password, GetForPassword(r, pw) PROVE OffInv'
  <2> DEFINE q == request[r]
             x == IF ~Exists(q.user) THEN NoRequest
                  ELSE [at |-> "setPassword", user |-> q.user, password |-> pw, read |-> accounts[q.user],
                        after |-> q.after]
  <2>1. /\ q.at = "authenticated" /\ request' = [request EXCEPT ![r] = x]
        /\ UNCHANGED <<accounts, off, clobbered>>
    BY <1>13 DEF GetForPassword, stores, ghosts
  <2>2. OffOK(x, accounts, clobbered)
    BY <1>none, <1>q, <2>1 DEF OffOK
  <2> HIDE DEF x
  <2> QED BY <1>k, <2>1, <2>2, QuietStep
<1>14. ASSUME NEW r \in Request, SetPassword(r) PROVE OffInv'
  <2> DEFINE q == request[r]
             a == [q.read EXCEPT !.password = q.password, !.current = TRUE]
  <2>1. /\ q.user \in User /\ q.read \in AccountRecord /\ q.password \in Password
        /\ Update(q.user, a) /\ Clobbers(q.user, q.read)
    BY <1>14, <1>q DEF SetPassword, Shape
  <2>2. a \in AccountRecord /\ a.state = q.read.state
    BY <2>1 DEF AccountRecord
  <2>3. Quiet
    BY <2>1, <2>2, UpdateQuiet
  <2> QED BY <1>14, <2>3, DoneQuiet DEF SetPassword
<1>15. ASSUME NEW r \in Request, NEW n \in User, NEW pw \in Password, CreateAccount(r, n, pw) PROVE OffInv'
  <2>1. CASE UNCHANGED <<accounts, off, clobbered, request>>
    BY <1>0, <2>1
  <2>2. CASE /\ accounts' = [accounts EXCEPT ![n] = Account("active", pw, TRUE)]
             /\ off' = [off EXCEPT ![n] = FALSE] /\ clobbered' = [clobbered EXCEPT ![n] = FALSE]
             /\ request' = [q \in Request |-> IF request[q].at # "none" /\ request[q].user = n
                                              THEN [request[q] EXCEPT !.after = FALSE] ELSE request[q]]
    <3>1. ASSUME NEW m \in User, m # n
          PROVE  accounts'[m] = accounts[m] /\ off'[m] = off[m] /\ clobbered'[m] = clobbered[m]
      BY <2>2, <3>1 DEF TypesInv, StoresTyped
    <3>2. DeletedNotRevived'
      <4>1. off'[n] = FALSE
        BY <2>2 DEF TypesInv, StoresTyped
      <4> QED BY <3>1, <4>1 DEF OffInv, DeletedNotRevived, Active
    <3>3. ASSUME NEW q \in Request PROVE OffOK(request'[q], accounts', clobbered')
      <4>1. CASE request[q].at # "none" /\ request[q].user = n
        <5>1. "after" \in DOMAIN request[q] /\ request'[q] = [request[q] EXCEPT !.after = FALSE]
          BY <2>2, <4>1, <1>q DEF Shape
        <5>2. request'[q].after = FALSE
          BY <5>1
        <5> QED BY <5>2 DEF OffOK
      <4>2. CASE request[q].at = "none"
        BY <2>2, <4>2 DEF OffOK
      <4>3. CASE request[q].at # "none" /\ request[q].user # n
        <5>1. request'[q] = request[q] /\ request[q].user \in User
          BY <2>2, <4>3, <1>q DEF Shape
        <5> QED BY <3>1, <4>3, <5>1, <1>q DEF OffOK
      <4> QED BY <4>1, <4>2, <4>3
    <3> QED BY <3>2, <3>3 DEF OffInv
  <2> QED BY <1>15, <2>1, <2>2 DEF CreateAccount
<1>16. ASSUME NEW r \in Request, NEW n \in User, NEW what \in {"disable", "delete", "setPassword"},
              Administer(r, n, what)
       PROVE  OffInv'
  <2> DEFINE x == IF ~Exists(n) THEN NoRequest
                  ELSE IF what = "setPassword"
                  THEN [at |-> "authenticated", user |-> n, want |-> what, cred |-> 0, after |-> FALSE]
                  ELSE [at |-> what, user |-> n, read |-> accounts[n], after |-> FALSE]
  <2>1. request' = [request EXCEPT ![r] = x] /\ UNCHANGED <<accounts, off, clobbered>>
    BY <1>16 DEF Administer, Arrives, stores, ghosts
  <2>2. OffOK(x, accounts, clobbered)
    BY <1>none DEF OffOK
  <2> HIDE DEF x
  <2> QED BY <1>k, <2>1, <2>2, QuietStep
<1>17. ASSUME NEW r \in Request, DisableUpdate(r) PROVE OffInv'
  <2> DEFINE q == request[r]
             a == [q.read EXCEPT !.state = "disabled"]
             x == IF Exists(q.user) THEN [at |-> "revokeAll", user |-> q.user, after |-> FALSE] ELSE NoRequest
  <2>1. q.user \in User /\ q.read \in AccountRecord /\ Update(q.user, a) /\ Clobbers(q.user, q.read)
    BY <1>17, <1>q DEF DisableUpdate, Shape
  <2>2. a \in AccountRecord /\ a.state = "disabled"
    BY <2>1 DEF AccountRecord
  <2>3. Quiet
    BY <2>1, <2>2, UpdateQuiet
  <2>4. request' = [request EXCEPT ![r] = x] /\ UNCHANGED off
    BY <1>17 DEF DisableUpdate
  <2>5. OffOK(x, accounts', clobbered')
    BY <1>none DEF OffOK
  <2> HIDE DEF x
  <2> QED BY <2>3, <2>4, <2>5, QuietStep
<1>18. ASSUME NEW r \in Request, DisableRevoke(r) PROVE OffInv'
  <2> DEFINE n == request[r].user
  <2>1. /\ n \in User /\ UNCHANGED <<accounts, clobbered>> /\ request' = [request EXCEPT ![r] = NoRequest]
        /\ off' = [off EXCEPT ![n] = off[n] \/ accounts[n].state = "disabled"]
    BY <1>18, <1>q DEF DisableRevoke, Done, Shape
  <2>2. DeletedNotRevived'
    <3>1. off'[n] => off[n] \/ accounts[n].state # "active"
      BY <2>1 DEF TypesInv, StoresTyped
    <3>2. \A m \in User : m # n => off'[m] = off[m]
      BY <2>1 DEF TypesInv, StoresTyped
    <3> QED BY <2>1, <3>1, <3>2 DEF OffInv, DeletedNotRevived, Active
  <2>3. \A q \in Request : OffOK(request'[q], accounts', clobbered')
    BY <1>none, <1>q, <1>d, <2>1
  <2> QED BY <2>2, <2>3 DEF OffInv
<1>19. ASSUME NEW r \in Request, DeleteRevoke(r) PROVE OffInv'
  <2> DEFINE x == [at |-> "remove", user |-> request[r].user, after |-> FALSE]
  <2>1. request' = [request EXCEPT ![r] = x] /\ UNCHANGED <<accounts, off, clobbered>>
    BY <1>19 DEF DeleteRevoke
  <2>2. OffOK(x, accounts, clobbered)
    BY DEF OffOK
  <2> HIDE DEF x
  <2> QED BY <1>k, <2>1, <2>2, QuietStep
<1>20. ASSUME NEW r \in Request, Delete(r) PROVE OffInv'
  <2> DEFINE n == request[r].user
  <2>1. /\ n \in User /\ UNCHANGED clobbered /\ request' = [request EXCEPT ![r] = NoRequest]
        /\ accounts' = [accounts EXCEPT ![n] = NoAccount] /\ off' = [off EXCEPT ![n] = TRUE]
    BY <1>20, <1>q DEF Delete, Done, Shape
  <2>2. /\ accounts'[n].state = "none"
        /\ \A m \in User : m # n => off'[m] = off[m] /\ accounts'[m] = accounts[m]
    BY <2>1 DEF TypesInv, StoresTyped, NoAccount
  <2>3. DeletedNotRevived'
    BY <2>1, <2>2 DEF OffInv, DeletedNotRevived, Active
  <2>4. ASSUME NEW q \in Request PROVE OffOK(request'[q], accounts', clobbered')
    <3>1. CASE q = r
      BY <1>none, <1>d, <2>1, <3>1
    <3>2. CASE q # r
      <4>1. request'[q] = request[q] /\ (request[q].at # "none" => request[q].user \in User)
        BY <1>d, <1>q, <2>1, <3>2 DEF Shape
      <4> QED BY <1>q, <2>1, <2>2, <4>1 DEF OffOK
    <3> QED BY <3>1, <3>2
  <2> QED BY <2>3, <2>4 DEF OffInv
<1>21. CASE Tick
  BY <1>21, <1>0 DEF Tick, stores, ghosts
<1>22. CASE Crash
  <2>1. UNCHANGED <<accounts, off, clobbered>> /\ request' = [r \in Request |-> NoRequest]
    BY <1>22 DEF Crash
  <2> QED BY <1>none, <2>1 DEF OffInv, DeletedNotRevived, Active
<1>23. CASE UNCHANGED vars
  BY <1>23, <1>0 DEF vars, stores, ghosts
<1> QED
  BY <1>1, <1>2, <1>3, <1>4, <1>5, <1>6, <1>7, <1>8, <1>9, <1>10, <1>11, <1>12, <1>13,
     <1>14, <1>15, <1>16, <1>17, <1>18, <1>19, <1>20, <1>21, <1>22, <1>23 DEF Next

----------------------------------------------------------------------------
(* Guessing behind the limiter                                             *)

\* The requests past the check of a key are finitely many.
LEMMA PastFinite ==
    ASSUME NEW k
    PROVE  /\ IsFiniteSet(Past(k)) /\ Cardinality(Past(k)) \in Nat /\ Cardinality(Request) \in Nat
           /\ Past(k) \subseteq Request
<1>1. Past(k) \subseteq Request
  BY DEF Past
<1> QED BY <1>1, FS_Subset, FS_CardinalityType

\* A step after which no more requests are past the check, no more failures counted and no
\* wait begun.
LEMMA PastShrinks ==
    ASSUME ThrottleInv, NEW k \in Key, late[k] \in Nat, late'[k] = late[k],
           owed'[k] > now' => owed[k] > now /\ Past(k)' \subseteq Past(k)
    PROVE  /\ late'[k] < Cardinality(Request)
           /\ owed'[k] > now' => late'[k] + Cardinality(Past(k)') < Cardinality(Request)
<1>1. late'[k] < Cardinality(Request)
  BY DEF ThrottleInv, ThrottleHolds
<1>2. ASSUME owed'[k] > now' PROVE late'[k] + Cardinality(Past(k)') < Cardinality(Request)
  <2>1. late[k] + Cardinality(Past(k)) < Cardinality(Request) /\ Past(k)' \subseteq Past(k)
    BY <1>2 DEF ThrottleInv, ThrottleCounts
  <2>2. IsFiniteSet(Past(k)) /\ Cardinality(Past(k)) \in Nat /\ Cardinality(Request) \in Nat
    BY PastFinite
  <2>3. Cardinality(Past(k)') \in Nat /\ Cardinality(Past(k)') <= Cardinality(Past(k))
    BY <2>1, <2>2, FS_Subset, FS_CardinalityType
  <2> QED BY <2>1, <2>2, <2>3
<1> QED BY <1>1, <1>2

\* A request that moves on and is not waiting for its password's verdict unless it was.
LEMMA PastKept ==
    ASSUME RequestsTyped, NEW r \in Request, NEW x, request' = [request EXCEPT ![r] = x],
           x.at \in {"password", "failed"} =>
              request[r].at \in {"password", "failed"} /\ x.user = request[r].user,
           NEW k
    PROVE  Past(k)' \subseteq Past(k)
<1>1. Past(k)' = {q \in Request : request'[q].at \in {"password", "failed"}
                                  /\ (k = address \/ pairKey(request'[q].user) = k)}
  BY DEF Past
<1>2. ASSUME NEW q \in Past(k)' PROVE q \in Past(k)
  <2>1. q \in Request /\ request'[q].at \in {"password", "failed"} /\ (k = address \/ pairKey(request'[q].user) = k)
    BY <1>1, <1>2
  <2>2. CASE q = r
    <3>1. request'[q] = x
      BY <2>2 DEF RequestsTyped
    <3> QED BY <2>1, <2>2, <3>1 DEF Past
  <2>3. CASE q # r
    <3>1. request'[q] = request[q]
      BY <2>3 DEF RequestsTyped
    <3> QED BY <2>1, <3>1 DEF Past
  <2> QED BY <2>2, <2>3
<1> QED BY <1>2

\* The same for a request that is answered.
LEMMA DonePast ==
    ASSUME RequestsTyped, NEW r \in Request, Done(r), NEW k
    PROVE  Past(k)' \subseteq Past(k)
<1>1. NoRequest.at \notin {"password", "failed"}
  BY DEF NoRequest
<1> QED BY <1>1, PastKept DEF Done

\* And for one that moves on past the verdict.
LEMMA GotoPast ==
    ASSUME RequestsTyped, NEW r \in Request, NEW l \in {"counted", "authenticated", "touch"}, Goto(r, l), NEW k
    PROVE  Past(k)' \subseteq Past(k)
<1> DEFINE x == [request[r] EXCEPT !.at = l]
<1>1. request' = [request EXCEPT ![r] = x]
  BY DEF Goto
<1>2. x.at = l
  BY DEF RequestsTyped, Shape
<1> HIDE DEF x
<1> QED BY <1>1, <1>2, PastKept

\* Only a new attempt with a password adds to the requests past the check.
LEMMA PastGrows ==
    ASSUME TypesInv, [Next]_vars, NEW k \in Key
    PROVE  \/ Past(k)' \subseteq Past(k)
           \/ \E r \in Request, n \in User, pw \in Password, want \in (Wants \ {"logout"}) \cup {"login"} :
                 PresentPassword(r, n, pw, want)
<1> DEFINE Kept == Past(k)' \subseteq Past(k)
<1>t. RequestsTyped /\ \A r \in Request : Shape(request[r])
  BY DEF TypesInv, RequestsTyped
<1>0. ASSUME UNCHANGED request PROVE Kept
  BY <1>0 DEF Past
<1>2. ASSUME NEW r \in Request, CheckPassword(r) PROVE Kept
  <2> DEFINE q == request[r]
             a == accounts[q.user]
             y == [at |-> "rehash", user |-> q.user, want |-> q.want, cred |-> 0, after |-> q.after, read |-> a]
             x == IF ~(Active(q.user) /\ a.password = q.password) THEN [q EXCEPT !.at = "failed"]
                  ELSE IF a.current THEN [q EXCEPT !.at = "verified"] ELSE y
  <2>1. q.at = "password" /\ request' = [request EXCEPT ![r] = x]
    BY <1>2 DEF CheckPassword
  <2>2. {"at", "user"} \subseteq DOMAIN q
    BY <1>t, <2>1 DEF Shape
  <2>3. x.at = "failed" => x.user = q.user
    BY <2>2
  <2>4. x.at # "password"
    BY <2>2
  <2> HIDE DEF x
  <2> QED BY <1>t, <2>1, <2>3, <2>4, PastKept
<1>3. ASSUME NEW r \in Request, Rehash(r) PROVE Kept
  <2> DEFINE q == request[r]
             x == [at |-> "verified", user |-> q.user, want |-> q.want, cred |-> 0, after |-> q.after]
  <2>1. request' = [request EXCEPT ![r] = x] /\ x.at = "verified"
    BY <1>3 DEF Rehash
  <2> HIDE DEF x
  <2> QED BY <1>t, <2>1, PastKept
<1>4. ASSUME NEW r \in Request, PutSession(r) PROVE Kept
  BY <1>4, <1>t, GotoPast DEF PutSession
<1>5. ASSUME NEW r \in Request, Succeed(r) PROVE Kept
  BY <1>5, <1>t, GotoPast, DonePast DEF Succeed
<1>6. ASSUME NEW r \in Request, FailPassword(r) PROVE Kept
  BY <1>6, <1>t, DonePast DEF FailPassword
<1>7. ASSUME NEW r \in Request, NEW c \in Cred, NEW want \in Wants, PresentBearer(r, c, want) PROVE Kept
  <2> DEFINE x == IF ~valid(creds[c]) THEN NoRequest
                  ELSE [at |-> "subject", user |-> creds[c].subject, want |-> want, cred |-> c,
                        time |-> now, after |-> off[creds[c].subject]]
  <2>1. request' = [request EXCEPT ![r] = x] /\ x.at \in {"none", "subject"}
    BY <1>7 DEF PresentBearer, Arrives, NoRequest
  <2> HIDE DEF x
  <2> QED BY <1>t, <2>1, PastKept
<1>8. ASSUME NEW r \in Request, CheckSubject(r) PROVE Kept
  BY <1>8, <1>t, GotoPast, DonePast DEF CheckSubject
<1>9. ASSUME NEW r \in Request, Touch(r) PROVE Kept
  <2> DEFINE q == request[r]
             x == [at |-> "authenticated", user |-> q.user, want |-> q.want, cred |-> q.cred, after |-> q.after]
  <2>1. request' = [request EXCEPT ![r] = x] /\ x.at = "authenticated"
    BY <1>9 DEF Touch, Authenticated
  <2> HIDE DEF x
  <2> QED BY <1>t, <2>1, PastKept
<1>10. ASSUME NEW r \in Request, Logout(r) PROVE Kept
  BY <1>10, <1>t, DonePast DEF Logout
<1>11. ASSUME NEW r \in Request, CreateToken(r) PROVE Kept
  BY <1>11, <1>t, DonePast DEF CreateToken
<1>12. ASSUME NEW r \in Request, NEW c \in Cred, RevokeToken(r, c) PROVE Kept
  BY <1>12, <1>t, DonePast DEF RevokeToken
<1>13. ASSUME NEW r \in Request, NEW pw \in Password, GetForPassword(r, pw) PROVE Kept
  <2> DEFINE q == request[r]
             x == IF ~Exists(q.user) THEN NoRequest
                  ELSE [at |-> "setPassword", user |-> q.user, password |-> pw, read |-> accounts[q.user],
                        after |-> q.after]
  <2>1. request' = [request EXCEPT ![r] = x] /\ x.at \in {"none", "setPassword"}
    BY <1>13 DEF GetForPassword, NoRequest
  <2> HIDE DEF x
  <2> QED BY <1>t, <2>1, PastKept
<1>14. ASSUME NEW r \in Request, SetPassword(r) PROVE Kept
  BY <1>14, <1>t, DonePast DEF SetPassword
<1>15. ASSUME NEW r \in Request, NEW n \in User, NEW pw \in Password, CreateAccount(r, n, pw) PROVE Kept
  <2>1. CASE request' = [q \in Request |-> IF request[q].at # "none" /\ request[q].user = n
                                           THEN [request[q] EXCEPT !.after = FALSE] ELSE request[q]]
    <3>1. ASSUME NEW q \in Request, request'[q].at \in {"password", "failed"}
          PROVE  request[q].at \in {"password", "failed"} /\ request'[q].user = request[q].user
      <4>1. CASE request[q].at # "none" /\ request[q].user = n
        <5>1. {"at", "user", "after"} \subseteq DOMAIN request[q]
          BY <1>t, <4>1 DEF Shape
        <5>2. request'[q] = [request[q] EXCEPT !.after = FALSE]
          BY <2>1, <4>1
        <5> QED BY <3>1, <5>1, <5>2
      <4>2. CASE ~(request[q].at # "none" /\ request[q].user = n)
        BY <2>1, <3>1, <4>2
      <4> QED BY <4>1, <4>2
    <3> QED BY <3>1 DEF Past
  <2> QED BY <1>0, <1>15, <2>1 DEF CreateAccount
<1>16. ASSUME NEW r \in Request, NEW n \in User, NEW what \in {"disable", "delete", "setPassword"},
              Administer(r, n, what)
       PROVE  Kept
  <2> DEFINE x == IF ~Exists(n) THEN NoRequest
                  ELSE IF what = "setPassword"
                  THEN [at |-> "authenticated", user |-> n, want |-> what, cred |-> 0, after |-> FALSE]
                  ELSE [at |-> what, user |-> n, read |-> accounts[n], after |-> FALSE]
  <2>1. request' = [request EXCEPT ![r] = x] /\ x.at \in {"none", "authenticated", "disable", "delete"}
    BY <1>16 DEF Administer, Arrives, NoRequest
  <2> HIDE DEF x
  <2> QED BY <1>t, <2>1, PastKept
<1>17. ASSUME NEW r \in Request, DisableUpdate(r) PROVE Kept
  <2> DEFINE q == request[r]
             x == IF Exists(q.user) THEN [at |-> "revokeAll", user |-> q.user, after |-> FALSE] ELSE NoRequest
  <2>1. request' = [request EXCEPT ![r] = x] /\ x.at \in {"none", "revokeAll"}
    BY <1>17 DEF DisableUpdate, NoRequest
  <2> HIDE DEF x
  <2> QED BY <1>t, <2>1, PastKept
<1>18. ASSUME NEW r \in Request, DisableRevoke(r) PROVE Kept
  BY <1>18, <1>t, DonePast DEF DisableRevoke
<1>19. ASSUME NEW r \in Request, DeleteRevoke(r) PROVE Kept
  <2> DEFINE x == [at |-> "remove", user |-> request[r].user, after |-> FALSE]
  <2>1. request' = [request EXCEPT ![r] = x] /\ x.at = "remove"
    BY <1>19 DEF DeleteRevoke
  <2> HIDE DEF x
  <2> QED BY <1>t, <2>1, PastKept
<1>20. ASSUME NEW r \in Request, Delete(r) PROVE Kept
  BY <1>20, <1>t, DonePast DEF Delete
<1>21. CASE Tick
  BY <1>21, <1>0 DEF Tick
<1>22. CASE Crash
  BY <1>22 DEF Crash, Past, NoRequest
<1>23. CASE UNCHANGED vars
  BY <1>23, <1>0 DEF vars
<1> QED
  BY <1>2, <1>3, <1>4, <1>5, <1>6, <1>7, <1>8, <1>9, <1>10, <1>11, <1>12, <1>13,
     <1>14, <1>15, <1>16, <1>17, <1>18, <1>19, <1>20, <1>21, <1>22, <1>23 DEF Next

\* Every step keeps the count of guesses that a wait may still see.
LEMMA ThrottleStep == TypesInv /\ WaitKept /\ ThrottleInv /\ [Next]_vars => ThrottleInv'
<1> SUFFICES ASSUME TypesInv, WaitKept, ThrottleInv, [Next]_vars, NEW k \in Key
             PROVE  /\ late'[k] < Cardinality(Request)
                    /\ owed'[k] > now' => late'[k] + Cardinality(Past(k)') < Cardinality(Request)
  BY DEF ThrottleInv, ThrottleCounts, ThrottleHolds
<1>n. now \in Nat /\ LimitsTyped /\ late[k] \in Nat /\ owed[k] \in Int /\ RequestsTyped
  BY DEF TypesInv, StoresTyped, LimitsTyped
<1>w. owed[k] > now => Waiting(k)
  BY <1>n DEF WaitKept, Waiting, LimitsTyped, FailureOK, FailureRecord
<1>1. CASE UNCHANGED <<limits, now>>
  <2>1. owed'[k] = owed[k] /\ late'[k] = late[k] /\ now' = now
    BY <1>1 DEF limits
  <2>2. owed[k] > now => Past(k)' \subseteq Past(k)
    <3> SUFFICES ASSUME owed[k] > now,
                        NEW r \in Request, NEW n \in User, NEW pw \in Password,
                        NEW want \in (Wants \ {"logout"}) \cup {"login"}, PresentPassword(r, n, pw, want)
                 PROVE  Past(k)' \subseteq Past(k)
      BY PastGrows
    <3> DEFINE y == [at |-> "password", user |-> n, password |-> pw, want |-> want, cred |-> 0, after |-> off[n]]
               x == IF throttled(n) THEN NoRequest ELSE y
    <3>1. request' = [request EXCEPT ![r] = x]
      BY DEF PresentPassword, Arrives
    <3>2. CASE throttled(n)
      <4>1. x = NoRequest
        BY <3>2
      <4> HIDE DEF x
      <4> QED BY <1>n, <3>1, <4>1, DonePast DEF Done
    <3>3. CASE ~throttled(n)
      <4>1. k # pairKey(n) /\ k # address
        BY <1>w, <3>3 DEF throttled
      <4>2. x.user = n /\ x = y
        BY <3>3
      <4> HIDE DEF x, y
      <4>3. \A q \in Request : q # r => request'[q] = request[q]
        BY <1>n, <3>1 DEF RequestsTyped
      <4>4. request'[r] = x
        BY <1>n, <3>1 DEF RequestsTyped
      <4> QED BY <4>1, <4>2, <4>3, <4>4 DEF Past
    <3> QED BY <3>2, <3>3
  <2> QED BY <1>n, <2>1, <2>2, PastShrinks
<1>2. ASSUME NEW r \in Request, FailPassword(r)
      PROVE  /\ late'[k] < Cardinality(Request)
             /\ owed'[k] > now' => late'[k] + Cardinality(Past(k)') < Cardinality(Request)
  <2> DEFINE n == request[r].user
  <2>1. n \in User /\ failed(n) /\ now' = now /\ Done(r) /\ request[r].at = "failed"
    BY <1>2, <1>n DEF FailPassword, RequestsTyped, Shape
  <2>2. Past(k)' \subseteq Past(k)
    BY <1>n, <2>1, DonePast
  <2>3. CASE k \in {pairKey(n), address}
    <3>1. late'[k] = IF owed[k] > now THEN late[k] + 1 ELSE 0
      BY <1>n, <2>1, <2>3, FailedKey
    <3>2. r \notin Past(k)'
      BY <1>n, <2>1 DEF Done, Past, RequestsTyped, NoRequest
    <3>3. r \in Past(k)
      BY <2>1, <2>3 DEF Past
    <3>4. /\ IsFiniteSet(Past(k)) /\ Cardinality(Past(k)) \in Nat /\ Cardinality(Request) \in Nat
          /\ Past(k) \subseteq Request
      BY PastFinite
    <3>5. /\ Cardinality(Past(k) \ {r}) = Cardinality(Past(k)) - 1 /\ IsFiniteSet(Past(k) \ {r})
          /\ Cardinality(Request \ {r}) = Cardinality(Request) - 1 /\ IsFiniteSet(Request \ {r})
      BY <3>3, <3>4, FS_RemoveElement
    <3>6. /\ Cardinality(Past(k)') \in Nat
          /\ Cardinality(Past(k)') <= Cardinality(Past(k)) - 1
          /\ Cardinality(Past(k)') <= Cardinality(Request) - 1
      <4>1. Past(k)' \subseteq Past(k) \ {r} /\ Past(k)' \subseteq Request \ {r}
        BY <2>2, <3>2, <3>4
      <4> QED BY <3>5, <4>1, FS_Subset, FS_CardinalityType
    <3>7. owed[k] > now => late[k] + Cardinality(Past(k)) < Cardinality(Request)
      BY DEF ThrottleInv, ThrottleCounts
    <3> QED BY <1>n, <3>1, <3>4, <3>6, <3>7
  <2>4. CASE k \notin {pairKey(n), address}
    <3>1. owed'[k] = owed[k] /\ late'[k] = late[k]
      BY <1>n, <2>1, <2>4, FailedKey
    <3> QED BY <1>n, <2>1, <2>2, <3>1, PastShrinks
  <2> QED BY <2>3, <2>4
<1>3. ASSUME NEW r \in Request, Succeed(r)
      PROVE  /\ late'[k] < Cardinality(Request)
             /\ owed'[k] > now' => late'[k] + Cardinality(Past(k)') < Cardinality(Request)
  <2>1. late' = late /\ now' = now /\ owed'[k] \in {0, owed[k]}
    BY <1>3, <1>n DEF Succeed, succeeded, LimitsTyped
  <2>2. Past(k)' \subseteq Past(k)
    BY <1>3, <1>n, GotoPast, DonePast DEF Succeed
  <2> QED BY <1>n, <2>1, <2>2, PastShrinks
<1>4. CASE Tick
  <2>1. late' = late /\ owed' = owed /\ now' = now + 1
    BY <1>4 DEF Tick, limits
  <2>2. Past(k)' \subseteq Past(k)
    BY <1>4 DEF Tick, Past
  <2> QED BY <1>n, <2>1, <2>2, PastShrinks
<1>5. CASE Crash
  <2>1. late'[k] = 0 /\ owed'[k] = 0 /\ now' = now
    BY <1>5 DEF Crash
  <2>2. Cardinality(Request) > 0
    BY FS_EmptySet, FS_CardinalityType
  <2> QED BY <1>n, <2>1, <2>2
<1> QED BY <1>1, <1>2, <1>3, <1>4, <1>5, LimitsTouched

----------------------------------------------------------------------------
(* The theorems                                                            *)

Inv == TypesInv /\ WaitKept /\ RevokedInv /\ OffInv /\ ThrottleInv

\* The initial states: accounts, nothing given out, nobody waiting.
LEMMA InvInit == Init => Inv
<1> SUFFICES ASSUME Init PROVE Inv
  OBVIOUS
<1>1. StoresTyped
  BY DEF Init, StoresTyped, AccountRecord, Account, Cred
<1>2. RequestsTyped
  BY DEF Init, RequestsTyped, Shape, At, NoRequest
<1>3. \A k \in Key : FailureOK(k, NoFailure)
  BY NoFailureOK DEF Init
<1>4. LimitsTyped /\ WaitKept
  BY <1>3 DEF Init, LimitsTyped, WaitKept
<1>5. RevokedInv
  BY DEF Init, RevokedInv, RevokedMinted, RevokedStaysRevoked
<1>6. OffInv
  BY DEF Init, OffInv, DeletedNotRevived, OffOK, NoRequest
<1>7. ThrottleInv
  <2>1. Cardinality(Request) > 0
    BY FS_EmptySet, FS_CardinalityType
  <2> QED BY <2>1 DEF Init, ThrottleInv, ThrottleCounts, ThrottleHolds
<1> QED BY <1>1, <1>2, <1>4, <1>5, <1>6, <1>7 DEF Inv, TypesInv

\* Every step of every request, the clock and a restart keep the invariant.
THEOREM AccountsInvariant == Spec => []Inv
<1>1. Inv /\ [Next]_vars => Inv'
  BY StoresStep, RequestsStep, LimitsStep, RevokedStep, OffStep, ThrottleStep DEF Inv, TypesInv
<1> QED BY <1>1, InvInit, PTL DEF Spec

\* The stores stay well formed, whatever requests write back, and no wait is longer than the
\* limiter's max.
THEOREM TypeCorrect == Spec => []TypeOK
<1>1. Inv => TypeOK
  <2> SUFFICES ASSUME Inv PROVE TypeOK
    OBVIOUS
  <2>1. \A n \in User : accounts[n] = NoAccount \/ accounts[n].state \in {"active", "disabled"}
    BY DEF Inv, TypesInv, StoresTyped, AccountRecord
  <2>2. \A c \in Cred : creds[c] = NoCred \/ (c <= minted /\ creds[c].subject \in User)
    BY DEF Inv, TypesInv, StoresTyped, CredRecord
  <2>3. \A k \in Key : failures[k].last <= now /\ failures[k].until <= failures[k].last + max
    BY UntilBounded DEF Inv, TypesInv, StoresTyped, LimitsTyped, FailureOK
  <2> QED BY <2>1, <2>2, <2>3 DEF TypeOK, Inv, TypesInv, StoresTyped
<1> QED BY <1>1, AccountsInvariant, PTL

\* However logouts, revocations and sweeps interleave with requests that already read the
\* credential, a revoked credential never comes back.
THEOREM RevocationPermanent == Spec => []RevokedStaysRevoked
<1>1. Inv => RevokedStaysRevoked
  BY DEF Inv, RevokedInv
<1> QED BY <1>1, AccountsInvariant, PTL

\* No request that arrives after an account was disabled or deleted gets through, unless an
\* update of the account was lost.
THEOREM DisabledKeptOut == Spec => []DisableHolds
<1>1. Inv => DisableHolds
  BY DEF Inv, OffInv, OffOK, DisableHolds
<1> QED BY <1>1, AccountsInvariant, PTL

\* An account that is off is inactive unless an update of it was lost.
THEOREM DeletedStaysOff == Spec => []DeletedNotRevived
<1>1. Inv => DeletedNotRevived
  BY DEF Inv, OffInv
<1> QED BY <1>1, AccountsInvariant, PTL

\* A wait once imposed lasts: neither the sweep nor a further failure nor the success of an
\* account of another key ends it early, however ToLower folds the names.
THEOREM WaitsServed == Spec => []WaitServed
<1>1. Inv => WaitServed
  <2> SUFFICES ASSUME Inv, NEW k \in Key, owed[k] > now PROVE Waiting(k)
    BY DEF WaitServed
  <2>1. owed[k] <= failures[k].until /\ owed[k] \in Int /\ failures[k].until \in Int /\ now \in Int
    BY DEF Inv, WaitKept, TypesInv, StoresTyped, LimitsTyped, FailureOK, FailureRecord
  <2> QED BY <2>1 DEF Waiting
<1> QED BY <1>1, AccountsInvariant, PTL

\* While a key waits, at most the other requests that were under way when the wait began are
\* counted: with any number of requests, guessing cannot go on behind the limiter.
THEOREM ThrottleBounds == Spec => []ThrottleHolds
<1>1. Inv => ThrottleHolds
  BY DEF Inv, ThrottleInv
<1> QED BY <1>1, AccountsInvariant, PTL
=============================================================================
