--------------------------- MODULE SessionsProofs ---------------------------
(***************************************************************************)
(* Proofs about Sessions for every set of requests and every lifetime.     *)
(***************************************************************************)
EXTENDS Sessions, TLAPS

(* Type correctness *)

LEMMA TypeInit == Init => TypeOK
  BY DEF Init, TypeOK, Ended

LEMMA RegisterType ==
    ASSUME Inductive, NEW r \in Registrations, RegisterStep(r)
    PROVE  TypeOK'
<1>0. TypeOK /\ r \in Requests /\ r \in Issuers
  BY DEF Inductive, Requests, Issuers
<1>1. CASE CheckEmail(r)
  BY <1>0, <1>1 DEF CheckEmail, Goto, TypeOK, Ended, inputs, issued, redis
<1>2. CASE InsertBusiness(r) \/ EmailViolation(r) \/ Fail(r)
  BY <1>0, <1>2
  DEF InsertBusiness, EmailViolation, Fail, Goto, TypeOK, Ended, inputs, issued, redis
<1>3. CASE CommitRegistration(r)
  BY <1>0, <1>3 DEF CommitRegistration, Goto, TypeOK, Ended, inputs, redis
<1>4. CASE IssueTokens(r)
  BY <1>0, <1>4 DEF IssueTokens, Goto, TypeOK, Ended, inputs, redis
<1>5. QED
  BY <1>1, <1>2, <1>3, <1>4 DEF RegisterStep

LEMMA LoginType ==
    ASSUME Inductive, NEW l \in Logins, LoginStep(l)
    PROVE  TypeOK'
<1>0. TypeOK /\ l \in Requests /\ l \in Issuers
  BY DEF Inductive, Requests, Issuers
<1>1. CASE FindUser(l)
  BY <1>0, <1>1 DEF FindUser, Goto, TypeOK, Ended, inputs, redis
<1>2. CASE LoginFails(l)
  BY <1>0, <1>2 DEF LoginFails, Goto, TypeOK, Ended, inputs, issued, redis
<1>3. CASE IssueTokens(l)
  BY <1>0, <1>3 DEF IssueTokens, Goto, TypeOK, Ended, inputs, redis
<1>4. QED
  BY <1>1, <1>2, <1>3 DEF LoginStep

LEMMA RefreshType ==
    ASSUME Inductive, NEW f \in Refreshes, RefreshStep(f)
    PROVE  TypeOK'
<1>0. TypeOK /\ f \in Requests /\ f \in Issuers /\ f \in Bearers
  BY DEF Inductive, Requests, Issuers, Bearers
<1>1. CASE DecodeRefresh(f)
  BY <1>0, <1>1
  DEF DecodeRefresh, Present, Issued, Goto, TypeOK, Ended, inputs, issued, redis
<1>2. CASE RefreshUser(f)
  <2>1. CASE user[token[f]] \in registered
    BY <1>0, <1>2, <2>1 DEF RefreshUser, Goto, TypeOK, Ended, inputs, redis
  <2>2. CASE user[token[f]] \notin registered
    BY <1>0, <1>2, <2>2 DEF RefreshUser, Goto, TypeOK, Ended, inputs, redis
  <2>3. QED
    BY <2>1, <2>2
<1>3. CASE IssueTokens(f)
  BY <1>0, <1>3 DEF IssueTokens, Goto, TypeOK, Ended, inputs, redis
<1>4. QED
  BY <1>1, <1>2, <1>3 DEF RefreshStep

\* A token that decodes lives for a natural number of seconds.
LEMMA RemainingType ==
    ASSUME TypeOK, NEW i \in Issued, Valid(i, AccessSeconds)
    PROVE  Remaining(i) \in Nat /\ second + Remaining(i) = Exp(i)
<1>1. i \in Issuers /\ issuedAt[i] \in Nat /\ second \in Nat
  BY DEF Issued, TypeOK
<1>2. QED
  BY <1>1, TimeAssumption DEF Valid, Remaining, Exp

LEMMA LogoutType ==
    ASSUME Inductive, NEW x \in Logouts, LogoutStep(x)
    PROVE  TypeOK'
<1>0. TypeOK /\ x \in Requests /\ x \in Bearers
  BY DEF Inductive, Requests, Bearers
<1>1. CASE DecodeLogout(x)
  <2>1. PICK i \in Issued :
          /\ Present(x, i)
          /\ IF Valid(i, AccessSeconds)
             THEN ttl' = [ttl EXCEPT ![x] = Remaining(i)] /\ Goto(x, "store")
             ELSE Goto(x, "ok") /\ UNCHANGED ttl
    BY <1>1 DEF DecodeLogout
  <2>2. ttl' \in [Logouts -> Nat]
    BY <1>0, <2>1, RemainingType DEF TypeOK
  <2>3. QED
    BY <1>0, <1>1, <2>1, <2>2
    DEF DecodeLogout, Present, Issued, Goto, TypeOK, Ended, inputs, issued, redis
<1>2. CASE StoreRevocation(x) \/ StoreUnanswered(x)
  <2>1. token[x] \in Issuers
    BY <1>0, <1>2 DEF StoreRevocation, StoreUnanswered, Inductive, TokensIssued, Issued
  <2>2. second + ttl[x] \in Nat
    BY <1>0 DEF TypeOK
  <2>3. QED
    BY <1>0, <1>2, <2>1, <2>2
    DEF StoreRevocation, StoreUnanswered, Blacklist, Goto, TypeOK, Ended, inputs, issued
<1>3. CASE StoreRefused(x)
  BY <1>0, <1>3 DEF StoreRefused, Goto, TypeOK, Ended, inputs, issued, redis
<1>4. QED
  BY <1>1, <1>2, <1>3 DEF LogoutStep

LEMMA CallType ==
    ASSUME Inductive, NEW c \in Calls, CallStep(c)
    PROVE  TypeOK'
<1>0. TypeOK /\ c \in Requests /\ c \in Bearers
  BY DEF Inductive, Requests, Bearers
<1>1. CASE DecodeCall(c)
  BY <1>0, <1>1
  DEF DecodeCall, Present, Issued, Goto, TypeOK, Ended, inputs, issued, redis
<1>2. CASE CheckBlacklist(c) \/ FindCaller(c)
  BY <1>0, <1>2
  DEF CheckBlacklist, FindCaller, Goto, TypeOK, Ended, inputs, issued, redis
<1>3. QED
  BY <1>1, <1>2 DEF CallStep

LEMMA TypeStep == Inductive /\ [Next]_vars => TypeOK'
<1>. SUFFICES ASSUME Inductive, [Next]_vars PROVE TypeOK'
  OBVIOUS
<1>0. TypeOK
  BY DEF Inductive
<1>1. ASSUME NEW i \in Issuers, Expire(i) \/ Lose(i) PROVE TypeOK'
  BY <1>0, <1>1 DEF Expire, Lose, TypeOK, inputs, issued
<1>2. CASE Tick
  BY <1>0, <1>2 DEF Tick, TypeOK, inputs, issued, redis
<1>3. CASE UNCHANGED vars
  BY <1>0, <1>3 DEF vars, TypeOK, inputs, issued, redis
<1>4. QED
  BY <1>1, <1>2, <1>3, RegisterType, LoginType, RefreshType, LogoutType, CallType
  DEF Next

-----------------------------------------------------------------------------
(* Business emails *)

\* No new claim to an email.
EmailsAside ==
    /\ UNCHANGED <<businessEmail, registered>>
    /\ \A r \in Registrations : pc'[r] = "commit" => pc[r] = "commit"

LEMMA EmailsAsideStep ==
    ASSUME Inductive, EmailsAside
    PROVE  BusinessEmailsUnique' /\ EmailsClaimed'
  BY DEF Inductive, EmailsAside, BusinessEmailsUnique, EmailsClaimed

LEMMA EmailsRegister ==
    ASSUME Inductive, NEW r \in Registrations, RegisterStep(r)
    PROVE  BusinessEmailsUnique' /\ EmailsClaimed'
<1>0. /\ TypeOK /\ BusinessEmailsUnique /\ EmailsClaimed
      /\ \A q \in Registrations : q \in Requests
  BY DEF Inductive, Requests, Issuers
<1>1. CASE CheckEmail(r) \/ EmailViolation(r) \/ Fail(r) \/ IssueTokens(r)
  <2>1. EmailsAside
    BY <1>0, <1>1
    DEF EmailsAside, CheckEmail, EmailViolation, Fail, IssueTokens, Goto,
        TypeOK, inputs
  <2>2. QED
    BY <2>1, EmailsAsideStep
<1>2. CASE InsertBusiness(r)
  <2>1. UNCHANGED <<businessEmail, registered>> /\ pc' = [pc EXCEPT ![r] = "commit"]
    BY <1>2 DEF InsertBusiness, Goto, inputs
  <2>2. \A q \in Registrations \ {r} :
          pc[q] = "commit" \/ q \in registered => businessEmail[q] # businessEmail[r]
    BY <1>2 DEF InsertBusiness, EmailPending, EmailTaken
  <2>3. QED
    BY <1>0, <2>1, <2>2 DEF BusinessEmailsUnique, EmailsClaimed, TypeOK
<1>3. CASE CommitRegistration(r)
  <2>1. /\ businessEmail' = businessEmail /\ registered' = registered \cup {r}
        /\ pc[r] = "commit" /\ pc' = [pc EXCEPT ![r] = "issue"]
    BY <1>3 DEF CommitRegistration, Goto, inputs
  <2>2. QED
    BY <1>0, <2>1 DEF BusinessEmailsUnique, EmailsClaimed, TypeOK
<1>4. QED
  BY <1>1, <1>2, <1>3 DEF RegisterStep

LEMMA EmailsStep ==
    ASSUME Inductive, [Next]_vars
    PROVE  BusinessEmailsUnique' /\ EmailsClaimed'
<1>0. TypeOK /\ \A q \in Registrations : q \in Requests
  BY DEF Inductive, Requests, Issuers
<1>1. ASSUME NEW l \in Logins, LoginStep(l) PROVE EmailsAside
  <2>1. UNCHANGED <<businessEmail, registered>>
    BY <1>1 DEF LoginStep, FindUser, LoginFails, IssueTokens, inputs
  <2>2. \E v \in {"issue", "refused", "error", "ok"} : pc' = [pc EXCEPT ![l] = v]
    <3>1. CASE FindUser(l) \/ IssueTokens(l)
      BY <3>1 DEF FindUser, IssueTokens, Goto
    <3>2. CASE LoginFails(l)
      BY <3>2, Zenon DEF LoginFails, Goto
    <3>3. QED
      BY <1>1, <3>1, <3>2 DEF LoginStep
  <2>3. QED
    BY <1>0, <2>1, <2>2 DEF EmailsAside, TypeOK
<1>2. ASSUME NEW f \in Refreshes, RefreshStep(f) PROVE EmailsAside
  <2>1. UNCHANGED <<businessEmail, registered>>
    BY <1>2 DEF RefreshStep, DecodeRefresh, RefreshUser, IssueTokens, inputs
  <2>2. \E v \in {"user", "refused", "issue", "ok"} : pc' = [pc EXCEPT ![f] = v]
    BY <1>2 DEF RefreshStep, DecodeRefresh, RefreshUser, IssueTokens, Goto
  <2>3. QED
    BY <1>0, <2>1, <2>2 DEF EmailsAside, TypeOK
<1>3. ASSUME NEW x \in Logouts, LogoutStep(x) PROVE EmailsAside
  <2>1. UNCHANGED <<businessEmail, registered>>
    BY <1>3
    DEF LogoutStep, DecodeLogout, StoreRevocation, StoreUnanswered, StoreRefused, inputs
  <2>2. \E v \in {"store", "error", "ok"} : pc' = [pc EXCEPT ![x] = v]
    BY <1>3
    DEF LogoutStep, DecodeLogout, StoreRevocation, StoreUnanswered, StoreRefused, Goto
  <2>3. QED
    BY <1>0, <2>1, <2>2 DEF EmailsAside, TypeOK
<1>4. ASSUME NEW c \in Calls, CallStep(c) PROVE EmailsAside
  <2>1. UNCHANGED <<businessEmail, registered>>
    BY <1>4 DEF CallStep, DecodeCall, CheckBlacklist, FindCaller, inputs
  <2>2. \E v \in {"blacklist", "user", "refused", "ok"} : pc' = [pc EXCEPT ![c] = v]
    BY <1>4 DEF CallStep, DecodeCall, CheckBlacklist, FindCaller, Goto
  <2>3. QED
    BY <1>0, <2>1, <2>2 DEF EmailsAside, TypeOK
<1>5. ASSUME NEW i \in Issuers, Expire(i) \/ Lose(i) PROVE EmailsAside
  BY <1>5 DEF Expire, Lose, EmailsAside, inputs
<1>6. ASSUME Tick PROVE EmailsAside
  BY <1>6 DEF Tick, EmailsAside, inputs
<1>7. ASSUME UNCHANGED vars PROVE EmailsAside
  BY <1>7 DEF vars, EmailsAside, inputs
<1>8. QED
  BY <1>1, <1>2, <1>3, <1>4, <1>5, <1>6, <1>7, EmailsAsideStep, EmailsRegister
  DEF Next

-----------------------------------------------------------------------------
(* Tokens *)

\* What no step changes: tokens that were issued or are about to be.
Steady ==
    /\ UNCHANGED inputs
    /\ registered \subseteq registered'
    /\ \A i \in Issuers :
          /\ pc[i] \in {"issue", "ok"} =>
                /\ user'[i] = user[i]
                /\ i \in Refreshes => token'[i] = token[i]
          /\ issuedAt[i] # None => issuedAt'[i] = issuedAt[i] /\ pc'[i] = "ok"

LEMMA SteadyStep ==
    ASSUME Inductive, [Next]_vars
    PROVE  Steady
<1>0. /\ TypeOK
      /\ \A i \in Issuers : i \in Requests
      /\ \A i \in Issuers : issuedAt[i] # None => pc[i] = "ok"
      /\ \A i \in Refreshes : i \in Bearers
      /\ \A i \in Issuers, x \in Logouts \cup Calls : i # x
      /\ \A i \in Registrations \cup Logins \cup Refreshes : i \in Issuers
  BY RequestAssumption
  DEF Inductive, IssuersKnown, Requests, Issuers, Bearers
<1>1. ASSUME NEW r \in Registrations, RegisterStep(r) PROVE Steady
  <2>1. CASE CommitRegistration(r)
    BY <1>0, <2>1 DEF CommitRegistration, Goto, Steady, TypeOK
  <2>2. CASE IssueTokens(r)
    BY <1>0, <2>2 DEF IssueTokens, Goto, Steady, TypeOK
  <2>3. CASE CheckEmail(r) \/ InsertBusiness(r) \/ EmailViolation(r) \/ Fail(r)
    BY <1>0, <2>3
    DEF CheckEmail, InsertBusiness, EmailViolation, Fail, Goto, Steady,
        TypeOK, issued
  <2>4. QED
    BY <1>1, <2>1, <2>2, <2>3 DEF RegisterStep
<1>2. ASSUME NEW l \in Logins, LoginStep(l) PROVE Steady
  <2>1. CASE FindUser(l)
    BY <1>0, <2>1 DEF FindUser, Goto, Steady, TypeOK
  <2>2. CASE IssueTokens(l)
    BY <1>0, <2>2 DEF IssueTokens, Goto, Steady, TypeOK
  <2>3. CASE LoginFails(l)
    BY <1>0, <2>3 DEF LoginFails, Goto, Steady, TypeOK, issued
  <2>4. QED
    BY <1>2, <2>1, <2>2, <2>3 DEF LoginStep
<1>3. ASSUME NEW f \in Refreshes, RefreshStep(f) PROVE Steady
  <2>1. CASE DecodeRefresh(f)
    BY <1>0, <2>1 DEF DecodeRefresh, Present, Goto, Steady, TypeOK, issued
  <2>2. CASE IssueTokens(f)
    BY <1>0, <2>2 DEF IssueTokens, Goto, Steady, TypeOK
  <2>3. CASE RefreshUser(f)
    BY <1>0, <2>3 DEF RefreshUser, Goto, Steady, TypeOK
  <2>4. QED
    BY <1>3, <2>1, <2>2, <2>3 DEF RefreshStep
<1>4. ASSUME NEW x \in Logouts, LogoutStep(x) PROVE Steady
  <2>1. CASE DecodeLogout(x)
    BY <1>0, <2>1 DEF DecodeLogout, Present, Goto, Steady, TypeOK, issued
  <2>2. CASE StoreRevocation(x) \/ StoreUnanswered(x) \/ StoreRefused(x)
    BY <1>0, <2>2
    DEF StoreRevocation, StoreUnanswered, StoreRefused, Goto, Steady, TypeOK, issued
  <2>3. QED
    BY <1>4, <2>1, <2>2 DEF LogoutStep
<1>5. ASSUME NEW c \in Calls, CallStep(c) PROVE Steady
  <2>1. CASE DecodeCall(c)
    BY <1>0, <2>1 DEF DecodeCall, Present, Goto, Steady, TypeOK, issued
  <2>2. CASE CheckBlacklist(c) \/ FindCaller(c)
    BY <1>0, <2>2 DEF CheckBlacklist, FindCaller, Goto, Steady, TypeOK, issued
  <2>3. QED
    BY <1>5, <2>1, <2>2 DEF CallStep
<1>6. ASSUME NEW i \in Issuers, Expire(i) \/ Lose(i) PROVE Steady
  BY <1>0, <1>6 DEF Expire, Lose, Steady, issued
<1>7. CASE Tick \/ UNCHANGED vars
  BY <1>0, <1>7 DEF Tick, vars, Steady, issued
<1>8. QED
  BY <1>1, <1>2, <1>3, <1>4, <1>5, <1>6, <1>7 DEF Next

LEMMA BelongsStays ==
    ASSUME Inductive, Steady, NEW i \in Issuers, pc[i] \in {"issue", "ok"}, Belongs(i)
    PROVE  Belongs(i)'
<1>1. i \in Refreshes => token[i] \in Issuers /\ issuedAt[token[i]] # None
  BY DEF Inductive, TokensIssued, Issued, Bearers
<1>2. i \in Refreshes => pc[token[i]] = "ok"
  BY <1>1 DEF Inductive, IssuersKnown
<1>3. i \in Refreshes => user'[token[i]] = user[token[i]] /\ token'[i] = token[i]
  BY <1>1, <1>2 DEF Steady
<1>4. user'[i] = user[i]
  BY DEF Steady
<1>5. QED
  BY <1>3, <1>4 DEF Steady, Belongs, inputs

\* Belongs(i) in the state after a step that finds the user of i.
Found(i) ==
    /\ user'[i] \in registered'
    /\ i \in Registrations => user'[i] = i
    /\ i \in Logins => ownerEmail[user'[i]] = email[i]
    /\ i \in Refreshes => user'[i] = user'[token'[i]]

\* How tokens and the users they are issued for come about.
Fresh ==
    /\ \A i \in Issuers :
          /\ issuedAt'[i] # None =>
                issuedAt[i] # None \/ (pc[i] = "issue" /\ pc'[i] = "ok")
          /\ pc'[i] = "issue" => pc[i] = "issue" \/ Found(i)
    /\ \A b \in Bearers :
          pc'[b] # "arrive" =>
            \/ pc[b] # "arrive" /\ token'[b] = token[b]
            \/ token'[b] \in Issued

LEMMA FreshIssue ==
    ASSUME Inductive, NEW i \in Issuers, IssueTokens(i)
    PROVE  Fresh
<1>1. TypeOK /\ \A j \in Issuers \cup Bearers : j \in Requests
  BY DEF Inductive, Requests, Issuers, Bearers
<1>2. /\ UNCHANGED <<user, token>> /\ pc[i] = "issue"
      /\ issuedAt' = [issuedAt EXCEPT ![i] = second]
      /\ pc' = [pc EXCEPT ![i] = "ok"]
  BY DEF IssueTokens, Goto
<1>3. QED
  BY <1>1, <1>2 DEF Fresh, TypeOK

LEMMA FreshStep ==
    ASSUME Inductive, [Next]_vars
    PROVE  Fresh
<1>0. /\ TypeOK
      /\ \A i \in Issuers \cup Bearers : i \in Requests
      /\ \A i \in Refreshes : i \in Bearers
      /\ \A i \in Issuers, x \in Logouts \cup Calls : i # x
      /\ \A r \in Registrations \cup Logins, b \in Bearers : r # b
      /\ \A i \in Registrations \cup Logins \cup Refreshes : i \in Issuers
      /\ \A x \in Logouts \cup Calls : x \in Bearers
  BY RequestAssumption
  DEF Inductive, Requests, Issuers, Bearers
<1>1. ASSUME NEW r \in Registrations, RegisterStep(r) PROVE Fresh
  <2>1. CASE CommitRegistration(r)
    <3>1. Found(r)
      BY <1>0, <2>1, RequestAssumption
      DEF CommitRegistration, Found, TypeOK, Issuers
    <3>2. QED
      BY <1>0, <2>1, <3>1 DEF CommitRegistration, Goto, Fresh, TypeOK
  <2>2. CASE CheckEmail(r) \/ InsertBusiness(r) \/ EmailViolation(r) \/ Fail(r)
    <3>1. /\ UNCHANGED <<issuedAt, token>>
          /\ \E v \in {"refused", "insert", "commit", "error"} :
                pc' = [pc EXCEPT ![r] = v]
      BY <2>2
      DEF CheckEmail, InsertBusiness, EmailViolation, Fail, Goto, issued
    <3>2. QED
      BY <1>0, <3>1 DEF Fresh, TypeOK
  <2>3. QED
    BY <1>0, <1>1, <2>1, <2>2, FreshIssue DEF RegisterStep
<1>2. ASSUME NEW l \in Logins, LoginStep(l) PROVE Fresh
  <2>1. CASE FindUser(l)
    <3>1. PICK u \in Registrations :
            Matches(l) = {u} /\ user' = [user EXCEPT ![l] = u]
      BY <2>1 DEF FindUser
    <3>2. u \in registered /\ ownerEmail[u] = email[l]
      BY <3>1 DEF Matches
    <3>3. user'[l] = u
      BY <1>0, <3>1 DEF TypeOK
    <3>4. Found(l)
      BY <2>1, <3>2, <3>3, RequestAssumption DEF FindUser, Found
    <3>5. QED
      BY <1>0, <2>1, <3>4 DEF FindUser, Goto, Fresh, TypeOK
  <2>2. CASE LoginFails(l)
    <3>1. /\ UNCHANGED <<issuedAt, token>>
          /\ \E v \in {"refused", "error"} : pc' = [pc EXCEPT ![l] = v]
      BY <2>2 DEF LoginFails, Goto, issued
    <3>2. QED
      BY <1>0, <3>1 DEF Fresh, TypeOK
  <2>3. QED
    BY <1>0, <1>2, <2>1, <2>2, FreshIssue DEF LoginStep
<1>3. ASSUME NEW f \in Refreshes, RefreshStep(f) PROVE Fresh
  <2>1. CASE DecodeRefresh(f)
    <3>1. PICK i \in Issued : token' = [token EXCEPT ![f] = i]
      BY <2>1 DEF DecodeRefresh, Present
    <3>2. /\ issuedAt' = issuedAt
          /\ \E v \in {"user", "refused"} : pc' = [pc EXCEPT ![f] = v]
      BY <2>1 DEF DecodeRefresh, Goto, issued
    <3>3. QED
      BY <1>0, <3>1, <3>2 DEF Fresh, TypeOK
  <2>2. CASE RefreshUser(f)
    <3>1. token[f] \in Issuers /\ token[f] # f
      BY <1>0, <2>2 DEF RefreshUser, Inductive, TokensIssued, IssuersKnown, Issued
    <3>2. CASE user[token[f]] \in registered
      <4>1. user'[f] = user[token[f]] /\ user'[token[f]] = user[token[f]]
        BY <1>0, <2>2, <3>1, <3>2 DEF RefreshUser, TypeOK
      <4>2. Found(f)
        BY <1>0, <2>2, <3>2, <4>1 DEF RefreshUser, Found
      <4>3. QED
        BY <1>0, <2>2, <3>2, <4>2 DEF RefreshUser, Goto, Fresh, TypeOK
    <3>3. CASE user[token[f]] \notin registered
      BY <1>0, <2>2, <3>3 DEF RefreshUser, Goto, Fresh, TypeOK
    <3>4. QED
      BY <3>2, <3>3
  <2>3. QED
    BY <1>0, <1>3, <2>1, <2>2, FreshIssue DEF RefreshStep
<1>4. ASSUME NEW x \in Logouts, LogoutStep(x) PROVE Fresh
  <2>1. CASE DecodeLogout(x)
    <3>1. PICK i \in Issued : token' = [token EXCEPT ![x] = i]
      BY <2>1 DEF DecodeLogout, Present
    <3>2. /\ issuedAt' = issuedAt
          /\ \E v \in {"store", "ok"} : pc' = [pc EXCEPT ![x] = v]
      BY <2>1 DEF DecodeLogout, Goto, issued
    <3>3. QED
      BY <1>0, <3>1, <3>2 DEF Fresh, TypeOK
  <2>2. CASE StoreRevocation(x) \/ StoreUnanswered(x) \/ StoreRefused(x)
    <3>1. /\ UNCHANGED <<issuedAt, token>> /\ pc[x] = "store"
          /\ \E v \in {"ok", "error"} : pc' = [pc EXCEPT ![x] = v]
      BY <2>2 DEF StoreRevocation, StoreUnanswered, StoreRefused, Goto, issued
    <3>2. QED
      BY <1>0, <3>1 DEF Fresh, TypeOK
  <2>3. QED
    BY <1>4, <2>1, <2>2 DEF LogoutStep
<1>5. ASSUME NEW c \in Calls, CallStep(c) PROVE Fresh
  <2>1. CASE DecodeCall(c)
    <3>1. PICK i \in Issued : token' = [token EXCEPT ![c] = i]
      BY <2>1 DEF DecodeCall, Present
    <3>2. /\ issuedAt' = issuedAt
          /\ \E v \in {"blacklist", "refused"} : pc' = [pc EXCEPT ![c] = v]
      BY <2>1 DEF DecodeCall, Goto, issued
    <3>3. QED
      BY <1>0, <3>1, <3>2 DEF Fresh, TypeOK
  <2>2. CASE CheckBlacklist(c) \/ FindCaller(c)
    <3>1. /\ UNCHANGED <<issuedAt, token>> /\ pc[c] # "arrive"
          /\ \E v \in {"user", "ok", "refused"} : pc' = [pc EXCEPT ![c] = v]
      BY <2>2 DEF CheckBlacklist, FindCaller, Goto, issued
    <3>2. QED
      BY <1>0, <3>1 DEF Fresh, TypeOK
  <2>3. QED
    BY <1>5, <2>1, <2>2 DEF CallStep
<1>6. ASSUME NEW i \in Issuers, Expire(i) \/ Lose(i) PROVE Fresh
  BY <1>6 DEF Expire, Lose, Fresh, issued
<1>7. CASE Tick \/ UNCHANGED vars
  BY <1>7 DEF Tick, vars, Fresh, issued
<1>8. QED
  BY <1>1, <1>2, <1>3, <1>4, <1>5, <1>6, <1>7 DEF Next

LEMMA TokensStep ==
    ASSUME Inductive, [Next]_vars
    PROVE  TokensBelongToUsers' /\ IssuersKnown' /\ TokensIssued'
<1>1. Steady /\ Fresh
  BY SteadyStep, FreshStep
<1>2. ASSUME NEW i \in Issuers, issuedAt'[i] # None
      PROVE  Belongs(i)' /\ pc'[i] = "ok"
  <2>1. CASE issuedAt[i] # None
    BY <1>1, <2>1, BelongsStays
    DEF Inductive, IssuersKnown, TokensBelongToUsers, Issued, Steady
  <2>2. CASE issuedAt[i] = None
    <3>1. pc[i] = "issue" /\ pc'[i] = "ok"
      BY <1>1, <1>2, <2>2 DEF Fresh
    <3>2. QED
      BY <1>1, <3>1, BelongsStays DEF Inductive, IssuersKnown
  <2>3. QED
    BY <2>1, <2>2
<1>3. ASSUME NEW i \in Issuers, pc'[i] = "issue" PROVE Belongs(i)'
  <2>1. CASE pc[i] = "issue"
    BY <1>1, <2>1, BelongsStays DEF Inductive, IssuersKnown
  <2>2. CASE Found(i)
    BY <1>1, <2>2 DEF Found, Belongs, Steady, inputs
  <2>3. QED
    BY <1>1, <1>3, <2>1, <2>2 DEF Fresh
<1>4. ASSUME NEW b \in Bearers, pc'[b] # "arrive" PROVE token'[b] \in Issued'
  <2>1. token'[b] \in Issued
    BY <1>1, <1>4 DEF Fresh, Inductive, TokensIssued
  <2>2. QED
    BY <1>1, <2>1 DEF Steady, Issued
<1>5. QED
  BY <1>2, <1>3, <1>4 DEF TokensBelongToUsers, IssuersKnown, TokensIssued, Issued

-----------------------------------------------------------------------------
(* The blacklist *)

\* A step that neither stores nor drops an entry, nor lets time pass.
RedisAside ==
    /\ UNCHANGED <<second, until, loggedOut, lost>>
    /\ \A x \in Logouts :
          pc'[x] = "store" =>
            pc[x] = "store" /\ token'[x] = token[x] /\ ttl'[x] = ttl[x]

LEMMA ExpStays ==
    ASSUME Steady, NEW i \in Issued
    PROVE  Exp(i)' = Exp(i) /\ i \in Issued'
  BY DEF Steady, Issued, Exp

LEMMA ExpType ==
    ASSUME TypeOK, NEW i \in Issued
    PROVE  Exp(i) \in Nat
  BY TimeAssumption DEF Exp, Issued, TypeOK

LEMMA RedisAsideStep ==
    ASSUME Inductive, Steady, RedisAside
    PROVE  EntriesLast'
<1>1. ASSUME NEW x \in Logouts, pc'[x] = "store"
      PROVE  second' + ttl'[x] >= Exp(token[x])' /\ token'[x] = token[x]
  <2>1. /\ pc[x] = "store" /\ token'[x] = token[x] /\ ttl'[x] = ttl[x]
        /\ second' = second
    BY <1>1 DEF RedisAside
  <2>2. token[x] \in Issued
    BY <2>1 DEF Inductive, TokensIssued, Bearers
  <2>3. QED
    BY <2>1, <2>2, ExpStays DEF Inductive, EntriesLast
<1>2. ASSUME NEW i \in loggedOut'
      PROVE  /\ i \in Issued'
             /\ \/ second' >= Exp(i)'
                \/ i \in lost'
                \/ until'[i] # None /\ until'[i] >= Exp(i)'
  <2>1. i \in loggedOut /\ i \in Issued
    BY <1>2 DEF RedisAside, Inductive, EntriesLast
  <2>2. QED
    BY <2>1, ExpStays DEF RedisAside, Inductive, EntriesLast
<1>3. QED
  BY <1>1, <1>2 DEF EntriesLast, Exp

\* What an entry that is stored now lasts for.
LEMMA BlacklistStep ==
    ASSUME Inductive, Steady, NEW x \in Logouts,
           StoreRevocation(x) \/ StoreUnanswered(x)
    PROVE  EntriesLast'
<1>. DEFINE i == token[x]
<1>1. i \in Issued /\ second + ttl[x] >= Exp(i) /\ second + ttl[x] \in Nat
  BY DEF StoreRevocation, StoreUnanswered, Inductive, TypeOK, TokensIssued,
         EntriesLast, Bearers
<1>2. /\ until' = [until EXCEPT ![i] = second + ttl[x]]
      /\ lost' = lost \ {i} /\ loggedOut' \subseteq loggedOut \cup {i}
      /\ UNCHANGED <<second, ttl, token>>
      /\ pc' = [pc EXCEPT ![x] = "ok"] \/ pc' = [pc EXCEPT ![x] = "error"]
  BY DEF StoreRevocation, StoreUnanswered, Blacklist, Goto
<1>3. ASSUME NEW y \in Logouts, pc'[y] = "store"
      PROVE  second' + ttl'[y] >= Exp(token[y])'
  <2>1. pc[y] = "store"
    BY <1>2, <1>3 DEF Inductive, TypeOK, Requests
  <2>2. token[y] \in Issued
    BY <2>1 DEF Inductive, TokensIssued, Bearers
  <2>3. QED
    BY <1>2, <2>1, <2>2, ExpStays DEF Inductive, EntriesLast
<1>4. ASSUME NEW j \in loggedOut'
      PROVE  /\ j \in Issued'
             /\ \/ second' >= Exp(j)'
                \/ j \in lost'
                \/ until'[j] # None /\ until'[j] >= Exp(j)'
  <2>1. CASE j = i
    <3>1. until'[j] = second + ttl[x]
      BY <1>1, <1>2, <2>1 DEF Inductive, TypeOK, Issued
    <3>2. Exp(j)' = Exp(j) /\ j \in Issued'
      BY <1>1, <2>1, ExpStays
    <3>3. until'[j] # None /\ second + ttl[x] >= Exp(j)
      BY <1>1, <2>1, <3>1, TimeAssumption
    <3>4. QED
      BY <3>1, <3>2, <3>3
  <2>2. CASE j # i
    <3>1. j \in loggedOut /\ j \in Issued
      BY <1>2, <1>4, <2>2 DEF Inductive, EntriesLast
    <3>2. until'[j] = until[j] /\ (j \in lost => j \in lost') /\ second' = second
      BY <1>2, <2>2, <3>1 DEF Inductive, TypeOK, Issued
    <3>3. QED
      BY <3>1, <3>2, ExpStays DEF Inductive, EntriesLast
  <2>3. QED
    BY <2>1, <2>2
<1>5. QED
  BY <1>2, <1>3, <1>4 DEF EntriesLast, Exp

\* A logout that decodes its token computes what is left of its life.
LEMMA DecodeLogoutStep ==
    ASSUME Inductive, Steady, NEW x \in Logouts, DecodeLogout(x)
    PROVE  EntriesLast'
<1>1. PICK i \in Issued :
        /\ Present(x, i)
        /\ IF Valid(i, AccessSeconds)
           THEN ttl' = [ttl EXCEPT ![x] = Remaining(i)] /\ Goto(x, "store")
           ELSE Goto(x, "ok") /\ UNCHANGED ttl
  BY DEF DecodeLogout
<1>2. UNCHANGED <<second, until, loggedOut, lost>> /\ token'[x] = i
  BY <1>1 DEF DecodeLogout, Present, redis, Inductive, TypeOK, Bearers
<1>3. ASSUME NEW y \in Logouts, pc'[y] = "store"
      PROVE  second' + ttl'[y] >= Exp(token[y])'
  <2>1. CASE y = x
    <3>1. Valid(i, AccessSeconds) /\ ttl'[x] = Remaining(i)
      BY <1>1, <1>3, <2>1 DEF Goto, Inductive, TypeOK, Requests
    <3>2. second + Remaining(i) = Exp(i) /\ Exp(i) \in Nat
      BY <3>1, RemainingType, ExpType DEF Inductive
    <3>3. QED
      <4>1. Exp(i)' = Exp(i)
        BY ExpStays
      <4>2. Exp(token[y])' = Exp(i)'
        BY <1>2, <2>1 DEF Exp
      <4>3. QED
        BY <1>2, <2>1, <3>1, <3>2, <4>1, <4>2
  <2>2. CASE y # x
    <3>1. pc[y] = "store" /\ ttl'[y] = ttl[y] /\ token'[y] = token[y]
      BY <1>1, <1>3, <2>2 DEF Present, Goto, Inductive, TypeOK, Requests
    <3>2. token[y] \in Issued
      BY <3>1 DEF Inductive, TokensIssued, Bearers
    <3>3. QED
      <4>1. Exp(token[y])' = Exp(token[y])
        BY <3>1, <3>2 DEF Exp, Steady, Issued
      <4>2. QED
        BY <1>2, <3>1, <4>1 DEF Inductive, EntriesLast
  <2>3. QED
    BY <2>1, <2>2
<1>4. ASSUME NEW j \in loggedOut'
      PROVE  /\ j \in Issued'
             /\ \/ second' >= Exp(j)'
                \/ j \in lost'
                \/ until'[j] # None /\ until'[j] >= Exp(j)'
  BY <1>2, <1>4, ExpStays DEF Inductive, EntriesLast
<1>5. QED
  BY <1>3, <1>4 DEF EntriesLast

\* Expiry, loss and the clock leave the entry of a revoked token or end the
\* token's life.
LEMMA TimeStep ==
    ASSUME Inductive, Steady,
           Tick \/ \E i \in Issuers : Expire(i) \/ Lose(i)
    PROVE  EntriesLast'
<1>1. UNCHANGED <<pc, ttl, token, loggedOut>>
  BY DEF Tick, Expire, Lose, redis
<1>2. second \in Nat /\ second' \in Nat /\ second' >= second /\ lost \subseteq lost'
  BY DEF Inductive, TypeOK, Tick, Expire, Lose, redis
<1>3. ASSUME NEW y \in Logouts, pc'[y] = "store"
      PROVE  second' + ttl'[y] >= Exp(token[y])'
  <2>1. token[y] \in Issued /\ pc[y] = "store" /\ ttl[y] \in Nat
    BY <1>1, <1>3 DEF Inductive, TypeOK, TokensIssued, Bearers
  <2>2. second + ttl[y] >= Exp(token[y]) /\ Exp(token[y]) \in Nat
    BY <2>1, ExpType DEF Inductive, EntriesLast
  <2>3. Exp(token[y])' = Exp(token[y]) /\ ttl'[y] = ttl[y]
    BY <1>1, <2>1, ExpStays
  <2>4. QED
    BY <1>2, <2>1, <2>2, <2>3
<1>4. ASSUME NEW j \in loggedOut'
      PROVE  /\ j \in Issued'
             /\ \/ second' >= Exp(j)'
                \/ j \in lost'
                \/ until'[j] # None /\ until'[j] >= Exp(j)'
  <2>1. j \in loggedOut /\ j \in Issued /\ j \in Issuers /\ Exp(j) \in Nat
    BY <1>1, <1>4, ExpType DEF Inductive, EntriesLast, Issued
  <2>2. Exp(j)' = Exp(j) /\ j \in Issued'
    BY <2>1, ExpStays
  <2>3. CASE second >= Exp(j) \/ j \in lost
    BY <1>2, <2>1, <2>2, <2>3
  <2>4. CASE until[j] # None /\ until[j] >= Exp(j)
    <3>1. CASE until'[j] = until[j]
      BY <2>2, <2>4, <3>1
    <3>2. CASE until'[j] # until[j]
      <4>1. Expire(j) \/ Lose(j)
        BY <2>1, <3>2 DEF Tick, Expire, Lose, redis, Inductive, TypeOK
      <4>2. CASE Expire(j)
        BY <1>2, <2>2, <2>4, <4>2 DEF Expire
      <4>3. CASE Lose(j)
        BY <2>1, <2>2, <4>3 DEF Lose
      <4>4. QED
        BY <4>1, <4>2, <4>3
    <3>3. QED
      BY <3>1, <3>2
  <2>5. QED
    BY <2>1, <2>3, <2>4 DEF Inductive, EntriesLast
<1>5. QED
  BY <1>1, <1>3, <1>4 DEF EntriesLast, Exp

LEMMA EntriesStep ==
    ASSUME Inductive, [Next]_vars
    PROVE  EntriesLast'
<1>0. /\ TypeOK /\ Steady
      /\ \A y \in Logouts : /\ y \in Requests /\ y \in Bearers
                            /\ y \notin Issuers /\ y \notin Calls
      /\ \A i \in Registrations \cup Logins \cup Refreshes : i \in Issuers
  BY SteadyStep, RequestAssumption DEF Inductive, Requests, Issuers, Bearers
<1>1. ASSUME NEW r \in Registrations, RegisterStep(r) PROVE RedisAside
  <2>1. UNCHANGED <<second, until, loggedOut, lost, ttl, token>>
    BY <1>1
    DEF RegisterStep, CheckEmail, InsertBusiness, EmailViolation,
        CommitRegistration, Fail, IssueTokens, redis
  <2>2. \A y \in Logouts : pc'[y] = pc[y]
    BY <1>0, <1>1
    DEF RegisterStep, CheckEmail, InsertBusiness, EmailViolation,
        CommitRegistration, Fail, IssueTokens, Goto, TypeOK
  <2>3. QED
    BY <2>1, <2>2 DEF RedisAside
<1>2. ASSUME NEW l \in Logins, LoginStep(l) PROVE RedisAside
  <2>1. UNCHANGED <<second, until, loggedOut, lost, ttl, token>>
    BY <1>2 DEF LoginStep, FindUser, LoginFails, IssueTokens, redis
  <2>2. \A y \in Logouts : pc'[y] = pc[y]
    BY <1>0, <1>2 DEF LoginStep, FindUser, LoginFails, IssueTokens, Goto, TypeOK
  <2>3. QED
    BY <2>1, <2>2 DEF RedisAside
<1>3. ASSUME NEW f \in Refreshes, RefreshStep(f) PROVE RedisAside
  <2>1. UNCHANGED <<second, until, loggedOut, lost, ttl>>
    BY <1>3 DEF RefreshStep, DecodeRefresh, RefreshUser, IssueTokens, redis
  <2>2. \A y \in Logouts : pc'[y] = pc[y] /\ token'[y] = token[y]
    BY <1>0, <1>3
    DEF RefreshStep, DecodeRefresh, RefreshUser, IssueTokens, Present, Goto, TypeOK
  <2>3. QED
    BY <2>1, <2>2 DEF RedisAside
<1>4. ASSUME NEW c \in Calls, CallStep(c) PROVE RedisAside
  <2>1. UNCHANGED <<second, until, loggedOut, lost, ttl>>
    BY <1>4 DEF CallStep, DecodeCall, CheckBlacklist, FindCaller, redis
  <2>2. \A y \in Logouts : pc'[y] = pc[y] /\ token'[y] = token[y]
    BY <1>0, <1>4
    DEF CallStep, DecodeCall, CheckBlacklist, FindCaller, Present, Goto, TypeOK
  <2>3. QED
    BY <2>1, <2>2 DEF RedisAside
<1>5. ASSUME NEW x \in Logouts, StoreRefused(x) PROVE RedisAside
  BY <1>0, <1>5 DEF StoreRefused, Goto, RedisAside, TypeOK, redis
<1>6. ASSUME UNCHANGED vars PROVE RedisAside
  BY <1>6 DEF vars, RedisAside, redis
<1>7. RedisAside => EntriesLast'
  BY <1>0, RedisAsideStep
<1>8. QED
  BY <1>0, <1>1, <1>2, <1>3, <1>4, <1>5, <1>6, <1>7,
     BlacklistStep, DecodeLogoutStep, TimeStep
  DEF Next, LogoutStep

-----------------------------------------------------------------------------
(* Theorems *)

LEMMA InductiveInit == Init => Inductive
<1>. SUFFICES ASSUME Init PROVE Inductive
  OBVIOUS
<1>1. TypeOK
  BY TypeInit
<1>2. /\ registered = {} /\ loggedOut = {} /\ \A i \in Issuers : issuedAt[i] = None
      /\ \A r \in Requests : pc[r] = "arrive"
  BY DEF Init
<1>3. QED
  BY <1>1, <1>2
  DEF Inductive, BusinessEmailsUnique, TokensBelongToUsers, Issued,
      EmailsClaimed, IssuersKnown, TokensIssued, EntriesLast,
      Requests, Issuers, Bearers

\* The inductive invariant, from which the other theorems follow.
THEOREM InductiveCorrect == Spec => []Inductive
<1>1. Inductive /\ [Next]_vars => Inductive'
  BY TypeStep, EmailsStep, TokensStep, EntriesStep DEF Inductive
<1>2. QED
  BY <1>1, InductiveInit, PTL DEF Spec

\* Every reachable state is well typed: in particular a logout never sends
\* Redis a negative lifetime.
THEOREM TypeCorrect == Spec => []TypeOK
<1>1. Inductive => TypeOK
  BY DEF Inductive
<1>2. QED
  BY <1>1, InductiveCorrect, PTL

\* However registrations overlap, two businesses never share an email.
THEOREM EmailsCorrect == Spec => []BusinessEmailsUnique
<1>1. Inductive => BusinessEmailsUnique
  BY DEF Inductive
<1>2. QED
  BY <1>1, InductiveCorrect, PTL

\* Tokens belong to the committed owner they were asked for.
THEOREM TokensCorrect == Spec => []TokensBelongToUsers
<1>1. Inductive => TokensBelongToUsers
  BY DEF Inductive
<1>2. QED
  BY <1>1, InductiveCorrect, PTL

\* A token whose logout succeeded is refused until the second of its expiry
\* while Redis keeps the entry.
THEOREM RevokedCorrect == Spec => RevokedRefused
<1>. DEFINE A == \A c \in Calls :
                   pc[c] = "blacklist" /\ pc'[c] = "user" /\ token[c] \in loggedOut =>
                     second >= Exp(token[c]) \/ token[c] \in lost
<1>1. Inductive /\ [Next]_vars => [A]_vars
  <2>1. SUFFICES ASSUME Inductive, Next, NEW c \in Calls,
                        pc[c] = "blacklist", pc'[c] = "user", token[c] \in loggedOut
                 PROVE  second >= Exp(token[c]) \/ token[c] \in lost
    OBVIOUS
  <2>2. until[token[c]] = None
    <3>0. /\ TypeOK /\ c \in Requests /\ c \notin Issuers /\ c \notin Logouts
          /\ \A i \in Registrations \cup Logins \cup Refreshes : i \in Issuers
      BY <2>1, RequestAssumption DEF Inductive, Requests, Issuers
    <3>1. ASSUME NEW r \in Registrations, RegisterStep(r) PROVE FALSE
      BY <2>1, <3>0, <3>1
      DEF RegisterStep, CheckEmail, InsertBusiness, EmailViolation,
          CommitRegistration, Fail, IssueTokens, Goto, TypeOK
    <3>2. ASSUME NEW l \in Logins, LoginStep(l) PROVE FALSE
      BY <2>1, <3>0, <3>2
      DEF LoginStep, FindUser, LoginFails, IssueTokens, Goto, TypeOK
    <3>3. ASSUME NEW f \in Refreshes, RefreshStep(f) PROVE FALSE
      BY <2>1, <3>0, <3>3
      DEF RefreshStep, DecodeRefresh, RefreshUser, IssueTokens, Goto, TypeOK
    <3>4. ASSUME NEW x \in Logouts, LogoutStep(x) PROVE FALSE
      BY <2>1, <3>0, <3>4
      DEF LogoutStep, DecodeLogout, StoreRevocation, StoreUnanswered,
          StoreRefused, Goto, TypeOK
    <3>5. CASE Tick \/ \E i \in Issuers : Expire(i) \/ Lose(i)
      BY <2>1, <3>5 DEF Tick, Expire, Lose
    <3>6. ASSUME NEW d \in Calls, CallStep(d) PROVE until[token[c]] = None
      BY <2>1, <3>0, <3>6
      DEF CallStep, DecodeCall, CheckBlacklist, FindCaller, Goto, TypeOK, Requests
    <3>7. QED
      BY <2>1, <3>1, <3>2, <3>3, <3>4, <3>5, <3>6 DEF Next
  <2>3. QED
    BY <2>1, <2>2 DEF Inductive, EntriesLast
<1>2. QED
  BY <1>1, InductiveCorrect, PTL DEF Spec, RevokedRefused
=============================================================================
