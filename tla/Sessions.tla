------------------------------ MODULE Sessions ------------------------------
(***************************************************************************)
(* Registration, login, refresh and logout, and the check of the access    *)
(* token that every other request makes, against the clock, PostgreSQL     *)
(* and the token blacklist in Redis:                                       *)
(*                                                                         *)
(*   Registrations  POST /auth/register                                    *)
(*   Logins         POST /auth/login                                       *)
(*   Refreshes      POST /auth/refresh                                     *)
(*   Logouts        POST /auth/logout                                      *)
(*   Calls          get_current_user, before any other endpoint            *)
(*                                                                         *)
(* A registration that commits creates a business and its owner, both      *)
(* named after it; the pair of tokens a request issues is named after that *)
(* request.  Nothing deactivates a user.  Requests are served once the     *)
(* lifespan of the application has created the Redis pool and until it     *)
(* closes it, so the branches that logout and get_current_user have for    *)
(* "redis is None" are not reached.                                        *)
(***************************************************************************)
EXTENDS Integers

CONSTANTS
    Registrations, Logins, Refreshes, Logouts, Calls,
    BusinessEmails, OwnerEmails,
    AccessSeconds, RefreshSeconds,   \* lifetimes of the tokens
    MaxSeconds,                      \* bound of the clock
    None

Issuers   == Registrations \cup Logins \cup Refreshes
Bearers   == Refreshes \cup Logouts \cup Calls
Requests  == Issuers \cup Logouts \cup Calls

ASSUME RequestAssumption ==
    /\ Registrations \cap Logins = {}
    /\ (Registrations \cup Logins) \cap Refreshes = {}
    /\ Issuers \cap Logouts = {} /\ (Issuers \cup Logouts) \cap Calls = {}
    /\ None \notin Requests

ASSUME TimeAssumption ==
    /\ AccessSeconds \in Nat /\ RefreshSeconds \in Nat /\ MaxSeconds \in Nat
    /\ None \notin Nat

VARIABLES
    businessEmail, ownerEmail,  \* the body of a registration
    email,                      \* the email of a login
    second,                     \* the clock, in the unit of exp
    registered,                 \* committed registrations
    pc,
    user,       \* the user a request issues tokens for
    issuedAt,   \* when a request issued its tokens, None: not yet
    token,      \* the request that issued the token a bearer presents
    ttl,        \* what a logout has computed
    until,      \* the second in which a blacklist entry expires, or None
    \* history
    loggedOut,  \* access tokens whose logout was answered with success
    lost        \* those of them whose blacklist entry Redis dropped

inputs == <<businessEmail, ownerEmail, email>>
issued == <<user, issuedAt>>
redis  == <<until, loggedOut, lost>>
vars   == <<inputs, second, registered, pc, issued, token, ttl, redis>>

Init ==
    /\ businessEmail \in [Registrations -> BusinessEmails]
    /\ ownerEmail \in [Registrations -> OwnerEmails]
    /\ email \in [Logins -> OwnerEmails]
    /\ second = 0
    /\ registered = {}
    /\ pc = [r \in Requests |-> "arrive"]
    /\ user = [i \in Issuers |-> None]
    /\ issuedAt = [i \in Issuers |-> None]
    /\ token = [b \in Bearers |-> None]
    /\ ttl = [x \in Logouts |-> 0]
    /\ until = [i \in Issuers |-> None]
    /\ loggedOut = {}
    /\ lost = {}

-----------------------------------------------------------------------------
Goto(r, l) == pc' = [pc EXCEPT ![r] = l]

\* The answer: 2xx, 4xx or 500.
Ended == {"ok", "refused", "error"}

Issued == {i \in Issuers : issuedAt[i] # None}

\* The claim exp of an access token.
Exp(i) == issuedAt[i] + AccessSeconds

\* Mutant of Valid: a second of leeway.
ValidLeeway(i, seconds) == second <= issuedAt[i] + seconds + 1

\* decode_token accepts a token in the second of its expiry, not after.
Valid(i, seconds) == second <= issuedAt[i] + seconds

IssueTokens(i) ==
    /\ pc[i] = "issue"
    /\ issuedAt' = [issuedAt EXCEPT ![i] = second]
    /\ Goto(i, "ok")
    /\ UNCHANGED <<inputs, second, registered, user, token, ttl, redis>>

-----------------------------------------------------------------------------
(* register *)

EmailTaken(r) ==
    \E q \in registered \ {r} : businessEmail[q] = businessEmail[r]

\* 409 if the email is taken.
CheckEmail(r) ==
    /\ pc[r] = "arrive"
    /\ Goto(r, IF EmailTaken(r) THEN "refused" ELSE "insert")
    /\ UNCHANGED <<inputs, second, registered, issued, token, ttl, redis>>

\* Another transaction has inserted the email and not ended: the unique
\* index makes the insertion wait.
EmailPending(r) ==
    \E q \in Registrations \ {r} :
        pc[q] = "commit" /\ businessEmail[q] = businessEmail[r]

\* Mutant of InsertBusiness: the column without its unique index.
InsertBusinessUnchecked(r) ==
    /\ pc[r] = "insert"
    /\ Goto(r, "commit")
    /\ UNCHANGED <<inputs, second, registered, issued, token, ttl, redis>>

\* The first flush; the second, of the owner, meets no other row.
InsertBusiness(r) ==
    /\ pc[r] = "insert"
    /\ ~EmailPending(r)
    /\ ~EmailTaken(r)
    /\ Goto(r, "commit")
    /\ UNCHANGED <<inputs, second, registered, issued, token, ttl, redis>>

\* IntegrityError, which nothing handles.
EmailViolation(r) ==
    /\ pc[r] = "insert"
    /\ ~EmailPending(r)
    /\ EmailTaken(r)
    /\ Goto(r, "error")
    /\ UNCHANGED <<inputs, second, registered, issued, token, ttl, redis>>

\* Mutant of CommitRegistration: flushed, not committed.
CommitRegistrationForgotten(r) ==
    /\ pc[r] = "commit"
    /\ user' = [user EXCEPT ![r] = r]
    /\ Goto(r, "issue")
    /\ UNCHANGED <<inputs, second, registered, issuedAt, token, ttl, redis>>

CommitRegistration(r) ==
    /\ pc[r] = "commit"
    /\ registered' = registered \cup {r}
    /\ user' = [user EXCEPT ![r] = r]
    /\ Goto(r, "issue")
    /\ UNCHANGED <<inputs, second, issuedAt, token, ttl, redis>>

-----------------------------------------------------------------------------
(* login and refresh *)

\* The owners an email finds: it is unique within a business only.
Matches(l) == {r \in registered : ownerEmail[r] = email[l]}

\* One user, and the password is right.
FindUser(l) ==
    /\ pc[l] = "arrive"
    /\ \E u \in Registrations :
          Matches(l) = {u} /\ user' = [user EXCEPT ![l] = u]
    /\ Goto(l, "issue")
    /\ UNCHANGED <<inputs, second, registered, issuedAt, token, ttl, redis>>

\* 401 without a user or with a wrong password; two users make
\* scalar_one_or_none raise MultipleResultsFound.
LoginFails(l) ==
    /\ pc[l] = "arrive"
    /\ Goto(l, IF \A u, v \in Matches(l) : u = v THEN "refused" ELSE "error")
    /\ UNCHANGED <<inputs, second, registered, issued, token, ttl, redis>>

\* A bearer presents a token that was issued.
Present(b, i) == token' = [token EXCEPT ![b] = i]

\* The refresh token stays as it was: it is neither stored nor replaced.
DecodeRefresh(f) ==
    /\ pc[f] = "arrive"
    /\ \E i \in Issued :
          /\ Present(f, i)
          /\ Goto(f, IF Valid(i, RefreshSeconds) THEN "user" ELSE "refused")
    /\ UNCHANGED <<inputs, second, registered, issued, ttl, redis>>

RefreshUser(f) ==
    LET u == user[token[f]] IN
    /\ pc[f] = "user"
    /\ IF u \in registered
       THEN user' = [user EXCEPT ![f] = u] /\ Goto(f, "issue")
       ELSE Goto(f, "refused") /\ UNCHANGED user
    /\ UNCHANGED <<inputs, second, registered, issuedAt, token, ttl, redis>>

-----------------------------------------------------------------------------
(* logout *)

\* Mutant of Remaining: the entry ends with the last full second.
RemainingShort(i) == Exp(i) - second - 1

Remaining(i) == Exp(i) - second

\* An expired token decodes to nothing: success, and nothing is stored.
DecodeLogout(x) ==
    /\ pc[x] = "arrive"
    /\ \E i \in Issued :
          /\ Present(x, i)
          /\ IF Valid(i, AccessSeconds)
             THEN ttl' = [ttl EXCEPT ![x] = Remaining(i)] /\ Goto(x, "store")
             ELSE Goto(x, "ok") /\ UNCHANGED ttl
    /\ UNCHANGED <<inputs, second, registered, issued, redis>>

\* SETEX, whenever it reaches Redis.
Blacklist(x) ==
    LET i == token[x] IN
    /\ until' = [until EXCEPT ![i] = second + ttl[x]]
    /\ lost' = lost \ {i}

StoreRevocation(x) ==
    /\ pc[x] = "store"
    /\ ttl[x] > 0
    /\ Blacklist(x)
    /\ loggedOut' = loggedOut \cup {token[x]}
    /\ Goto(x, "ok")
    /\ UNCHANGED <<inputs, second, registered, issued, token, ttl>>

\* Redis executes the call and its answer does not arrive: 500.
StoreUnanswered(x) ==
    /\ pc[x] = "store"
    /\ ttl[x] > 0
    /\ Blacklist(x)
    /\ Goto(x, "error")
    /\ UNCHANGED <<inputs, second, registered, issued, token, ttl, loggedOut>>

\* Redis refuses an expire time of 0: 500 in the last second of a token.
StoreRefused(x) ==
    /\ pc[x] = "store"
    /\ ttl[x] = 0
    /\ Goto(x, "error")
    /\ UNCHANGED <<inputs, second, registered, issued, token, ttl, redis>>

-----------------------------------------------------------------------------
(* get_current_user *)

DecodeCall(c) ==
    /\ pc[c] = "arrive"
    /\ \E i \in Issued :
          /\ Present(c, i)
          /\ Goto(c, IF Valid(i, AccessSeconds) THEN "blacklist" ELSE "refused")
    /\ UNCHANGED <<inputs, second, registered, issued, ttl, redis>>

\* Mutant of CheckBlacklist: an error of Redis counts as not revoked.
CheckBlacklistOpen(c) ==
    /\ pc[c] = "blacklist"
    /\ \/ Goto(c, "user")
       \/ until[token[c]] # None /\ Goto(c, "refused")
    /\ UNCHANGED <<inputs, second, registered, issued, token, ttl, redis>>

CheckBlacklist(c) ==
    /\ pc[c] = "blacklist"
    /\ Goto(c, IF until[token[c]] = None THEN "user" ELSE "refused")
    /\ UNCHANGED <<inputs, second, registered, issued, token, ttl, redis>>

FindCaller(c) ==
    /\ pc[c] = "user"
    /\ Goto(c, IF user[token[c]] \in registered THEN "ok" ELSE "refused")
    /\ UNCHANGED <<inputs, second, registered, issued, token, ttl, redis>>

-----------------------------------------------------------------------------
(* Failures, Redis and the clock *)

\* An exception or the death of the worker after the insertion: the open
\* transaction is rolled back.  Where a request holds nothing, a failure (an
\* error of Redis, which no endpoint here handles, included) is a request
\* that takes no further step: a committed registration may stay without
\* tokens, a logout without an entry.
Fail(r) ==
    /\ pc[r] = "commit"
    /\ Goto(r, "error")
    /\ UNCHANGED <<inputs, second, registered, issued, token, ttl, redis>>

\* An entry expires at some moment of its last second: the clock of the
\* tokens counts seconds, the one of Redis milliseconds from the call.
Expire(i) ==
    /\ until[i] # None
    /\ second = until[i]
    /\ until' = [until EXCEPT ![i] = None]
    /\ UNCHANGED <<inputs, second, registered, pc, issued, token, ttl,
                   loggedOut, lost>>

\* allkeys-lru evicts an entry, or a restart of Redis forgets it.
Lose(i) ==
    /\ until[i] # None
    /\ until' = [until EXCEPT ![i] = None]
    /\ lost' = lost \cup ({i} \cap loggedOut)
    /\ UNCHANGED <<inputs, second, registered, pc, issued, token, ttl, loggedOut>>

Tick ==
    /\ second < MaxSeconds
    /\ \A i \in Issuers : until[i] # None => second < until[i]
    /\ second' = second + 1
    /\ UNCHANGED <<inputs, registered, pc, issued, token, ttl, redis>>

-----------------------------------------------------------------------------
RegisterStep(r) ==
    \/ CheckEmail(r) \/ InsertBusiness(r) \/ EmailViolation(r)
    \/ CommitRegistration(r) \/ Fail(r) \/ IssueTokens(r)
LoginStep(l)   == FindUser(l) \/ LoginFails(l) \/ IssueTokens(l)
RefreshStep(f) == DecodeRefresh(f) \/ RefreshUser(f) \/ IssueTokens(f)
LogoutStep(x)  ==
    \/ DecodeLogout(x) \/ StoreRevocation(x) \/ StoreUnanswered(x)
    \/ StoreRefused(x)
CallStep(c)    == DecodeCall(c) \/ CheckBlacklist(c) \/ FindCaller(c)

Next ==
    \/ \E r \in Registrations : RegisterStep(r)
    \/ \E l \in Logins : LoginStep(l)
    \/ \E f \in Refreshes : RefreshStep(f)
    \/ \E x \in Logouts : LogoutStep(x)
    \/ \E c \in Calls : CallStep(c)
    \/ \E i \in Issuers : Expire(i) \/ Lose(i)
    \/ Tick

Spec == Init /\ [][Next]_vars

-----------------------------------------------------------------------------
(* Properties *)

TypeOK ==
    /\ businessEmail \in [Registrations -> BusinessEmails]
    /\ ownerEmail \in [Registrations -> OwnerEmails]
    /\ email \in [Logins -> OwnerEmails]
    /\ second \in Nat
    /\ registered \subseteq Registrations
    /\ pc \in [Requests -> {"arrive", "insert", "commit", "issue", "user",
                            "store", "blacklist"} \cup Ended]
    /\ user \in [Issuers -> Registrations \cup {None}]
    /\ issuedAt \in [Issuers -> Nat \cup {None}]
    /\ token \in [Bearers -> Issuers \cup {None}]
    /\ ttl \in [Logouts -> Nat]
    /\ until \in [Issuers -> Nat \cup {None}]
    /\ loggedOut \subseteq Issuers
    /\ lost \subseteq Issuers

\* Registrations that overlap do not create two businesses with one email,
\* although each finds the email free: one waits for the other and fails.
BusinessEmailsUnique ==
    \A q, r \in registered : businessEmail[q] = businessEmail[r] => q = r

\* Whom the tokens of i belong to.
Belongs(i) ==
    /\ user[i] \in registered
    /\ i \in Registrations => user[i] = i
    /\ i \in Logins => ownerEmail[user[i]] = email[i]
    /\ i \in Refreshes => user[i] = user[token[i]]

\* Tokens are issued for committed owners only, a login's for an owner of
\* its email, a refresh's for the owner of the token it was given, however
\* registrations fail or overlap.
TokensBelongToUsers == \A i \in Issued : Belongs(i)

\* README, "same email OK across businesses, not within one": owners that
\* share an email can log in, at any rate no login ends in a server error.
LoginsAnswered == \A l \in Logins : pc[l] # "error"

\* Once the logout of a token was answered with success no lookup lets the
\* token pass before the second of its expiry, whenever the call to Redis
\* was executed and however often it is repeated, unless Redis dropped the
\* entry.  In that last second the entry may be gone and the token is valid.
RevokedRefused ==
    [][\A c \in Calls :
        pc[c] = "blacklist" /\ pc'[c] = "user" /\ token[c] \in loggedOut =>
            second >= Exp(token[c]) \/ token[c] \in lost]_vars

\* What makes them inductive.
EmailsClaimed ==
    \A q, r \in Registrations :
        pc[r] = "commit" /\ (pc[q] = "commit" \/ q \in registered)
        /\ businessEmail[q] = businessEmail[r] => q = r
IssuersKnown ==
    \A i \in Issuers :
        /\ pc[i] = "issue" => Belongs(i)
        /\ issuedAt[i] # None => pc[i] = "ok"
TokensIssued == \A b \in Bearers : pc[b] # "arrive" => token[b] \in Issued
EntriesLast ==
    /\ \A x \in Logouts :
          pc[x] = "store" => second + ttl[x] >= Exp(token[x])
    /\ \A i \in loggedOut :
          /\ i \in Issued
          /\ \/ second >= Exp(i)
             \/ i \in lost
             \/ until[i] # None /\ until[i] >= Exp(i)
Inductive ==
    /\ TypeOK /\ BusinessEmailsUnique /\ TokensBelongToUsers
    /\ EmailsClaimed /\ IssuersKnown /\ TokensIssued /\ EntriesLast
=============================================================================
