------------------------------- MODULE Sessions -------------------------------
(***************************************************************************)
(* Users and their sessions in one tenant: AuthService with the refresh    *)
(* tokens it signs and the black list it keeps in Redis, UsersService with *)
(* the tables User and Credentials, and the RPC between the two services.  *)
(*                                                                         *)
(* Both services are made anew for each request.  A step of a request is   *)
(* the statement, hash or RPC it awaits and the turn that follows.         *)
(***************************************************************************)
EXTENDS Naturals, FiniteSets

CONSTANTS
  Requests,     \* r is also the uuid of the user, or of the session, r makes
  Emails, Passwords,
  Seeds, SeedEmail, SeedPassword,  \* accounts that are complete at the start
  Start,        \* the time at the start, in the seconds of unix time
  MaxTime,      \* bound of the clock
  AccessTime, RefreshTime,  \* how long the two tokens of a pair are valid
  LogoutExp,    \* 3600, the expiry logout gives a token on the black list
  Happens,      \* from {"authCrash", "usersCrash", "dbError", "lost"}
  None

ASSUME TimeAssumption ==
  /\ Start \in Nat /\ MaxTime \in Nat /\ LogoutExp \in Nat
  /\ AccessTime \in Nat /\ RefreshTime \in Nat
  /\ Start <= MaxTime

ASSUME SeedAssumption ==
  /\ Seeds \cap Requests = {}
  /\ SeedEmail \in [Seeds -> Emails] /\ SeedPassword \in [Seeds -> Passwords]
  /\ \A u, v \in Seeds : SeedEmail[u] = SeedEmail[v] => u = v

Accounts == Seeds \cup Requests

ASSUME NoneAssumption == None \notin Accounts \cup Emails \cup Passwords

VARIABLES
  users,        \* rows of User; EmailOf and PasswordOf are their columns
  credentials,  \* users that have a row in Credentials
  blacklist,    \* sessions black-listed until LogoutExp
  now,
  tokens,       \* pairs of tokens that have been handed out
  op, email, password,  \* what a request asked for
  token,        \* the refresh token, or for me the access token, it came with
  user,         \* the user it found
  complete,     \* requests that found the user with credentials
  pc,           \* what it awaits
  orphans,      \* requests in the users service whose caller has died
  broken,       \* history: sign-ups the users service cut off between two transactions
  loggedOut     \* history: tokens a logout was answered for, before a refresh began

account == <<users, credentials>>
input == <<op, email, password, token>>
vars == <<account, blacklist, now, tokens, input, user, complete, pc, orphans, broken, loggedOut>>

InUsers == {"isEmailUnique", "hash", "saveUser", "saveCredentials",
            "findByEmail", "findById", "findUser", "findCredentials"}
InAuth == {"verifyPassword", "checkBlacklist", "sign"}
Ended == {"done", "failed", "lost"}
Tokens == [session : Requests, user : Accounts, iat : Start .. MaxTime]

EmailOf(u) == IF u \in Seeds THEN SeedEmail[u] ELSE email[u]
PasswordOf(u) == IF u \in Seeds THEN SeedPassword[u] ELSE password[u]

Init ==
  /\ users = Seeds /\ credentials = Seeds /\ blacklist = {} /\ tokens = {}
  /\ now = Start
  /\ op = [r \in Requests |-> None]
  /\ email = [r \in Requests |-> None]
  /\ password = [r \in Requests |-> None]
  /\ token = [r \in Requests |-> None]
  /\ user = [r \in Requests |-> None]
  /\ complete = {}
  /\ pc = [r \in Requests |-> "idle"]
  /\ orphans = {} /\ broken = {}
  /\ loggedOut = [r \in Requests |-> {}]

Goto(r, step) == pc' = [pc EXCEPT ![r] = step]

\* The users service answers: nobody listens when the auth service has died.
Reply(r, step) == Goto(r, IF r \in orphans THEN "lost" ELSE step)

Kept == UNCHANGED <<blacklist, now, tokens, input, orphans, loggedOut>>
Same == Kept /\ UNCHANGED broken

(***************************************************************************)
(* Mutants: what plausible mistakes would make of the actions below.  No   *)
(* specification uses them; each shows that a property notices.            *)
(***************************************************************************)
\* The look-up of the email is left to a unique index the table does not have.
saveUserUnchecked(r) ==
  /\ pc[r] = "saveUser"
  /\ Goto(r, "saveCredentials") /\ users' = users \cup {r}
  /\ Same /\ UNCHANGED <<credentials, user, complete>>

\* Credentials are left for later.
saveUserOnly(r) ==
  /\ pc[r] = "saveUser"
  /\ IF \E u \in users : EmailOf(u) = email[r]
     THEN Reply(r, "failed") /\ UNCHANGED users
     ELSE Reply(r, "done") /\ users' = users \cup {r}
  /\ Same /\ UNCHANGED <<credentials, user, complete>>

\* The user is remembered by email.
findOneByEmailAsId(r) ==
  /\ pc[r] = "findByEmail"
  /\ \/ Reply(r, "failed") /\ UNCHANGED <<user, complete>>
     \/ \E u \in {v \in users : EmailOf(v) = email[r]} :
          /\ user' = [user EXCEPT ![r] = EmailOf(u)]
          /\ complete' = complete \cup {r}
          /\ Reply(r, "verifyPassword")
  /\ Same /\ UNCHANGED account

\* A user without credentials gets a token of version 0.
verifyPasswordOnly(r) ==
  /\ pc[r] = "verifyPassword"
  /\ Goto(r, IF PasswordOf(user[r]) = password[r] THEN "sign" ELSE "failed")
  /\ Same /\ UNCHANGED <<account, user, complete>>

\* An email that is taken is not reported.
isEmailUniqueOrWait(r) ==
  /\ pc[r] = "isEmailUnique"
  /\ \A u \in users : EmailOf(u) # email[r]
  /\ Goto(r, "hash")
  /\ Same /\ UNCHANGED <<account, user, complete>>

\* A login continues the session of an earlier one.
generateAuthTokensInOneSession(r) ==
  /\ pc[r] = "sign"
  /\ \E s \in {r} \cup {t.session : t \in tokens} :
       tokens' = tokens \cup
         {[session |-> IF op[r] = "login" THEN s ELSE token[r].session, user |-> user[r], iat |-> now]}
  /\ Goto(r, "done")
  /\ UNCHANGED <<account, blacklist, now, input, user, complete, orphans, broken, loggedOut>>

\* The age of a token is not looked at.
verifiedAlways(t) == TRUE

(***************************************************************************)
(* The way in.                                                             *)
(***************************************************************************)
Begin(r, operation) ==
  /\ pc[r] = "idle"
  /\ op' = [op EXCEPT ![r] = operation]
  /\ UNCHANGED <<account, blacklist, now, tokens, user, complete, orphans, broken>>

signUp(r) ==
  /\ Begin(r, "signUp")
  /\ \E e \in Emails : email' = [email EXCEPT ![r] = e]
  /\ \E p \in Passwords : password' = [password EXCEPT ![r] = p]
  /\ Goto(r, "isEmailUnique")
  /\ UNCHANGED <<token, loggedOut>>

\* comparePasswords: the two passwords of the form differ.
passwordsDiffer(r) ==
  /\ Begin(r, "signUp")
  /\ Goto(r, "failed")
  /\ UNCHANGED <<email, password, token, loggedOut>>

\* None is a password of nobody.
login(r) ==
  /\ Begin(r, "login")
  /\ \E e \in Emails : email' = [email EXCEPT ![r] = e]
  /\ \E p \in Passwords \cup {None} : password' = [password EXCEPT ![r] = p]
  /\ Goto(r, "findByEmail")
  /\ UNCHANGED <<token, loggedOut>>

\* verifyUserToken: a token this service signed, not older than RefreshTime.
verified(t) == now < t.iat + RefreshTime

\* The tokens of logouts that have been answered with success.
LoggedOut == {token[q] : q \in {p \in Requests : op[p] = "logout" /\ pc[p] = "done"}}

refreshTokenAccess(r) ==
  /\ Begin(r, "refresh")
  /\ \E t \in tokens :
       /\ token' = [token EXCEPT ![r] = t]
       /\ Goto(r, IF verified(t) THEN "checkBlacklist" ELSE "failed")
  /\ loggedOut' = [loggedOut EXCEPT ![r] = LoggedOut]
  /\ UNCHANGED <<email, password>>

\* createBlacklistedToken makes an entry only when its time to live is positive.
logout(r) ==
  /\ pc[r] = "idle"
  /\ op' = [op EXCEPT ![r] = "logout"]
  /\ \E t \in tokens :
       /\ token' = [token EXCEPT ![r] = t]
       /\ blacklist' = IF verified(t) /\ LogoutExp > now THEN blacklist \cup {t.session}
                                                         ELSE blacklist
       /\ Goto(r, IF verified(t) THEN "done" ELSE "failed")
  /\ UNCHANGED <<account, now, tokens, email, password, user, complete, orphans, broken, loggedOut>>

\* AuthGuard: an access token of this service, not older than AccessTime.
getMe(r) ==
  /\ Begin(r, "me")
  /\ \E t \in tokens :
       /\ token' = [token EXCEPT ![r] = t]
       /\ Goto(r, IF now < t.iat + AccessTime THEN "findById" ELSE "failed")
  /\ UNCHANGED <<email, password, loggedOut>>

(***************************************************************************)
(* create_user in the users service.                                       *)
(***************************************************************************)
isEmailUnique(r) ==
  /\ pc[r] = "isEmailUnique"
  /\ IF \E u \in users : EmailOf(u) = email[r] THEN Reply(r, "failed") ELSE Goto(r, "hash")
  /\ Same /\ UNCHANGED <<account, user, complete>>

hashed(r) ==
  /\ pc[r] = "hash"
  /\ Goto(r, "saveUser")
  /\ Same /\ UNCHANGED <<account, user, complete>>

\* The unique index on email decides between sign-ups that overlap.
saveUser(r) ==
  /\ pc[r] = "saveUser"
  /\ IF \E u \in users : EmailOf(u) = email[r]
     THEN Reply(r, "failed") /\ UNCHANGED users
     ELSE Goto(r, "saveCredentials") /\ users' = users \cup {r}
  /\ Same /\ UNCHANGED <<credentials, user, complete>>

saveCredentials(r) ==
  /\ pc[r] = "saveCredentials"
  /\ credentials' = credentials \cup {r}
  /\ Reply(r, "done")
  /\ Same /\ UNCHANGED <<users, user, complete>>

(***************************************************************************)
(* login.                                                                  *)
(***************************************************************************)
\* One query joins User and Credentials.
findOneByEmail(r) ==
  /\ pc[r] = "findByEmail"
  /\ LET rows == {u \in users : EmailOf(u) = email[r]} IN
       \/ rows = {} /\ Reply(r, "failed") /\ UNCHANGED <<user, complete>>
       \/ \E u \in rows :
            /\ user' = [user EXCEPT ![r] = u]
            /\ complete' = IF u \in credentials THEN complete \cup {r} ELSE complete
            /\ Reply(r, "verifyPassword")
  /\ Same /\ UNCHANGED account

\* A password that verify has refused may be the last one: checkLastPassword
\* refuses it as well, on each of its paths.
Accepted(r) == PasswordOf(user[r]) = password[r]

\* Without credentials there is no last password to compare with, and no version
\* for generateRefreshUserToken to put into the token.
verifyPassword(r) ==
  /\ pc[r] = "verifyPassword"
  /\ Goto(r, IF Accepted(r) /\ r \in complete THEN "sign" ELSE "failed")
  /\ Same /\ UNCHANGED <<account, user, complete>>

(***************************************************************************)
(* getMe and refreshTokenAccess.                                           *)
(***************************************************************************)
findOneById(r) ==
  /\ pc[r] = "findById"
  /\ Reply(r, IF token[r].user \in users THEN "done" ELSE "failed")
  /\ Same /\ UNCHANGED <<account, user, complete>>

checkIfTokenIsBlacklisted(r) ==
  /\ pc[r] = "checkBlacklist"
  /\ Goto(r, IF token[r].session \in blacklist /\ now < LogoutExp THEN "failed" ELSE "findUser")
  /\ Same /\ UNCHANGED <<account, user, complete>>

findUser(r) ==
  /\ pc[r] = "findUser"
  /\ user' = [user EXCEPT ![r] = IF token[r].user \in users THEN token[r].user ELSE None]
  /\ Goto(r, "findCredentials")
  /\ Same /\ UNCHANGED <<account, complete>>

\* The version of credentials never changes: nothing calls updatePassword.
findCredentials(r) ==
  /\ pc[r] = "findCredentials"
  /\ Reply(r, IF user[r] # None /\ token[r].user \in credentials THEN "sign" ELSE "failed")
  /\ Same /\ UNCHANGED <<account, user, complete>>

\* generateAuthTokens: a refresh keeps the id of the session, a login makes one.
generateAuthTokens(r) ==
  /\ pc[r] = "sign"
  /\ tokens' = tokens \cup
       {[session |-> IF op[r] = "login" THEN r ELSE token[r].session, user |-> user[r], iat |-> now]}
  /\ Goto(r, "done")
  /\ UNCHANGED <<account, blacklist, now, input, user, complete, orphans, broken, loggedOut>>

(***************************************************************************)
(* Time and failures.                                                      *)
(***************************************************************************)
Tick ==
  /\ now < MaxTime
  /\ now' = now + 1
  /\ UNCHANGED <<account, blacklist, tokens, input, user, complete, pc, orphans, broken, loggedOut>>

\* Sign-ups between their two transactions.
Halfway == {r \in Requests : pc[r] = "saveCredentials"}

dbError(r) ==
  /\ "dbError" \in Happens
  /\ pc[r] \in InUsers
  /\ Reply(r, "failed")
  /\ broken' = broken \cup ({r} \cap Halfway)
  /\ Kept /\ UNCHANGED <<account, user, complete>>

\* Redis pub/sub keeps no call nobody listens to, and getData has no timeout.
callLost(r) ==
  /\ "lost" \in Happens
  /\ pc[r] \in {"isEmailUnique", "findByEmail", "findById", "findUser"}
  /\ Reply(r, "unanswered")
  /\ Same /\ UNCHANGED <<account, user, complete>>

usersCrash ==
  /\ "usersCrash" \in Happens
  /\ \E r \in Requests : pc[r] \in InUsers
  /\ pc' = [r \in Requests |-> IF pc[r] \in InUsers
                               THEN IF r \in orphans THEN "lost" ELSE "unanswered"
                               ELSE pc[r]]
  /\ broken' = broken \cup Halfway
  /\ Kept /\ UNCHANGED <<account, user, complete>>

\* The users service goes on with the calls the auth service has made.
authCrash ==
  /\ "authCrash" \in Happens
  /\ \E r \in Requests : pc[r] \in InUsers \cup InAuth \cup {"unanswered"}
  /\ pc' = [r \in Requests |-> IF pc[r] \in InAuth \cup {"unanswered"} THEN "lost" ELSE pc[r]]
  /\ orphans' = orphans \cup {r \in Requests : pc[r] \in InUsers}
  /\ UNCHANGED <<account, blacklist, now, tokens, input, user, complete, broken, loggedOut>>

Step(r) ==
  \/ isEmailUnique(r) \/ hashed(r) \/ saveUser(r) \/ saveCredentials(r)
  \/ findOneByEmail(r) \/ verifyPassword(r) \/ findOneById(r)
  \/ checkIfTokenIsBlacklisted(r) \/ findUser(r) \/ findCredentials(r)
  \/ generateAuthTokens(r)

Next ==
  \/ \E r \in Requests : \/ signUp(r) \/ passwordsDiffer(r) \/ login(r) \/ refreshTokenAccess(r) \/ logout(r) \/ getMe(r)
                         \/ Step(r) \/ dbError(r) \/ callLost(r)
  \/ Tick \/ usersCrash \/ authCrash

Fairness == \A r \in Requests : WF_vars(Step(r))
Spec == Init /\ [][Next]_vars
FairSpec == Spec /\ Fairness

(***************************************************************************)
(* Properties.                                                             *)
(***************************************************************************)
\* Every variable holds a value of its kind.
TypeOK ==
  /\ users \subseteq Accounts /\ credentials \subseteq users
  /\ blacklist \subseteq Requests
  /\ now \in Start .. MaxTime
  /\ tokens \subseteq Tokens
  /\ op \in [Requests -> {"signUp", "login", "refresh", "logout", "me", None}]
  /\ email \in [Requests -> Emails \cup {None}]
  /\ password \in [Requests -> Passwords \cup {None}]
  /\ token \in [Requests -> Tokens \cup {None}]
  /\ user \in [Requests -> Accounts \cup {None}]
  /\ complete \subseteq Requests
  /\ pc \in [Requests -> InUsers \cup InAuth \cup Ended \cup {"idle", "unanswered"}]
  /\ orphans \subseteq Requests /\ broken \subseteq Requests
  /\ loggedOut \in [Requests -> SUBSET Tokens]

\* Sign-ups that overlap may all find an email free (users.service.ts 185-192);
\* one of them gets it.
OneUserPerEmail == \A u, v \in users : EmailOf(u) = EmailOf(v) => u = v

\* No one gets a token for an account without credentials, such as a login finds
\* between the two transactions of a sign-up, or ever after one of them failed;
\* and down a chain of refreshes a token still is for the account whose email and
\* password the login gave.
TokensNeedCredentials ==
  \A t \in tokens :
    /\ t.user \in credentials
    /\ op[t.session] = "login"
    /\ email[t.session] = EmailOf(t.user) /\ password[t.session] = PasswordOf(t.user)

\* A session no refresh is under way for, and none of whose tokens is valid.
Over(l) ==
  /\ op[l] = "login" /\ pc[l] \in Ended
  /\ \A t \in tokens : t.session = l => now >= t.iat + RefreshTime
  /\ \A r \in Requests : op[r] = "refresh" /\ token[r].session = l =>
       pc[r] \in Ended \cup {"unanswered"}

\* A session that was not refreshed in time is over for good, although a refresh
\* has no deadline and may sign long after it verified (auth.service.ts 216-247).
SessionsStayOver == [][\A l \in Requests : Over(l) => Over(l)']_vars

\* A stored user gets credentials unless the users service or its database fails
\* at that very request, whatever becomes of the auth service that asked.
AccountsGetCompleted == \A u \in Requests : u \in users ~> u \in credentials \cup broken

\* A request ends, save one whose call to the users service went unanswered.
RequestsEnd ==
  \A r \in Requests :
    (pc[r] \in InUsers \cup InAuth) ~> (pc[r] \in Ended \cup {"unanswered"})

\* The two services keep what AccountStore promises: emails given once, sessions
\* only for complete accounts, each for one account, and none that comes back.
Store == INSTANCE AccountStore WITH
  Sessions <- Requests,
  emailOf  <- [u \in Accounts |-> IF u \in users THEN EmailOf(u) ELSE None],
  usable   <- credentials,
  owners   <- [l \in Requests |-> {t.user : t \in {t \in tokens : t.session = l}}],
  over     <- {l \in Requests : Over(l) /\ \E t \in tokens : t.session = l}

ServicesKeepStore == Store!Spec

(***************************************************************************)
(* What the source says and the code does not keep.                        *)
(***************************************************************************)
\* auth.service.ts 173, "blacklist the refresh token": a token is of no use once
\* a logout with it has been answered.
LogoutEndsSession ==
  \A r \in Requests : op[r] = "refresh" /\ pc[r] = "done" => token[r] \notin loggedOut[r]
=============================================================================
