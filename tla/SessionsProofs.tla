---------------------------- MODULE SessionsProofs ----------------------------
(***************************************************************************)
(* Theorems about Sessions, for every set of requests, emails, passwords   *)
(* and seeded accounts, for all times, and whatever fails; and that the    *)
(* two services implement AccountStore.                                    *)
(***************************************************************************)
EXTENDS Sessions, TLAPS

\* The awaits of each kind of request.
SignUpSteps == {"isEmailUnique", "hash", "saveUser", "saveCredentials"}
LoginSteps == {"findByEmail", "verifyPassword"}
RefreshSteps == {"checkBlacklist", "findUser", "findCredentials"}

\* A request awaits what its kind awaits, and came with what its kind needs.
Course ==
  \A r \in Requests :
    /\ pc[r] \in SignUpSteps => op[r] = "signUp" /\ email[r] \in Emails
    /\ pc[r] \in LoginSteps => op[r] = "login"
    /\ pc[r] \in RefreshSteps => op[r] = "refresh"
    /\ pc[r] = "sign" => op[r] \in {"login", "refresh"}
    /\ pc[r] = "findById" => op[r] = "me"
    /\ op[r] \in {"refresh", "logout", "me"} /\ pc[r] # "idle" => token[r] \in tokens

\* Accounts are made by sign-ups that have passed saveUser.
Accounted ==
  \A r \in Requests :
    /\ r \in users => op[r] = "signUp" /\ pc[r] \notin {"idle", "isEmailUnique", "hash", "saveUser"}
    /\ pc[r] = "saveCredentials" => r \in users

\* The account a request is about to sign a token for, and how it was found.
Found ==
  \A r \in Requests :
    /\ r \in complete => pc[r] \notin {"idle", "findByEmail"}
    /\ pc[r] = "verifyPassword" =>
         /\ user[r] \in users /\ email[r] = EmailOf(user[r])
         /\ r \in complete => user[r] \in credentials
    /\ pc[r] = "findCredentials" => user[r] \in {token[r].user, None}
    /\ pc[r] = "sign" => user[r] \in credentials
    /\ pc[r] = "sign" /\ op[r] = "login" =>
         email[r] = EmailOf(user[r]) /\ password[r] = PasswordOf(user[r])
    /\ pc[r] = "sign" /\ op[r] = "refresh" => user[r] = token[r].user

\* A session belongs to a login that is done, and to the account that it found.
Owned == \A t \in tokens : pc[t.session] = "done" /\ t.user = user[t.session]

Shape == TypeOK /\ Course /\ Accounted

IInv == Shape /\ OneUserPerEmail /\ Found /\ TokensNeedCredentials /\ Owned

(***************************************************************************)
(* The start, and what may happen.                                         *)
(***************************************************************************)
\* The services start in the invariant.
LEMMA IInvInit == Init => IInv
<1> SUFFICES ASSUME Init PROVE IInv
  OBVIOUS
<1> USE DEF Init
<1>1. TypeOK
  <2>1. now \in Start .. MaxTime
    BY TimeAssumption
  <2> QED
    BY <2>1 DEF TypeOK, Accounts
<1>2. Course /\ Accounted
  BY SeedAssumption DEF Course, Accounted, SignUpSteps, LoginSteps, RefreshSteps
<1>3. OneUserPerEmail
  BY SeedAssumption DEF OneUserPerEmail, EmailOf
<1>4. Found /\ TokensNeedCredentials /\ Owned
  BY DEF Found, TokensNeedCredentials, Owned
<1> QED
  BY <1>1, <1>2, <1>3, <1>4 DEF IInv, Shape

\* A request that arrives.
Arrive(r) ==
  signUp(r) \/ passwordsDiffer(r) \/ login(r) \/ refreshTokenAccess(r) \/ logout(r) \/ getMe(r)

\* Every step is one of a request, of the clock or of a failure, or none.
LEMMA NextCases ==
  ASSUME [Next]_vars
  PROVE  \/ \E r \in Requests : Arrive(r) \/ Step(r) \/ dbError(r) \/ callLost(r)
         \/ Tick \/ usersCrash \/ authCrash \/ UNCHANGED vars
BY DEF Next, Arrive

\* Every step keeps the types.
LEMMA TypeStep == ASSUME Shape, Found, [Next]_vars PROVE TypeOK'
<1> USE DEF Shape, TypeOK, account, input, Goto, Reply, Kept, Same, InUsers, InAuth, Ended
<1>1. ASSUME NEW r \in Requests, Arrive(r) PROVE TypeOK'
  <2>1. CASE signUp(r) \/ passwordsDiffer(r) \/ login(r)
    BY <2>1 DEF signUp, passwordsDiffer, login, Begin
  <2>2. CASE refreshTokenAccess(r)
    <3>1. LoggedOut \subseteq Tokens
      BY DEF LoggedOut, Course
    <3> QED
      BY <2>2, <3>1 DEF refreshTokenAccess, Begin
  <2>3. CASE logout(r) \/ getMe(r)
    BY <2>3 DEF logout, getMe, Begin, Tokens
  <2> QED
    BY <1>1, <2>1, <2>2, <2>3 DEF Arrive
<1>2. ASSUME NEW r \in Requests, Step(r) PROVE TypeOK'
  <2>1. CASE isEmailUnique(r) \/ hashed(r)
    BY <2>1 DEF isEmailUnique, hashed
  <2>2. CASE saveUser(r)
    BY <2>2 DEF saveUser, Accounts
  <2>3. CASE saveCredentials(r)
    BY <2>3 DEF saveCredentials, Accounted
  <2>4. CASE findOneByEmail(r)
    BY <2>4 DEF findOneByEmail
  <2>5. CASE verifyPassword(r) \/ findOneById(r) \/ checkIfTokenIsBlacklisted(r)
    BY <2>5 DEF verifyPassword, findOneById, checkIfTokenIsBlacklisted
  <2>6. CASE findUser(r) \/ findCredentials(r)
    BY <2>6 DEF findUser, findCredentials
  <2>7. CASE generateAuthTokens(r)
    <3> DEFINE s == IF op[r] = "login" THEN r ELSE token[r].session
    <3>1. s \in Requests /\ user[r] \in Accounts
      BY <2>7 DEF generateAuthTokens, Course, Found, Tokens
    <3>2. [session |-> s, user |-> user[r], iat |-> now] \in Tokens
      BY <3>1 DEF Tokens
    <3> QED
      BY <2>7, <3>2 DEF generateAuthTokens
  <2> QED
    BY <1>2, <2>1, <2>2, <2>3, <2>4, <2>5, <2>6, <2>7 DEF Step
<1>3. ASSUME NEW r \in Requests, dbError(r) \/ callLost(r) PROVE TypeOK'
  BY <1>3 DEF dbError, callLost
<1>4. CASE Tick
  BY <1>4, TimeAssumption DEF Tick
<1>5. CASE usersCrash
  BY <1>5 DEF usersCrash, Halfway
<1>6. CASE authCrash
  BY <1>6 DEF authCrash
<1>7. CASE UNCHANGED vars
  BY <1>7 DEF vars
<1> QED
  BY <1>1, <1>2, <1>3, <1>4, <1>5, <1>6, <1>7, NextCases

\* Every step keeps a request to its course.
LEMMA CourseStep == ASSUME Shape, [Next]_vars PROVE Course' /\ Accounted'
<1> USE DEF Shape, TypeOK, Course, Accounted, SignUpSteps, LoginSteps, RefreshSteps, account, input,
            Goto, Reply, Kept, Same, InUsers, InAuth, Ended
<1>1. ASSUME NEW r \in Requests, Arrive(r) PROVE Course' /\ Accounted'
  <2>1. CASE signUp(r) \/ passwordsDiffer(r) \/ login(r)
    BY <2>1 DEF signUp, passwordsDiffer, login, Begin
  <2>2. CASE refreshTokenAccess(r) \/ getMe(r)
    BY <2>2 DEF refreshTokenAccess, getMe, Begin
  <2>3. CASE logout(r)
    BY <2>3 DEF logout
  <2> QED
    BY <1>1, <2>1, <2>2, <2>3 DEF Arrive
<1>2. ASSUME NEW r \in Requests, Step(r) PROVE Course' /\ Accounted'
  <2>1. CASE isEmailUnique(r) \/ hashed(r) \/ saveUser(r) \/ saveCredentials(r)
    BY <2>1 DEF isEmailUnique, hashed, saveUser, saveCredentials
  <2>2. CASE findOneByEmail(r) \/ verifyPassword(r) \/ findOneById(r)
    BY <2>2 DEF findOneByEmail, verifyPassword, findOneById
  <2>3. CASE checkIfTokenIsBlacklisted(r) \/ findUser(r) \/ findCredentials(r)
    BY <2>3 DEF checkIfTokenIsBlacklisted, findUser, findCredentials
  <2>4. CASE generateAuthTokens(r)
    BY <2>4 DEF generateAuthTokens
  <2> QED
    BY <1>2, <2>1, <2>2, <2>3, <2>4 DEF Step
<1>3. ASSUME NEW r \in Requests, dbError(r) \/ callLost(r) PROVE Course' /\ Accounted'
  BY <1>3 DEF dbError, callLost
<1>4. CASE Tick
  BY <1>4 DEF Tick
<1>5. CASE usersCrash
  BY <1>5 DEF usersCrash
<1>6. CASE authCrash
  BY <1>6 DEF authCrash
<1>7. CASE UNCHANGED vars
  BY <1>7 DEF vars
<1> QED
  BY <1>1, <1>2, <1>3, <1>4, <1>5, <1>6, <1>7, NextCases

(***************************************************************************)
(* What stays.                                                             *)
(***************************************************************************)
\* A request keeps what it came with, and once it has ended, all of it.
LEMMA RequestKept ==
  ASSUME Shape, [Next]_vars, NEW q \in Requests, pc[q] # "idle"
  PROVE  /\ pc'[q] # "idle"
         /\ op'[q] = op[q] /\ email'[q] = email[q] /\ password'[q] = password[q] /\ token'[q] = token[q]
         /\ pc[q] \in Ended => pc'[q] = pc[q] /\ user'[q] = user[q]
         /\ pc[q] = "unanswered" => pc'[q] \in {"unanswered", "lost"}
<1> DEFINE Stays ==
      /\ pc'[q] # "idle"
      /\ op'[q] = op[q] /\ email'[q] = email[q] /\ password'[q] = password[q] /\ token'[q] = token[q]
      /\ pc[q] \in Ended => pc'[q] = pc[q] /\ user'[q] = user[q]
      /\ pc[q] = "unanswered" => pc'[q] \in {"unanswered", "lost"}
<1> USE DEF Shape, TypeOK, account, input, Goto, Reply, Kept, Same, InUsers, InAuth, Ended
<1>1. ASSUME NEW r \in Requests, Arrive(r) PROVE Stays
  BY <1>1 DEF Arrive, signUp, passwordsDiffer, login, refreshTokenAccess, logout, getMe, Begin
<1>2. ASSUME NEW r \in Requests, Step(r) PROVE Stays
  BY <1>2
  DEF Step, isEmailUnique, hashed, saveUser, saveCredentials, findOneByEmail, verifyPassword,
      findOneById, checkIfTokenIsBlacklisted, findUser, findCredentials, generateAuthTokens
<1>3. ASSUME NEW r \in Requests, dbError(r) \/ callLost(r) PROVE Stays
  BY <1>3 DEF dbError, callLost
<1>4. CASE Tick \/ usersCrash \/ authCrash \/ UNCHANGED vars
  BY <1>4 DEF Tick, usersCrash, authCrash, vars
<1> QED
  BY <1>1, <1>2, <1>3, <1>4, NextCases

\* Accounts, credentials and tokens stay, and so do the columns of an account.
LEMMA RowsKept ==
  ASSUME Shape, [Next]_vars
  PROVE  /\ users \subseteq users' /\ credentials \subseteq credentials' /\ tokens \subseteq tokens'
         /\ \A u \in users \ Seeds : email'[u] = email[u] /\ password'[u] = password[u]
<1>1. users \subseteq users' /\ credentials \subseteq credentials' /\ tokens \subseteq tokens'
  BY NextCases
  DEF Arrive, signUp, passwordsDiffer, login, refreshTokenAccess, logout, getMe, Begin, Step,
      isEmailUnique, hashed, saveUser, saveCredentials, findOneByEmail, verifyPassword, findOneById,
      checkIfTokenIsBlacklisted, findUser, findCredentials, generateAuthTokens, dbError, callLost,
      Tick, usersCrash, authCrash, vars, account, Kept, Same
<1>2. ASSUME NEW u \in users \ Seeds PROVE email'[u] = email[u] /\ password'[u] = password[u]
  <2>1. u \in Requests /\ pc[u] # "idle"
    BY DEF Shape, TypeOK, Accounts, Accounted
  <2> QED
    BY <2>1, RequestKept
<1> QED
  BY <1>1, <1>2

\* Only the signature makes a token.
LEMMA WhoSigns ==
  ASSUME [Next]_vars, tokens' # tokens
  PROVE  \E r \in Requests : generateAuthTokens(r)
BY NextCases
DEF Arrive, signUp, passwordsDiffer, login, refreshTokenAccess, logout, getMe, Begin, Step,
    isEmailUnique, hashed, saveUser, saveCredentials, findOneByEmail, verifyPassword, findOneById,
    checkIfTokenIsBlacklisted, findUser, findCredentials, dbError, callLost,
    Tick, usersCrash, authCrash, vars, account, Kept, Same

\* Only saveUser makes an account.
LEMMA WhoSaves ==
  ASSUME [Next]_vars, users' # users
  PROVE  \E r \in Requests : saveUser(r) /\ users' = users \cup {r}
                             /\ \A u \in users : EmailOf(u) # email[r]
BY NextCases
DEF Arrive, signUp, passwordsDiffer, login, refreshTokenAccess, logout, getMe, Begin, Step,
    isEmailUnique, hashed, saveUser, saveCredentials, findOneByEmail, verifyPassword, findOneById,
    checkIfTokenIsBlacklisted, findUser, findCredentials, generateAuthTokens, dbError, callLost,
    Tick, usersCrash, authCrash, vars, account, Kept, Same

(***************************************************************************)
(* The other conjuncts of the invariant.                                   *)
(***************************************************************************)
\* Of the sign-ups that found an email free, saveUser lets one through.
LEMMA EmailsStep == ASSUME Shape, OneUserPerEmail, [Next]_vars PROVE OneUserPerEmail'
<1>1. CASE users' = users
  BY <1>1, RowsKept DEF OneUserPerEmail, EmailOf
<1>2. CASE users' # users
  <2>1. PICK r \in Requests : /\ saveUser(r) /\ users' = users \cup {r}
                              /\ \A u \in users : EmailOf(u) # email[r]
    BY <1>2, WhoSaves
  <2>2. r \notin Seeds /\ email' = email
    BY <2>1, SeedAssumption DEF saveUser, Same, Kept, input
  <2> QED
    BY <2>1, <2>2 DEF OneUserPerEmail, EmailOf
<1> QED
  BY <1>1, <1>2

\* A request goes on to what needs an account only by the steps that look for it.
LEMMA WhoFinds ==
  ASSUME Shape, [Next]_vars, NEW q \in Requests
  PROVE  \/ /\ user'[q] = user[q]
            /\ q \in complete' <=> q \in complete
            /\ pc'[q] \in {"verifyPassword", "findCredentials", "sign"} => pc'[q] = pc[q]
            /\ pc'[q] \in {"idle", "findByEmail"} => pc[q] \in {"idle", pc'[q]}
         \/ findOneByEmail(q) \/ verifyPassword(q) \/ findUser(q) \/ findCredentials(q)
<1> DEFINE Goal ==
      \/ /\ user'[q] = user[q]
         /\ q \in complete' <=> q \in complete
         /\ pc'[q] \in {"verifyPassword", "findCredentials", "sign"} => pc'[q] = pc[q]
         /\ pc'[q] \in {"idle", "findByEmail"} => pc[q] \in {"idle", pc'[q]}
      \/ findOneByEmail(q) \/ verifyPassword(q) \/ findUser(q) \/ findCredentials(q)
<1> USE DEF Shape, TypeOK, account, input, Goto, Reply, Kept, Same, InUsers, InAuth
<1>1. ASSUME NEW r \in Requests, Arrive(r) PROVE Goal
  BY <1>1 DEF Arrive, signUp, passwordsDiffer, login, refreshTokenAccess, logout, getMe, Begin
<1>2. ASSUME NEW r \in Requests, Step(r) PROVE Goal
  <2>1. CASE r = q /\ (findOneByEmail(r) \/ verifyPassword(r) \/ findUser(r) \/ findCredentials(r))
    BY <2>1
  <2>2. CASE r # q /\ (findOneByEmail(r) \/ verifyPassword(r) \/ findUser(r) \/ findCredentials(r))
    BY <2>2 DEF findOneByEmail, verifyPassword, findUser, findCredentials
  <2>3. CASE ~ (findOneByEmail(r) \/ verifyPassword(r) \/ findUser(r) \/ findCredentials(r))
    BY <1>2, <2>3
    DEF Step, isEmailUnique, hashed, saveUser, saveCredentials, findOneById,
        checkIfTokenIsBlacklisted, generateAuthTokens
  <2> QED
    BY <2>1, <2>2, <2>3
<1>3. ASSUME NEW r \in Requests, dbError(r) \/ callLost(r) PROVE Goal
  BY <1>3 DEF dbError, callLost
<1>4. CASE Tick \/ usersCrash \/ authCrash \/ UNCHANGED vars
  BY <1>4 DEF Tick, usersCrash, authCrash, vars
<1> QED
  BY <1>1, <1>2, <1>3, <1>4, NextCases

\* What a request has found stays true of the account.
LEMMA FoundStep == ASSUME Shape, Found, [Next]_vars PROVE Found'
<1> DEFINE F(q) ==
      /\ q \in complete => pc[q] \notin {"idle", "findByEmail"}
      /\ pc[q] = "verifyPassword" =>
           /\ user[q] \in users /\ email[q] = EmailOf(user[q])
           /\ q \in complete => user[q] \in credentials
      /\ pc[q] = "findCredentials" => user[q] \in {token[q].user, None}
      /\ pc[q] = "sign" => user[q] \in credentials
      /\ pc[q] = "sign" /\ op[q] = "login" =>
           email[q] = EmailOf(user[q]) /\ password[q] = PasswordOf(user[q])
      /\ pc[q] = "sign" /\ op[q] = "refresh" => user[q] = token[q].user
<1> SUFFICES ASSUME NEW q \in Requests PROVE F(q)'
  BY DEF Found
<1> USE DEF Goto, Reply, Kept, Same, account, input
<1>1. F(q) /\ credentials \subseteq users /\ (pc[q] = "verifyPassword" => op[q] = "login")
           /\ (pc[q] = "findCredentials" => op[q] = "refresh")
  BY DEF Found, Shape, TypeOK, Course, LoginSteps, RefreshSteps
<1>2. /\ users \subseteq users' /\ credentials \subseteq credentials'
      /\ \A u \in users \ Seeds : email'[u] = email[u] /\ password'[u] = password[u]
  BY RowsKept
<1>3. pc[q] # "idle" =>
        op'[q] = op[q] /\ email'[q] = email[q] /\ password'[q] = password[q] /\ token'[q] = token[q]
  BY RequestKept
<1>4. DOMAIN pc = Requests /\ DOMAIN user = Requests
  BY DEF Shape, TypeOK
<1>5. CASE /\ user'[q] = user[q]
           /\ q \in complete' <=> q \in complete
           /\ pc'[q] \in {"verifyPassword", "findCredentials", "sign"} => pc'[q] = pc[q]
           /\ pc'[q] \in {"idle", "findByEmail"} => pc[q] \in {"idle", pc'[q]}
  BY <1>1, <1>2, <1>3, <1>5, RequestKept DEF EmailOf, PasswordOf
<1>6. CASE findOneByEmail(q)
  BY <1>1, <1>2, <1>3, <1>4, <1>6 DEF findOneByEmail, EmailOf
<1>7. CASE verifyPassword(q)
  BY <1>1, <1>2, <1>3, <1>4, <1>7 DEF verifyPassword, Accepted, EmailOf, PasswordOf
<1>8. CASE findUser(q)
  BY <1>1, <1>2, <1>3, <1>4, <1>8 DEF findUser
<1>9. CASE findCredentials(q)
  BY <1>1, <1>2, <1>3, <1>4, <1>9 DEF findCredentials
<1> QED
  BY <1>5, <1>6, <1>7, <1>8, <1>9, WhoFinds

\* A new token continues the session of its login, for the account found there.
LEMMA TokensStep ==
  ASSUME Shape, Found, TokensNeedCredentials, Owned, [Next]_vars
  PROVE  TokensNeedCredentials' /\ Owned'
<1> DEFINE Sound(t) ==
      /\ t.session \in Requests /\ t.user \in credentials
      /\ op[t.session] = "login" /\ pc[t.session] = "done" /\ t.user = user[t.session]
      /\ email[t.session] = EmailOf(t.user) /\ password[t.session] = PasswordOf(t.user)
<1>1. ASSUME NEW t \in tokens PROVE Sound(t)
  BY DEF TokensNeedCredentials, Owned, Shape, TypeOK, Tokens
<1>2. ASSUME NEW t \in tokens PROVE Sound(t)'
  <2>1. Sound(t) /\ t.user \in users
    BY <1>1 DEF Shape, TypeOK
  <2> QED
    BY <2>1, RowsKept, RequestKept DEF Ended, EmailOf, PasswordOf
<1>3. CASE tokens' = tokens
  BY <1>2, <1>3 DEF TokensNeedCredentials, Owned
<1>4. ASSUME NEW r \in Requests, generateAuthTokens(r) PROVE TokensNeedCredentials' /\ Owned'
  <2>1. PICK n : /\ n = [session |-> IF op[r] = "login" THEN r ELSE token[r].session,
                         user |-> user[r], iat |-> now]
                 /\ tokens' = tokens \cup {n}
    BY <1>4 DEF generateAuthTokens
  <2>2. pc[r] = "sign" /\ Goto(r, "done") /\ UNCHANGED <<account, input, user>>
    BY <1>4 DEF generateAuthTokens
  <2>3. Sound(n)'
    <3>1. CASE op[r] = "login"
      BY <2>1, <2>2, <3>1 DEF Found, Shape, TypeOK, Goto, account, input, EmailOf, PasswordOf
    <3>2. CASE op[r] = "refresh"
      <4>1. token[r] \in tokens /\ user[r] = token[r].user
        BY <2>2, <3>2 DEF Found, Shape, Course
      <4>2. PICK t \in tokens : t = token[r]
        BY <4>1
      <4>3. n.session = t.session /\ n.user = t.user
        BY <2>1, <3>2, <4>1, <4>2
      <4> QED
        BY <1>2, <4>2, <4>3
    <3> QED
      BY <2>2, <3>1, <3>2 DEF Shape, Course
  <2> QED
    BY <1>2, <2>1, <2>3 DEF TokensNeedCredentials, Owned
<1> QED
  BY <1>3, <1>4, WhoSigns

\* The invariant is kept by every step.
LEMMA IInvStep == IInv /\ [Next]_vars => IInv'
BY TypeStep, CourseStep, EmailsStep, FoundStep, TokensStep DEF IInv, Shape

(***************************************************************************)
(* Sessions stay over.                                                     *)
(***************************************************************************)
\* The clock does not go back.
LEMMA TimePasses == ASSUME Shape, [Next]_vars PROVE now \in Nat /\ now' \in Nat /\ now <= now'
<1>1. now \in Nat
  BY TimeAssumption DEF Shape, TypeOK
<1>2. now' = now \/ now' = now + 1
  BY NextCases
  DEF Arrive, signUp, passwordsDiffer, login, refreshTokenAccess, logout, getMe, Begin, Step,
      isEmailUnique, hashed, saveUser, saveCredentials, findOneByEmail, verifyPassword, findOneById,
      checkIfTokenIsBlacklisted, findUser, findCredentials, generateAuthTokens, dbError, callLost,
      Tick, usersCrash, authCrash, vars, Kept, Same
<1> QED
  BY <1>1, <1>2

\* A refresh that arrives goes on only with a token that is still valid.
LEMMA WhoRefreshes ==
  ASSUME Shape, [Next]_vars, NEW r \in Requests, pc[r] = "idle"
  PROVE  \/ op'[r] = op[r] /\ token'[r] = token[r] /\ pc'[r] = pc[r]
         \/ op'[r] \in {"signUp", "login", "logout", "me"}
         \/ pc'[r] = "failed"
         \/ \E t \in tokens : token'[r] = t /\ now < t.iat + RefreshTime
<1> DEFINE Goal ==
      \/ op'[r] = op[r] /\ token'[r] = token[r] /\ pc'[r] = pc[r]
      \/ op'[r] \in {"signUp", "login", "logout", "me"}
      \/ pc'[r] = "failed"
      \/ \E t \in tokens : token'[r] = t /\ now < t.iat + RefreshTime
<1> USE DEF Shape, TypeOK, input, Goto, Reply, Kept, Same, InUsers, InAuth
<1>1. ASSUME NEW q \in Requests, Arrive(q) PROVE Goal
  <2>1. CASE refreshTokenAccess(q)
    BY <2>1 DEF refreshTokenAccess, Begin, verified
  <2>2. CASE signUp(q) \/ passwordsDiffer(q) \/ login(q) \/ logout(q) \/ getMe(q)
    BY <2>2 DEF signUp, passwordsDiffer, login, logout, getMe, Begin
  <2> QED
    BY <1>1, <2>1, <2>2 DEF Arrive
<1>2. ASSUME NEW q \in Requests, Step(q) PROVE Goal
  BY <1>2
  DEF Step, isEmailUnique, hashed, saveUser, saveCredentials, findOneByEmail, verifyPassword,
      findOneById, checkIfTokenIsBlacklisted, findUser, findCredentials, generateAuthTokens
<1>3. ASSUME NEW q \in Requests, dbError(q) \/ callLost(q) PROVE Goal
  BY <1>3 DEF dbError, callLost
<1>4. CASE Tick \/ usersCrash \/ authCrash \/ UNCHANGED vars
  BY <1>4 DEF Tick, usersCrash, authCrash, vars
<1> QED
  BY <1>1, <1>2, <1>3, <1>4, NextCases

\* Nothing brings a session back: a refresh of it that arrives is refused, and
\* none is left that could sign.
LEMMA OverStep == ASSUME Shape, [Next]_vars, NEW l \in Requests, Over(l) PROVE Over(l)'
<1>1. op'[l] = "login" /\ pc'[l] \in Ended
  BY RequestKept DEF Over, Ended
<1>2. ASSUME NEW t \in tokens', t.session = l PROVE now' >= t.iat + RefreshTime
  <2>1. CASE t \in tokens
    <3>1. t.iat \in Nat /\ now >= t.iat + RefreshTime
      BY <1>2, <2>1, TimeAssumption DEF Over, Shape, TypeOK, Tokens
    <3> QED
      BY <3>1, TimePasses, TimeAssumption
  <2>2. CASE t \notin tokens
    <3>1. PICK r \in Requests : generateAuthTokens(r)
      BY <2>2, WhoSigns
    <3>2. pc[r] = "sign" /\ t.session = IF op[r] = "login" THEN r ELSE token[r].session
      BY <2>2, <3>1 DEF generateAuthTokens
    <3>3. r # l /\ op[r] \in {"login", "refresh"}
      BY <3>2 DEF Over, Ended, Shape, Course
    <3> QED
      BY <1>2, <3>2, <3>3 DEF Over, Ended
  <2> QED
    BY <2>1, <2>2
<1>3. ASSUME NEW r \in Requests, op'[r] = "refresh", token'[r].session = l
      PROVE  pc'[r] \in Ended \cup {"unanswered"}
  <2>1. CASE pc[r] = "idle"
    <3>1. ASSUME NEW t \in tokens, token'[r] = t PROVE now >= t.iat + RefreshTime /\ t.iat \in Nat
      BY <1>3, <3>1, TimeAssumption DEF Over, Shape, TypeOK, Tokens
    <3> QED
      BY <1>3, <2>1, <3>1, WhoRefreshes, TimePasses, TimeAssumption DEF Over, Ended
  <2>2. CASE pc[r] # "idle"
    BY <1>3, <2>2, RequestKept DEF Over, Ended
  <2> QED
    BY <2>1, <2>2
<1> QED
  BY <1>1, <1>2, <1>3 DEF Over

(***************************************************************************)
(* The services implement AccountStore.                                    *)
(***************************************************************************)
\* The variables of the store, as the services show them.
StoreEmailOf == [u \in Accounts |-> IF u \in users THEN EmailOf(u) ELSE None]
StoreOwners == [l \in Requests |-> {t.user : t \in {t \in tokens : t.session = l}}]
StoreOver == {l \in Requests : Over(l) /\ \E t \in tokens : t.session = l}

\* At the start there are the seeded accounts, which are complete.
LEMMA StoreInit == Init => Store!Init
<1> SUFFICES ASSUME Init PROVE Store!Init
  OBVIOUS
<1>1. StoreEmailOf \in [Accounts -> Emails \cup {None}]
  BY SeedAssumption DEF Init, StoreEmailOf, EmailOf
<1>2. \A u, v \in Accounts : StoreEmailOf[u] = StoreEmailOf[v] => u = v \/ StoreEmailOf[u] = None
  BY SeedAssumption, NoneAssumption DEF Init, StoreEmailOf, EmailOf
<1>3. credentials = {u \in Accounts : StoreEmailOf[u] # None}
  BY SeedAssumption, NoneAssumption DEF Init, StoreEmailOf, EmailOf, Accounts
<1>4. StoreOwners = [l \in Requests |-> {}] /\ StoreOver = {}
  BY DEF Init, StoreOwners, StoreOver
<1> QED
  BY <1>1, <1>2, <1>3, <1>4 DEF Store!Init, StoreEmailOf, StoreOwners, StoreOver

\* Without a new account the emails stay.
LEMMA EmailsKept ==
  ASSUME Shape, [Next]_vars, users' = users
  PROVE  StoreEmailOf' = StoreEmailOf
BY RowsKept DEF StoreEmailOf, EmailOf

\* Without a new token, or with one in the session it was refreshed from, the
\* owners stay.
LEMMA OwnersKept ==
  ASSUME \A n \in tokens' : \E t \in tokens : n.session = t.session /\ n.user = t.user,
         tokens \subseteq tokens'
  PROVE  StoreOwners' = StoreOwners
BY DEF StoreOwners

\* Sessions with owners are those with tokens, and the over ones stay over.
LEMMA OverGrows ==
  ASSUME Shape, [Next]_vars
  PROVE  /\ StoreOver \subseteq StoreOver'
         /\ StoreOwners' = StoreOwners =>
              StoreOver' \in SUBSET {l \in Requests : StoreOwners[l] # {}}
<1>1. tokens \subseteq tokens'
  BY RowsKept
<1>2. ASSUME NEW l \in StoreOver PROVE l \in StoreOver'
  <2>1. l \in Requests /\ Over(l) /\ \E t \in tokens : t.session = l
    BY DEF StoreOver
  <2>2. Over(l)'
    BY <2>1, OverStep
  <2> QED
    BY <1>1, <2>1, <2>2 DEF StoreOver
<1>3. ASSUME StoreOwners' = StoreOwners, NEW l \in StoreOver' PROVE StoreOwners[l] # {}
  <2>1. l \in Requests /\ \E t \in tokens' : t.session = l
    BY <1>3 DEF StoreOver
  <2>2. StoreOwners'[l] # {}
    BY <2>1 DEF StoreOwners
  <2> QED
    BY <1>3, <2>2
<1> QED
  BY <1>2, <1>3 DEF StoreOver
\* Every step is a step of the store, or leaves it alone.
LEMMA StoreStep ==
  ASSUME RefreshTime > 0, IInv, [Next]_vars
  PROVE  [Store!Next]_(Store!vars)
<1> USE DEF IInv
<1>1. CASE users' # users
  <2>1. PICK r \in Requests : /\ saveUser(r) /\ users' = users \cup {r}
                              /\ \A u \in users : EmailOf(u) # email[r]
    BY <1>1, WhoSaves
  <2>2. /\ op[r] = "signUp" /\ email[r] \in Emails /\ r \notin users /\ r \notin Seeds
        /\ UNCHANGED <<credentials, tokens, now, op, email, token>>
        /\ \A q \in Requests \ {r} : pc'[q] = pc[q]
    BY <2>1, SeedAssumption
    DEF saveUser, Shape, TypeOK, Course, Accounted, SignUpSteps, Same, Kept, input, Goto, Reply
  <2>3. StoreEmailOf[r] = None /\ \A v \in Accounts : StoreEmailOf[v] # email[r]
    BY <2>1, <2>2, NoneAssumption DEF StoreEmailOf, Accounts
  <2>4. StoreEmailOf' = [StoreEmailOf EXCEPT ![r] = email[r]]
    BY <2>1, <2>2 DEF StoreEmailOf, EmailOf, Accounts
  <2>5. StoreOwners' = StoreOwners
    BY <2>2 DEF StoreOwners
  <2>6. StoreOver' = StoreOver
    <3>1. ASSUME NEW l \in Requests PROVE Over(l)' <=> Over(l)
      BY <2>2 DEF Over
    <3> QED
      BY <2>2, <3>1 DEF StoreOver
  <2>7. Store!Register(r)
    BY <2>2, <2>3, <2>4, <2>5, <2>6 DEF Store!Register, StoreEmailOf, StoreOwners, StoreOver
  <2> QED
    BY <2>7 DEF Store!Next, Accounts
<1>2. CASE users' = users /\ credentials' # credentials
  <2>1. PICK r \in Requests : saveCredentials(r)
    BY <1>2, NextCases
    DEF Arrive, signUp, passwordsDiffer, login, refreshTokenAccess, logout, getMe, Begin, Step,
        isEmailUnique, hashed, saveUser, findOneByEmail, verifyPassword, findOneById,
        checkIfTokenIsBlacklisted, findUser, findCredentials, generateAuthTokens, dbError, callLost,
        Tick, usersCrash, authCrash, vars, account, Kept, Same
  <2>2. /\ op[r] = "signUp" /\ r \in users /\ email[r] \in Emails
        /\ credentials' = credentials \cup {r}
        /\ UNCHANGED <<users, tokens, now, op, email, token>>
        /\ \A q \in Requests \ {r} : pc'[q] = pc[q]
    BY <2>1
    DEF saveCredentials, Shape, TypeOK, Course, Accounted, SignUpSteps, Same, Kept, input, Goto, Reply
  <2>3. StoreEmailOf[r] # None
    BY <2>2, NoneAssumption, SeedAssumption DEF StoreEmailOf, Accounts, EmailOf
  <2>4. StoreEmailOf' = StoreEmailOf /\ StoreOwners' = StoreOwners
    BY <2>2, EmailsKept DEF StoreOwners
  <2>5. StoreOver' = StoreOver
    <3>1. ASSUME NEW l \in Requests PROVE Over(l)' <=> Over(l)
      BY <2>2 DEF Over
    <3> QED
      BY <2>2, <3>1 DEF StoreOver
  <2>6. Store!Complete(r)
    BY <2>2, <2>3, <2>4, <2>5 DEF Store!Complete, StoreEmailOf, StoreOwners, StoreOver
  <2> QED
    BY <2>6 DEF Store!Next, Accounts
<1>3. CASE UNCHANGED account /\ StoreOwners' = StoreOwners
  <2>1. StoreEmailOf' = StoreEmailOf /\ credentials' = credentials
    BY <1>3, EmailsKept DEF account
  <2>2. Store!EndSessions
    BY <1>3, <2>1, OverGrows DEF Store!EndSessions, StoreEmailOf, StoreOwners, StoreOver
  <2> QED
    BY <2>2 DEF Store!Next
<1>4. CASE UNCHANGED account /\ tokens' = tokens
  BY <1>3, <1>4 DEF StoreOwners
<1>5. ASSUME NEW r \in Requests, generateAuthTokens(r)
      PROVE  [Store!Next]_(Store!vars)
  <2>1. PICK n : /\ n = [session |-> IF op[r] = "login" THEN r ELSE token[r].session,
                         user |-> user[r], iat |-> now]
                 /\ tokens' = tokens \cup {n}
    BY <1>5 DEF generateAuthTokens
  <2>2. /\ pc[r] = "sign" /\ pc'[r] = "done" /\ \A q \in Requests \ {r} : pc'[q] = pc[q]
        /\ UNCHANGED account /\ UNCHANGED <<users, credentials, now, op, token>>
        /\ op[r] \in {"login", "refresh"} /\ user[r] \in credentials
    BY <1>5 DEF generateAuthTokens, Goto, account, input, Shape, TypeOK, Course, Found
  <2>3. CASE op[r] = "refresh"
    <3>1. token[r] \in tokens /\ n.session = token[r].session /\ n.user = token[r].user
      BY <2>1, <2>2, <2>3 DEF Shape, Course, Found
    <3>2. StoreOwners' = StoreOwners
      BY <2>1, <3>1, OwnersKept
    <3> QED
      BY <1>3, <2>2, <3>2
  <2>4. CASE op[r] = "login"
    <3>1. n.session = r /\ n.user = user[r] /\ n.iat = now
      BY <2>1, <2>4
    <3>2. \A t \in tokens : t.session # r
      BY <2>2 DEF Owned
    <3>3. StoreOwners[r] = {}
      BY <3>2 DEF StoreOwners
    <3>4. StoreOwners' = [StoreOwners EXCEPT ![r] = {user[r]}]
      BY <2>1, <3>1, <3>2 DEF StoreOwners
    <3>5. StoreOver' = StoreOver
      <4>1. ASSUME NEW l \in Requests, l # r PROVE Over(l)' <=> Over(l)
        BY <2>1, <2>2, <2>4, <3>1, <4>1 DEF Over
      <4>2. ~ Over(r)'
        BY <2>1, <2>2, <3>1, TimeAssumption, TimePasses DEF Over
      <4> QED
        BY <2>1, <3>1, <3>2, <4>1, <4>2 DEF StoreOver
    <3>6. StoreEmailOf' = StoreEmailOf
      BY <2>2, EmailsKept
    <3>7. Store!OpenSession(r)
      BY <2>2, <3>3, <3>4, <3>5, <3>6
      DEF Store!OpenSession, StoreEmailOf, StoreOwners, StoreOver
    <3> QED
      BY <3>7 DEF Store!Next
  <2> QED
    BY <2>2, <2>3, <2>4
<1>6. CASE UNCHANGED account /\ tokens' # tokens
  BY <1>5, <1>6, WhoSigns
<1> QED
  BY <1>1, <1>2, <1>4, <1>6 DEF account

(***************************************************************************)
(* The theorems.                                                           *)
(***************************************************************************)
\* The parts above hold together in every reachable state.
THEOREM Invariance == Spec => []IInv
BY IInvInit, IInvStep, PTL DEF Spec

\* Every variable of the two services holds a value of its kind.
THEOREM TypeCorrect == Spec => []TypeOK
<1>1. IInv => TypeOK
  BY DEF IInv, Shape
<1> QED
  BY <1>1, Invariance, PTL

\* However sign-ups overlap and fail, an email has one account.
THEOREM EmailsUnique == Spec => []OneUserPerEmail
<1>1. IInv => OneUserPerEmail
  BY DEF IInv
<1> QED
  BY <1>1, Invariance, PTL

\* Down every chain of refreshes a token is for the complete account that its
\* login named.
THEOREM TokensOfCompleteAccounts == Spec => []TokensNeedCredentials
<1>1. IInv => TokensNeedCredentials
  BY DEF IInv
<1> QED
  BY <1>1, Invariance, PTL

\* A session that is over is never refreshed again, whatever is delayed.
THEOREM OverForGood == Spec => SessionsStayOver
<1>1. IInv /\ [Next]_vars => [\A l \in Requests : Over(l) => Over(l)']_vars
  BY OverStep DEF IInv
<1> QED
  BY <1>1, Invariance, PTL DEF Spec, SessionsStayOver

\* Where refresh tokens last at all, the two services implement the store of
\* accounts: one that lasts no time would end its session as it opens.
THEOREM StoreKept == ASSUME RefreshTime > 0 PROVE Spec => ServicesKeepStore
<1>1. IInv /\ [Next]_vars => [Store!Next]_(Store!vars)
  BY StoreStep
<1> QED
  BY <1>1, StoreInit, Invariance, PTL DEF Spec, ServicesKeepStore, Store!Spec
=============================================================================
