---------------------------- MODULE TenantsProofs ----------------------------
(***************************************************************************)
(* Theorems about Tenants, for every set of requests, names, passwords and *)
(* tables, every graph of references, and with or without failures.        *)
(***************************************************************************)
EXTENDS Tenants, TLAPS

\* What a login that creates its tenant has done when it has come to an await.
Inserted(r) == pc[r] \in {"authenticate", "createSchema", "sync"} \/ Answered(r, "createTenant")
SchemaMade(r) == pc[r] = "sync" \/ Answered(r, "createSchema")

\* A login that may still create a tenant, since it found none of its name.
FoundNone(r) ==
  \/ Answered(r, "findTenant") /\ key[r] = None
  \/ pc[r] = "hash"
  \/ Asked(r, "createTenant")

\* The row, the schema and the bound classes are there when a request relies on them.
Course ==
  \A r \in Requests :
    /\ pc[r] = "idle" => name[r] = None
    /\ pc[r] \in {"checkSchema", "findById"} => name[r] = None /\ key[r] \in Requests \ {r}
    /\ r \in tenants => Inserted(r) \/ pc[r] \in AtRest \cup {"verify"}
    /\ Inserted(r) => r \in tenants /\ key[r] = r
    /\ SchemaMade(r) => r \in schemas
    /\ pc[r] = "sync" => bound \in schemas

Shape == TypeOK /\ Course

\* A login refers to a tenant of its name, from the look-up to the answer.
Keys ==
  /\ KeyMatchesLogin
  /\ \A r \in Requests :
       pc[r] = "verify" \/ (Answered(r, "findTenant") /\ key[r] # None) =>
         key[r] \in tenants /\ name[key[r]] = name[r]

\* A sync no one disturbs fills the schema of its own tenant.
Fills ==
  \A r \in Requests \ disturbed :
    /\ pc[r] = "sync" => bound = r /\ Tables \ todo[r] \subseteq tables[r]
    /\ pc[r] \in {"verify", "authorized"} /\ key[r] = r => tables[r] = Tables

\* Requests at rest when another began create nothing any more, and none
\* of the tenants they made has the name for which the other found none.
Earlier ==
  \A r \in Requests :
    /\ \A q \in before[r] : pc[q] \in AtRest
    /\ FoundNone(r) \/ r \in tenants => \A q \in before[r] \cap tenants : name[q] # name[r]

IInv == Shape /\ SchemaHasTenant /\ Keys /\ Fills /\ Earlier

(***************************************************************************)
(* The start, and what may happen.                                         *)
(***************************************************************************)
\* The program starts in the invariant.
LEMMA IInvInit == Init => IInv
<1> SUFFICES ASSUME Init PROVE IInv
  OBVIOUS
<1> USE DEF Init
<1>1. TypeOK
  BY DEF TypeOK
<1>2. Course /\ SchemaHasTenant /\ Keys
  BY DEF Course, SchemaHasTenant, Keys, KeyMatchesLogin, Inserted, SchemaMade, Answered
<1>3. Fills /\ Earlier
  BY DEF Fills, Earlier, FoundNone, Answered, Asked
<1> QED
  BY <1>1, <1>2, <1>3 DEF IInv, Shape

\* Every step is one of a request, the death of a service, or none.
LEMMA NextCases ==
  ASSUME [Next]_vars
  PROVE  \/ \E r \in Requests : tenantLogin(r) \/ initTenant(r) \/ Step(r) \/ dbError(r) \/ callLost(r)
         \/ tenantCrash \/ authCrash
         \/ UNCHANGED vars
BY DEF Next

\* A statement to be executed belongs to a request in progress: bound names a
\* schema whenever a table is created.
LEMMA BoundWhileSync ==
  ASSUME Shape, NEW r \in Requests, pc[r] = "sync"
  PROVE  bound \in Requests
BY DEF Shape, TypeOK, Course

\* Every step keeps the types.
LEMMA TypeStep == ASSUME Shape, [Next]_vars PROVE TypeOK'
<1> USE DEF Shape, TypeOK, database, input, Answer, Goto, Await, Reply, End, InTenant, InAuth, InProgress, Ended, AtRest
<1>1. ASSUME NEW r \in Requests, tenantLogin(r) PROVE TypeOK'
  BY <1>1 DEF tenantLogin, Begin
<1>2. ASSUME NEW r \in Requests, initTenant(r) PROVE TypeOK'
  BY <1>2 DEF initTenant, Begin
<1>3. ASSUME NEW r \in Requests, Step(r) PROVE TypeOK'
  <2>1. CASE findOneByName(r)
    BY <2>1 DEF findOneByName
  <2>2. CASE tenantFound(r) \/ tenantNotFound(r) \/ hashed(r)
    BY <2>2 DEF tenantFound, tenantNotFound, hashed
  <2>3. CASE createTenant(r) \/ createSchema(r)
    BY <2>3 DEF createTenant, createSchema
  <2>4. CASE authenticate(r) \/ authenticated(r)
    BY <2>4 DEF authenticate, authenticated
  <2>5. CASE addModels(r)
    BY <2>5 DEF addModels
  <2>6. CASE createTable(r)
    BY <2>6, BoundWhileSync DEF createTable
  <2>7. CASE synced(r)
    BY <2>7 DEF synced
  <2>8. CASE checkTenantExists(r) \/ verifyTenant(r) \/ verifyPassword(r)
    BY <2>8 DEF checkTenantExists, verifyTenant, verifyPassword
  <2> QED
    BY <1>3, <2>1, <2>2, <2>3, <2>4, <2>5, <2>6, <2>7, <2>8 DEF Step
<1>4. ASSUME NEW r \in Requests, dbError(r) \/ callLost(r) PROVE TypeOK'
  BY <1>4 DEF dbError, callLost
<1>5. CASE tenantCrash \/ authCrash
  BY <1>5 DEF tenantCrash, authCrash
<1>6. CASE UNCHANGED vars
  BY <1>6 DEF vars
<1> QED
  BY <1>1, <1>2, <1>3, <1>4, <1>5, <1>6, NextCases

(***************************************************************************)
(* The conjuncts of the invariant, one after the other.                    *)
(***************************************************************************)
\* Every step keeps a request to its course.
LEMMA CourseStep == ASSUME Shape, SchemaHasTenant, [Next]_vars PROVE Course'
<1> USE DEF Shape, TypeOK, SchemaHasTenant, Course, Inserted, SchemaMade, Answered, Asked, database,
            input, Answer, Goto, Await, Reply, End, InTenant, InAuth, InProgress, Ended, AtRest
<1>1. ASSUME NEW r \in Requests, tenantLogin(r) PROVE Course'
  BY <1>1 DEF tenantLogin, Begin
<1>2. ASSUME NEW r \in Requests, initTenant(r) PROVE Course'
  BY <1>2 DEF initTenant, Begin
<1>3. ASSUME NEW r \in Requests, Step(r) PROVE Course'
  <2>1. CASE findOneByName(r)
    BY <2>1 DEF findOneByName
  <2>2. CASE tenantFound(r) \/ tenantNotFound(r) \/ hashed(r)
    BY <2>2 DEF tenantFound, tenantNotFound, hashed
  <2>3. CASE createTenant(r)
    BY <2>3 DEF createTenant
  <2>4. CASE createSchema(r)
    BY <2>4 DEF createSchema
  <2>5. CASE authenticate(r) \/ authenticated(r)
    BY <2>5 DEF authenticate, authenticated
  <2>6. CASE addModels(r)
    BY <2>6 DEF addModels
  <2>7. CASE createTable(r)
    BY <2>7 DEF createTable
  <2>8. CASE synced(r)
    BY <2>8 DEF synced
  <2>9. CASE checkTenantExists(r) \/ verifyTenant(r) \/ verifyPassword(r)
    BY <2>9 DEF checkTenantExists, verifyTenant, verifyPassword
  <2> QED
    BY <1>3, <2>1, <2>2, <2>3, <2>4, <2>5, <2>6, <2>7, <2>8, <2>9 DEF Step
<1>4. ASSUME NEW r \in Requests, dbError(r) \/ callLost(r) PROVE Course'
  BY <1>4 DEF dbError, callLost
<1>5. CASE tenantCrash \/ authCrash
  BY <1>5 DEF tenantCrash, authCrash
<1>6. CASE UNCHANGED vars
  BY <1>6 DEF vars
<1> QED
  BY <1>1, <1>2, <1>3, <1>4, <1>5, <1>6, NextCases

\* No schema without its tenant, no table without its schema.
LEMMA SchemaStep == ASSUME Shape, SchemaHasTenant, [Next]_vars PROVE SchemaHasTenant'
<1> USE DEF Shape, TypeOK, Course, SchemaHasTenant, Inserted, Answered, Asked, database, Answer, Goto, Await, Reply, End
<1>1. ASSUME NEW r \in Requests, tenantLogin(r) \/ initTenant(r) PROVE SchemaHasTenant'
  BY <1>1 DEF tenantLogin, initTenant, Begin
<1>2. ASSUME NEW r \in Requests, Step(r) PROVE SchemaHasTenant'
  <2>1. CASE createSchema(r)
    <3>1. r \in tenants
      BY <2>1 DEF createSchema
    <3> QED
      BY <2>1, <3>1 DEF createSchema
  <2>2. CASE createTable(r)
    BY <2>2 DEF createTable
  <2>3. CASE createTenant(r)
    BY <2>3 DEF createTenant
  <2>4. CASE UNCHANGED database
    BY <2>4
  <2> QED
    BY <1>2, <2>1, <2>2, <2>3, <2>4
    DEF Step, findOneByName, tenantFound, tenantNotFound, hashed, authenticate, authenticated,
        addModels, synced, checkTenantExists, verifyTenant, verifyPassword
<1>3. CASE UNCHANGED database
  BY <1>3
<1> QED
  BY <1>1, <1>2, <1>3, NextCases DEF dbError, callLost, tenantCrash, authCrash, vars

\* Keys hold the name and the password of their login.
LEMMA KeysStep == ASSUME Shape, Keys, [Next]_vars PROVE Keys'
<1> USE DEF Shape, TypeOK, Course, Keys, KeyMatchesLogin, Inserted, Answered, Asked, database, input, Answer, Goto, Await,
            Reply, End, InTenant, InAuth, InProgress, Ended, AtRest
<1>1. ASSUME NEW r \in Requests, tenantLogin(r) PROVE Keys'
  BY <1>1 DEF tenantLogin, Begin
<1>2. ASSUME NEW r \in Requests, initTenant(r) PROVE Keys'
  BY <1>2 DEF initTenant, Begin
<1>3. ASSUME NEW r \in Requests, Step(r) PROVE Keys'
  <2>1. CASE findOneByName(r)
    BY <2>1, TableAssumption DEF findOneByName
  <2>2. CASE tenantFound(r) \/ synced(r)
    BY <2>2 DEF tenantFound, synced
  <2>3. CASE tenantNotFound(r) \/ hashed(r) \/ authenticate(r) \/ authenticated(r)
    BY <2>3 DEF tenantNotFound, hashed, authenticate, authenticated
  <2>4. CASE createTenant(r) \/ createSchema(r)
    BY <2>4 DEF createTenant, createSchema
  <2>5. CASE addModels(r) \/ createTable(r)
    BY <2>5 DEF addModels, createTable
  <2>6. CASE checkTenantExists(r) \/ verifyTenant(r) \/ verifyPassword(r)
    BY <2>6 DEF checkTenantExists, verifyTenant, verifyPassword
  <2> QED
    BY <1>3, <2>1, <2>2, <2>3, <2>4, <2>5, <2>6 DEF Step
<1>4. ASSUME NEW r \in Requests, dbError(r) \/ callLost(r) PROVE Keys'
  BY <1>4 DEF dbError, callLost
<1>5. CASE tenantCrash \/ authCrash
  BY <1>5 DEF tenantCrash, authCrash
<1>6. CASE UNCHANGED vars
  BY <1>6 DEF vars
<1> QED
  BY <1>1, <1>2, <1>3, <1>4, <1>5, <1>6, NextCases

\* A sync that binds the classes disturbs every other that runs.
LEMMA FillsStep == ASSUME Shape, Keys, Fills, [Next]_vars PROVE Fills'
<1> USE DEF Shape, TypeOK, Course, Fills, Inserted, Answered, Asked, database, input, Answer, Goto, Await,
            Reply, End, InTenant, InAuth, InProgress, Ended, AtRest
<1>1. ASSUME NEW r \in Requests, tenantLogin(r) PROVE Fills'
  BY <1>1 DEF tenantLogin, Begin
<1>2. ASSUME NEW r \in Requests, initTenant(r) PROVE Fills'
  BY <1>2 DEF initTenant, Begin
<1>3. ASSUME NEW r \in Requests, Step(r) PROVE Fills'
  <2>1. CASE findOneByName(r)
    BY <2>1 DEF findOneByName
  <2>2. CASE tenantFound(r)
    <3>1. Answered(r, "findTenant") /\ key[r] # r
      BY <2>2 DEF tenantFound, Keys
    <3> QED
      BY <2>2, <3>1 DEF tenantFound
  <2>3. CASE tenantNotFound(r) \/ hashed(r) \/ authenticate(r) \/ authenticated(r)
    BY <2>3 DEF tenantNotFound, hashed, authenticate, authenticated
  <2>4. CASE createTenant(r) \/ createSchema(r)
    BY <2>4 DEF createTenant, createSchema
  <2>5. CASE addModels(r)
    BY <2>5 DEF addModels
  <2>6. CASE createTable(r)
    <3>1. PICK t \in todo[r] :
            IF References[t] \subseteq tables[bound]
            THEN /\ tables' = [tables EXCEPT ![bound] = @ \cup {t}]
                 /\ todo' = [todo EXCEPT ![r] = @ \ {t}]
                 /\ UNCHANGED <<pc, sent, orphans>>
            ELSE Reply(r, "failed") /\ UNCHANGED <<tables, todo>>
      BY <2>6 DEF createTable
    <3>2. pc[r] = "sync" /\ bound \in Requests /\ UNCHANGED <<bound, key, disturbed>>
      BY <2>6, BoundWhileSync DEF createTable
    <3>3. CASE References[t] \subseteq tables[bound]
      <4>1. /\ tables' = [tables EXCEPT ![bound] = @ \cup {t}]
            /\ todo' = [todo EXCEPT ![r] = @ \ {t}]
            /\ UNCHANGED <<pc, key, bound, disturbed>>
        BY <3>1, <3>2, <3>3
      <4>2. ASSUME NEW q \in Requests \ disturbed, pc[q] = "sync"
            PROVE  bound = q /\ Tables \ todo'[q] \subseteq tables'[q]
        <5>1. bound = q /\ Tables \ todo[q] \subseteq tables[q]
          BY <4>2
        <5>2. tables'[q] = tables[q] \cup {t}
          BY <4>1, <5>1
        <5>3. todo[q] \subseteq todo'[q] \cup {t}
          BY <4>1
        <5> QED
          BY <5>1, <5>2, <5>3
      <4>3. ASSUME NEW q \in Requests \ disturbed, pc[q] = "authorized", key[q] = q
            PROVE  tables'[q] = Tables
        <5>1. tables[q] = Tables
          BY <4>3
        <5> QED
          BY <3>1, <4>1, <5>1
      <4> QED
        BY <4>1, <4>2, <4>3
    <3>4. CASE ~ (References[t] \subseteq tables[bound])
      BY <3>1, <3>2, <3>4
    <3> QED
      BY <3>3, <3>4
  <2>7. CASE synced(r)
    BY <2>7 DEF synced
  <2>8. CASE checkTenantExists(r) \/ verifyTenant(r) \/ verifyPassword(r)
    BY <2>8 DEF checkTenantExists, verifyTenant, verifyPassword
  <2> QED
    BY <1>3, <2>1, <2>2, <2>3, <2>4, <2>5, <2>6, <2>7, <2>8 DEF Step
<1>4. ASSUME NEW r \in Requests, dbError(r) \/ callLost(r) PROVE Fills'
  BY <1>4 DEF dbError, callLost
<1>5. CASE tenantCrash \/ authCrash
  BY <1>5 DEF tenantCrash, authCrash
<1>6. CASE UNCHANGED vars
  BY <1>6 DEF vars
<1> QED
  BY <1>1, <1>2, <1>3, <1>4, <1>5, <1>6, NextCases

\* Of two logins of one name, one that begins after the other has ended finds
\* its tenant, and creates none.
LEMMA EarlierStep == ASSUME Shape, Keys, Earlier, [Next]_vars PROVE Earlier'
<1> USE DEF Shape, TypeOK, Course, Earlier, FoundNone, Inserted, Answered, Asked, database, input,
            Answer, Goto, Await, Reply, End, InTenant, InAuth, InProgress, Ended, AtRest
<1>1. ASSUME NEW r \in Requests, tenantLogin(r) PROVE Earlier'
  BY <1>1 DEF tenantLogin, Begin
<1>2. ASSUME NEW r \in Requests, initTenant(r) PROVE Earlier'
  BY <1>2 DEF initTenant, Begin
<1>3. ASSUME NEW r \in Requests, Step(r) PROVE Earlier'
  <2>1. CASE findOneByName(r)
    BY <2>1, TableAssumption DEF findOneByName
  <2>2. CASE tenantFound(r) \/ synced(r)
    BY <2>2 DEF tenantFound, synced
  <2>3. CASE tenantNotFound(r) \/ hashed(r) \/ authenticate(r) \/ authenticated(r)
    BY <2>3 DEF tenantNotFound, hashed, authenticate, authenticated
  <2>4. CASE createTenant(r)
    BY <2>4 DEF createTenant
  <2>5. CASE createSchema(r)
    BY <2>5 DEF createSchema
  <2>6. CASE addModels(r) \/ createTable(r)
    BY <2>6 DEF addModels, createTable
  <2>7. CASE checkTenantExists(r) \/ verifyTenant(r) \/ verifyPassword(r)
    BY <2>7 DEF checkTenantExists, verifyTenant, verifyPassword
  <2> QED
    BY <1>3, <2>1, <2>2, <2>3, <2>4, <2>5, <2>6, <2>7 DEF Step
<1>4. ASSUME NEW r \in Requests, dbError(r) \/ callLost(r) PROVE Earlier'
  BY <1>4 DEF dbError, callLost
<1>5. CASE tenantCrash \/ authCrash
  BY <1>5 DEF tenantCrash, authCrash
<1>6. CASE UNCHANGED vars
  BY <1>6 DEF vars
<1> QED
  BY <1>1, <1>2, <1>3, <1>4, <1>5, <1>6, NextCases

\* The invariant is kept by every step.
LEMMA IInvStep == IInv /\ [Next]_vars => IInv'
BY TypeStep, CourseStep, SchemaStep, KeysStep, FillsStep, EarlierStep DEF IInv, Shape

(***************************************************************************)
(* The theorems.                                                           *)
(***************************************************************************)
\* The parts above hold together in every reachable state.
THEOREM Invariance == Spec => []IInv
BY IInvInit, IInvStep, PTL DEF Spec

\* Every variable of the provisioning holds a value of its kind.
THEOREM TypeCorrect == Spec => []TypeOK
<1>1. IInv => TypeOK
  BY DEF IInv, Shape
<1> QED
  BY <1>1, Invariance, PTL

\* However a creation breaks off, a schema has its tenant and a table its schema.
THEOREM SchemasOwned == Spec => []SchemaHasTenant
<1>1. IInv => SchemaHasTenant
  BY DEF IInv
<1> QED
  BY <1>1, Invariance, PTL

\* A login is handed the key of a tenant with its own name and password.
THEOREM KeysMatchLogins == Spec => []KeyMatchesLogin
<1>1. IInv => KeyMatchesLogin
  BY DEF IInv, Keys
<1> QED
  BY <1>1, Invariance, PTL

\* A tenant whose login bound the classes undisturbed has every table.
THEOREM UndisturbedComplete == Spec => []UndisturbedMeansComplete
<1>1. IInv => UndisturbedMeansComplete
  BY DEF IInv, Fills, UndisturbedMeansComplete
<1> QED
  BY <1>1, Invariance, PTL

\* Logins one after the other make no two tenants of one name, where a login is over only
\* when the tenant service has done with it, also if the auth service died meanwhile.
THEOREM NamesakesOverlap == Spec => []OnlyOverlappingNamesakes
<1>1. IInv => OnlyOverlappingNamesakes
  BY DEF IInv, Earlier, Shape, TypeOK, OnlyOverlappingNamesakes
<1> QED
  BY <1>1, Invariance, PTL
=============================================================================
