------------------------------- MODULE Tenants -------------------------------
(***************************************************************************)
(* How a tenant comes to be: POST /tenantLogin of the auth service, the    *)
(* RPC load_tenant, TenantService.loadTenant with the schema and tables it *)
(* creates, and POST /initTenant with the RPC verify_tenant.               *)
(*                                                                         *)
(* A tenant's id is a uuid made for the row a login inserts, so the login  *)
(* r stands for the id of the tenant it creates and for the schema         *)
(* tenant_<id>.  The entity classes (User, Article, ...) are shared by all *)
(* logins: addModels binds them to the schema of the tenant being created, *)
(* and sync creates each table where its class is bound at that moment.    *)
(*                                                                         *)
(* The auth service waits for the tenant service over Redis.  Each may die *)
(* alone; a call whose caller has died goes on in the tenant service.      *)
(***************************************************************************)
EXTENDS Naturals, FiniteSets

CONSTANTS
  Requests,    \* calls of /tenantLogin and /initTenant
  Names,       \* tenant names
  Passwords,
  Tables,      \* the tables of a tenant
  References,  \* the tables the foreign keys of a table refer to
  Happens,     \* what may befall, from {"authCrash", "tenantCrash", "dbError", "lost"}
  None

ASSUME TableAssumption ==
  /\ References \in [Tables -> SUBSET Tables]
  /\ None \notin Requests

VARIABLES
  tenants,     \* ids in the table Tenant; the columns of id r are name[r], password[r]
  schemas,     \* ids whose schema exists
  tables,      \* tables[s]: the tables in the schema of s
  bound,       \* the schema the shared entity classes are bound to
  pc,          \* the await a request has reached
  sent,        \* requests whose statement is not executed yet
  orphans,     \* calls in the tenant service whose caller has died
  name, password,  \* what the login was called with
  key,         \* the id a request has found, made, or was called with
  todo,        \* the classes sync has not come to yet
  before,      \* history: requests nothing worked on any more when this one began
  disturbed    \* history: logins that ran sync while another bound the classes

database == <<tenants, schemas, tables>>
input == <<name, password>>
vars == <<database, bound, pc, sent, orphans, input, key, todo, before, disturbed>>

InTenant == {"findTenant", "hash", "createTenant", "authenticate", "createSchema", "sync", "findById"}
InAuth == {"checkSchema", "verify"}
InProgress == InTenant \cup InAuth
Ended == {"authorized", "unauthorized", "failed", "lost"}
AtRest == Ended \cup {"unanswered"}

Init ==
  /\ tenants = {} /\ schemas = {}
  /\ tables = [s \in Requests |-> {}]
  /\ bound = None
  /\ pc = [r \in Requests |-> "idle"]
  /\ sent = {} /\ orphans = {}
  /\ name = [r \in Requests |-> None]
  /\ password = [r \in Requests |-> None]
  /\ key = [r \in Requests |-> None]
  /\ todo = [r \in Requests |-> {}]
  /\ before = [r \in Requests |-> {}]
  /\ disturbed = {}

Answered(r, step) == pc[r] = step /\ r \notin sent
Asked(r, step) == pc[r] = step /\ r \in sent
Goto(r, step) == pc' = [pc EXCEPT ![r] = step]
Await(r, step) == Goto(r, step) /\ sent' = sent \cup {r} /\ UNCHANGED orphans
End(r, how) == Goto(r, how) /\ sent' = sent \ {r} /\ UNCHANGED orphans
Answer(r) == sent' = sent \ {r} /\ UNCHANGED <<pc, orphans, input, before>>

\* The tenant service replies: nobody waits for the reply to an orphan.
Reply(r, step) ==
  /\ Goto(r, IF r \in orphans THEN "lost" ELSE step)
  /\ sent' = sent \ {r} /\ orphans' = orphans \ {r}

Begin(r, step) ==
  /\ pc[r] = "idle"
  /\ Await(r, step)
  /\ before' = [before EXCEPT ![r] = {q \in Requests : pc[q] \in AtRest}]
  /\ UNCHANGED <<database, bound, todo, disturbed>>

(***************************************************************************)
(* Mutants: what plausible mistakes would make of the actions below.  No   *)
(* specification uses them; each shows that a property notices.            *)
(***************************************************************************)
\* The login is compared with the rows by name and password.
findOneByNameAndPassword(r) ==
  /\ Asked(r, "findTenant")
  /\ LET matches == {t \in tenants : name[t] = name[r] /\ password[t] = password[r]} IN
       \E t \in IF matches = {} THEN {None} ELSE matches : key' = [key EXCEPT ![r] = t]
  /\ Answer(r)
  /\ UNCHANGED <<database, bound, todo, disturbed>>

\* The key of a tenant that exists is handed out unverified.
tenantFoundUnverified(r) ==
  /\ Answered(r, "findTenant")
  /\ key[r] # None
  /\ Reply(r, "authorized")
  /\ UNCHANGED <<database, bound, input, key, todo, before, disturbed>>

\* The schema is created before the row.
hashedSchemaFirst(r) ==
  /\ Asked(r, "hash")
  /\ Await(r, "authenticate")
  /\ key' = [key EXCEPT ![r] = r]
  /\ UNCHANGED <<database, bound, input, todo, before, disturbed>>

\* The tenant's name is its id.
createTenantByName(r) ==
  /\ Asked(r, "createTenant")
  /\ tenants' = tenants \cup {name[r]}
  /\ key' = [key EXCEPT ![r] = r]
  /\ Answer(r)
  /\ UNCHANGED <<schemas, tables, bound, todo, disturbed>>

\* loadTenant does not wait for sync.
syncedUnawaited(r) ==
  /\ pc[r] = "sync"
  /\ Reply(r, "verify")
  /\ UNCHANGED <<database, bound, input, key, todo, before, disturbed>>

(***************************************************************************)
(* POST /tenantLogin.                                                      *)
(***************************************************************************)
tenantLogin(r) ==
  /\ Begin(r, "findTenant")
  /\ \E n \in Names : name' = [name EXCEPT ![r] = n]
  /\ \E p \in Passwords : password' = [password EXCEPT ![r] = p]
  /\ UNCHANGED key

\* findOne: any one of the rows with the name.
findOneByName(r) ==
  /\ Asked(r, "findTenant")
  /\ LET matches == {t \in tenants : name[t] = name[r]} IN
       \E t \in IF matches = {} THEN {None} ELSE matches : key' = [key EXCEPT ![r] = t]
  /\ Answer(r)
  /\ UNCHANGED <<database, bound, todo, disturbed>>

tenantFound(r) ==
  /\ Answered(r, "findTenant")
  /\ key[r] # None
  /\ Reply(r, "verify")
  /\ UNCHANGED <<database, bound, input, key, todo, before, disturbed>>

\* The NotFoundException of isEntityExists leads into the creation.
tenantNotFound(r) ==
  /\ Answered(r, "findTenant")
  /\ key[r] = None
  /\ Await(r, "hash")
  /\ UNCHANGED <<database, bound, input, key, todo, before, disturbed>>

hashed(r) ==
  /\ Asked(r, "hash")
  /\ Await(r, "createTenant")
  /\ UNCHANGED <<database, bound, input, key, todo, before, disturbed>>

\* INSERT INTO "Tenant": the migration gives the table no constraint on name.
createTenant(r) ==
  /\ Asked(r, "createTenant")
  /\ tenants' = tenants \cup {r}
  /\ key' = [key EXCEPT ![r] = r]
  /\ Answer(r)
  /\ UNCHANGED <<schemas, tables, bound, todo, disturbed>>

authenticate(r) ==
  /\ Answered(r, "createTenant")
  /\ Await(r, "authenticate")
  /\ UNCHANGED <<database, bound, input, key, todo, before, disturbed>>

authenticated(r) ==
  /\ Asked(r, "authenticate")
  /\ Await(r, "createSchema")
  /\ UNCHANGED <<database, bound, input, key, todo, before, disturbed>>

createSchema(r) ==
  /\ Asked(r, "createSchema")
  /\ schemas' = schemas \cup {r}
  /\ Answer(r)
  /\ UNCHANGED <<tenants, tables, bound, key, todo, disturbed>>

\* new Sequelize, addModels, and sync up to its first statement.
addModels(r) ==
  /\ Answered(r, "createSchema")
  /\ bound' = r
  /\ todo' = [todo EXCEPT ![r] = Tables]
  /\ Await(r, "sync")
  /\ disturbed' = disturbed \cup {q \in Requests : pc[q] = "sync"}
  /\ UNCHANGED <<database, input, key, before>>

\* CREATE TABLE IF NOT EXISTS of one class, referenced tables first.  It names
\* the schema the class is bound to, and so do its foreign keys.
createTable(r) ==
  /\ pc[r] = "sync"
  /\ \E t \in todo[r] :
       /\ References[t] \cap todo[r] = {}
       /\ IF References[t] \subseteq tables[bound]
          THEN /\ tables' = [tables EXCEPT ![bound] = @ \cup {t}]
               /\ todo' = [todo EXCEPT ![r] = @ \ {t}]
               /\ UNCHANGED <<pc, sent, orphans>>
          ELSE Reply(r, "failed") /\ UNCHANGED <<tables, todo>>
  /\ UNCHANGED <<tenants, schemas, bound, input, key, before, disturbed>>

synced(r) ==
  /\ pc[r] = "sync"
  /\ todo[r] = {}
  /\ Reply(r, "verify")
  /\ UNCHANGED <<database, bound, input, key, todo, before, disturbed>>

\* authorizeTenant: argon2 accepts the password that was hashed, and no other.
verifyPassword(r) ==
  /\ pc[r] = "verify"
  /\ End(r, IF password[key[r]] = password[r] THEN "authorized" ELSE "unauthorized")
  /\ UNCHANGED <<database, bound, input, key, todo, before, disturbed>>

(***************************************************************************)
(* POST /initTenant with the id of a tenant as x-api-key.                  *)
(***************************************************************************)
initTenant(r) ==
  /\ Begin(r, "checkSchema")
  /\ \E k \in Requests \ {r} : key' = [key EXCEPT ![r] = k]
  /\ UNCHANGED input

\* TenantMiddleware: TenantStateService.checkTenantExists.
checkTenantExists(r) ==
  /\ Asked(r, "checkSchema")
  /\ IF key[r] \in schemas THEN Await(r, "findById") ELSE End(r, "failed")
  /\ UNCHANGED <<database, bound, input, key, todo, before, disturbed>>

verifyTenant(r) ==
  /\ Asked(r, "findById")
  /\ Reply(r, IF key[r] \in tenants THEN "authorized" ELSE "failed")
  /\ UNCHANGED <<database, bound, input, key, todo, before, disturbed>>

(***************************************************************************)
(* Failures.  loadTenant undoes nothing: what the login made stays.        *)
(***************************************************************************)
dbError(r) ==
  /\ "dbError" \in Happens
  /\ pc[r] \in InProgress
  /\ Reply(r, "failed")
  /\ UNCHANGED <<database, bound, input, key, todo, before, disturbed>>

\* Redis pub/sub keeps no call nobody listens to, and nobody stops waiting for it.
callLost(r) ==
  /\ "lost" \in Happens
  /\ Asked(r, "findTenant") \/ Asked(r, "findById")
  /\ Reply(r, "unanswered")
  /\ UNCHANGED <<database, bound, input, key, todo, before, disturbed>>

\* What the tenant service was doing stays half-done; its callers wait on.
tenantCrash ==
  /\ "tenantCrash" \in Happens
  /\ \E r \in Requests : pc[r] \in InTenant
  /\ pc' = [r \in Requests |-> IF pc[r] \in InTenant
                               THEN IF r \in orphans THEN "lost" ELSE "unanswered"
                               ELSE pc[r]]
  /\ sent' = {r \in sent : pc[r] \notin InTenant}
  /\ orphans' = {}
  /\ bound' = None
  /\ UNCHANGED <<database, input, key, todo, before, disturbed>>

\* The tenant service goes on with the calls the auth service has made.
authCrash ==
  /\ "authCrash" \in Happens
  /\ \E r \in Requests \ orphans : pc[r] \in InProgress \cup {"unanswered"}
  /\ pc' = [r \in Requests |-> IF pc[r] \in InAuth \cup {"unanswered"} THEN "lost" ELSE pc[r]]
  /\ sent' = {r \in sent : pc[r] \notin InAuth}
  /\ orphans' = {r \in Requests : pc[r] \in InTenant}
  /\ UNCHANGED <<database, bound, input, key, todo, before, disturbed>>

Step(r) ==
  \/ findOneByName(r) \/ tenantFound(r) \/ tenantNotFound(r) \/ hashed(r)
  \/ createTenant(r) \/ authenticate(r) \/ authenticated(r) \/ createSchema(r)
  \/ addModels(r) \/ createTable(r) \/ synced(r) \/ verifyPassword(r)
  \/ checkTenantExists(r) \/ verifyTenant(r)

Next ==
  \/ \E r \in Requests : tenantLogin(r) \/ initTenant(r) \/ Step(r) \/ dbError(r) \/ callLost(r)
  \/ tenantCrash \/ authCrash

Spec == Init /\ [][Next]_vars

(***************************************************************************)
(* Properties.                                                             *)
(***************************************************************************)
\* Every variable holds a value of its kind.
TypeOK ==
  /\ tenants \subseteq Requests
  /\ schemas \subseteq Requests
  /\ tables \in [Requests -> SUBSET Tables]
  /\ bound \in Requests \cup {None}
  /\ pc \in [Requests -> {"idle"} \cup InProgress \cup AtRest]
  /\ sent \subseteq Requests /\ orphans \subseteq Requests
  /\ name \in [Requests -> Names \cup {None}]
  /\ password \in [Requests -> Passwords \cup {None}]
  /\ key \in [Requests -> Requests \cup {None}]
  /\ todo \in [Requests -> SUBSET Tables]
  /\ before \in [Requests -> SUBSET Requests]
  /\ disturbed \subseteq Requests

\* Wherever a creation breaks off, a schema belongs to a tenant and a table to a
\* schema: initTenant, which looks for the schema first (tenant-state.service.ts
\* 31-53), never misses the row it looks for next (tenant.service.ts 60-69).
SchemaHasTenant ==
  /\ schemas \subseteq tenants
  /\ \A s \in Requests : tables[s] # {} => s \in schemas

\* A login that creates its tenant while no other login binds the entity
\* classes hands out the key of a tenant that has every table.
UndisturbedMeansComplete ==
  \A r \in Requests :
    pc[r] = "authorized" /\ key[r] = r /\ r \notin disturbed => tables[r] = Tables

\* Two tenants of one name come only from logins that overlapped, where a login
\* lasts as long as the tenant service works on it: load_tenant goes on, and may
\* insert its row, after the auth service that called it has died (86-100).
OnlyOverlappingNamesakes ==
  \A q, r \in tenants : q # r /\ name[q] = name[r] => q \notin before[r]

\* A key is handed out for a login with the name and password the tenant was
\* created with, whichever login created it.
KeyMatchesLogin ==
  \A r \in Requests : pc[r] = "authorized" /\ name[r] # None =>
    /\ key[r] \in tenants
    /\ name[key[r]] = name[r] /\ password[key[r]] = password[r]

(***************************************************************************)
(* What the source says and the code does not keep.                        *)
(***************************************************************************)
\* tenant.controller.ts 20: "it creates a new tenant and its corresponding
\* schema": when the login that creates a tenant is given the key, the schema has
\* its tables.
KeyOpensSchema ==
  \A r \in Requests : pc[r] = "authorized" /\ key[r] = r => tables[r] = Tables
=============================================================================
