# Verification of the multi-tenant blog backend

TLA+ modules, TLC configurations and TLAPS proofs for the NestJS services under
`src/apps` and the library they share under `src/libs/common`.

Contents: 1 the system; 2 what is hard in it; 3 the modules; 4 what the runs
check; 5 bounds; 6 fairness; 7 what is proved; 8 where the code does not keep
what the source says; 9 what is not modelled; 10 what is left.

## 1. The system

Six Node processes, one PostgreSQL database and one Redis.

| Part | State | Operations | Talks to |
|---|---|---|---|
| gateway (`src/apps/gateway`) | none | proxies `/auth`, `/blog`, `/graphql`, ...; health check | the other services over HTTP |
| auth (`src/apps/auth`) | black-list entries in Redis; the JWTs it has signed | `signup`, `login`, `refresh-access`, `logout`, `me`, `tenantLogin`, `initTenant` | users and tenant services by RPC over Redis pub/sub |
| users (`src/apps/users`) | tables `User` and `Credentials` of each tenant | `create_user`, `get_user_by_email`, `get_user_by_credentials`, `get_user_by_id` | PostgreSQL |
| tenant (`src/apps/tenant`) | table `public.Tenant`, the schemas and their tables; the Sequelize entity classes of its process | `load_tenant`, `verify_tenant` | PostgreSQL |
| blog: articles (`src/apps/blog/src/article`) | tables `Article`, `ArticleImage`; a list cache in Redis | create, list, read, publish, update, remove | users service by RPC, PostgreSQL, Redis |
| blog: comments (`src/apps/blog/src/comment`) | tables `Comment`, `Rating`; the field `tenantId` of the one `CommentService`; open subscriptions | `createComment`, `getComments`, `rateComment`, `commentCreated`, `commentRated` | PostgreSQL, in-process PubSub |
| file manager (`src/apps/file-manager`) | files on disk | upload | file system |
| migrations, seeder (`src/libs/common/src/database`) | the table `Tenant`, the schema of the default tenant, the journal `SequelizeMeta` | `db:migrate`, `db:seed:all` and their undos, by hand with sequelize-cli | PostgreSQL |
| common (`src/libs/common`) | `TenantStateService` of a request | guards, middleware, `BaseService`, `JwtService` | all of the above |

A request carries `x-api-key`, the id of its tenant. The HTTP side puts the
schema name into a request-scoped `TenantStateService`; the comment side keeps
it in a field of a singleton. A service asks another with `BaseService.getData`,
which waits for one reply on Redis pub/sub without a timeout. Articles and
comments meet in the database: removing an article deletes its comments and
their ratings in cascade.

What makes each part correct:

* comments: a score is backed by stored votes and each vote counts once; a user
  votes once per comment; rows stay in their tenant; answers and events agree
  with the tables; every saved vote is counted;
* articles: only authors write, except where a write overtakes a check; what is
  removed or published stays so unless a body says otherwise; an answered
  create is whole; lists and their cache show what they should;
* sessions: one account per email, accounts with credentials, tokens only for
  complete accounts, sessions that end;
* tenants: one tenant per name, a tenant's key opens a complete schema and is
  given only for its password;
* the answer to a list: every comment once, under its parent, newest first, with
  a vote offered exactly where the user has none;
* migrations: what a run cut off leaves can be repaired, and a success means a
  schema that serves.

## 2. What is hard

Nothing in these services runs in a transaction that spans two statements, and
no handler undoes what it did before a failure. So the interesting behaviour is
what other requests, failures and restarts do between two awaits:

* checks that a later statement acts upon (`rateComment`, `loadTenant`,
  `isEmailUnique`, `validateOwnershipOfArticle`);
* state shared between requests: `CommentService.tenantId`, the entity classes
  that `addModels` re-binds, the list cache;
* pairs of writes that may be cut in two (rating and score, user and
  credentials, article and image, tenant row, schema and tables);
* answers and events computed from statements executed at different moments;
* RPC without timeout, callers that die while the call is served;
* migrations that are no transactions, killed before their journal entry, or run
  twice at once;
* replies that come before their parent, beside one of the same age, or without it.

`PROJECT.json` lists each hazard with its line and the properties that guard it.

## 3. The modules

| Module | Models | Its state and actions in the code |
|---|---|---|
| `Comments` | `CommentResolver`, `CommentService`, `TenantGqlInterceptor`, `AuthGqlGuard` | one action per executed statement (`exec...`, `checkTenantExists`) and one per turn of a handler (`buildRating`, `adjustScore`, `listComments`, ...) |
| `VoteLedger` | what voting promises, apart from the code: ballots are opened, cast, counted once and closed | abstract; `Comments!VotingKeepsLedger` maps ratings to standing ballots, `adjusted` to counted ones, scores to the tally |
| `Nesting` | which comments of a list `nestComments` shows, as a definition over sets | used by `Comments`, and shown by `Threads` to be what the loops compute |
| `Threads` | one `getCommentsByArticleId`: the query, the two loops of `nestComments`, `annotateCommentsWithCanVote`, `CommentDto` | one action per round of a loop; `commentMap`, `children`, `rootComments` as in the code; `answer` has the objects of the client's trees, a child by its id |
| `Articles` | `ArticleController`, `ArticleService`, `TenantMiddleware`, `AuthGuard`, the cached list | one action per awaited statement or call |
| `Sessions` | `AuthService`, `UsersService`, the RPC between them, both tokens and the black list | one action per awaited statement, hash or call; `Tick` for time |
| `AccountStore` | what the two services promise together about emails, complete accounts and sessions | abstract; `Sessions!ServicesKeepStore` maps the tables and the tokens to it |
| `Tenants` | `AuthController.authorizeTenant` and `initTenant`, `TenantService`, `TenantStateService` | one action per executed statement and per turn of `loadTenant` |
| `Migrations` | the five migrations and the seeder, run by sequelize-cli | a migration is a sequence of statements, each with what it needs, forbids, adds and drops; one action per statement, journal look-up and entry |
| `MCComments`, `MCArticles`, `MCSessions`, `MCTenants` | the instances TLC checks | constants, the calls clients make, symmetry |
| `CommentsProofs`, `OneTenantProofs`, `LedgerProofs` | theorems about `Comments`: with any tenants; with one; that it implements `VoteLedger` | the second and third rest on the invariant of the first |
| `ThreadsProofs`, `ArticlesProofs`, `SessionsProofs`, `TenantsProofs`, `MigrationsProofs` | theorems about the module of that name; `ThreadsProofs` has those about `Nesting`, `SessionsProofs` the refinement of `AccountStore` | one lemma per action or per part of the invariant |

`Comments` and `Threads` meet in `Nesting`: the first interleaves a list with
everything that changes the tables between its two queries and takes the nesting
in one step, since the loops run in one turn of Node; the second takes the loops
apart for every list there can be.

Conventions common to the services' modules:

* **Ids.** Uuids never repeat, so the request `r` doubles as the id of the row
  that `r` inserts, and tables are sets of ids; columns that never change are
  read from what the request asked for (`call[r]`). `Articles` is the exception: a
  body may bring an id of its own and move an article to another author, so an
  article is a row `<<tenant, id>>` and `author` a variable.
* **Turns.** Node runs a turn without interruption. In `Comments` and `Tenants`,
  where requests share state in memory, a statement is built in one turn
  (`Await`, which records the schema it is built with), executed later by
  PostgreSQL, and its answer handled in a later turn: others run in both gaps.
  In `Articles` and `Sessions` the services are request-scoped and share
  only the database and Redis, so a step is the execution of a statement with
  the turn that follows. Between the assignment of `tenantId` and the first
  statement there are only microtasks of the same turn.
* **Bodies.** `ValidationPipe` (`src/apps/blog/src/main.ts:34`) has no whitelist, and
  `ArticleService` hands what is left of a body to Sequelize (`article.service.ts:225`,
  `:289-307`). So a create may name `id` and `status`, and an update `status` and
  `author`: `CreateCalls` and `UpdateCalls` have these columns, with "absent", `NoId` and
  `NoUser` where the body has none.
* **What clients send.** `Known` in `Comments` says that a client refers to rows
  it was shown under the same key. Tokens are genuine: signatures are not modelled.
* **Failures.** `dbError` rejects an awaited statement; nothing is undone.
  `crash` loses all requests in a process and its memory. `lost` calls are never
  answered. In `Sessions` and `Tenants` the two services die independently, and the
  called one goes on with calls of a caller that is gone (`orphans`): a `load_tenant`
  may insert its row long after the login that asked for it. In `Migrations`
  a run may be killed at any statement, executed or not.
* **History variables** (`before`, `adjusted`, `events`, `gone`,
  `everPublished`, `remade`, `drafted`, `overtaken`, `strangers`, `disturbed`,
  `loggedOut`, `broken`, `torn`, `overlapped`) are written and never read by guards.
* **Mutants** at the top of a module are definitions with a plausible mistake.
  No specification uses them; for each property `PROJECT.json` names the one
  that breaks it when put in place of the real definition.

Details that are easy to miss:

* `formatTenantId` prefixes ids, and leaves keys that already have the form of a
  schema name, so a client may send either (`TenantNames`, `SchemaNames`).
* Foreign keys are part of `execSaveRating`, `execSaveComment` and
  `attachImageToArticle`: they are what keeps rows in their tenant.
* A schema made by the migration deletes replies with their parent; one made by
  Sequelize sets their parent to null. `removeArticle` allows both.
* The migration leaves out the unique constraint on `Tenant.name` that the
  entity declares; `User.email` is unique in schemas made by `sync`.
* `createBlacklistedToken` computes the time to live from an absolute time:
  with any clock after 1 January 1970, 01:00, it is negative and `logout` stores
  nothing. The model has the computation, with `LogoutExp` for 3600.
* `createTable` with the option `schema` is `CREATE TABLE IF NOT EXISTS` in that
  schema, its references included; `dropTable('Image')` without the option looks
  in `public`, finds nothing, and leaves the table where it is.
* The two recursions over `children`, of `annotateCommentsWithCanVote` and of the
  `CommentDto` constructor, are modelled by what they visit (`Visited`, the least set
  closed under `children`), and an answer by its objects. That the objects make up
  trees, each comment on one level and there once, is part of `ShownOnceInPlace`.
* A list for a user annotates every tree; for an anonymous query `canVote` stays
  undefined, and the field of the GraphQL schema has the default true.
* The list cache lives 60 milliseconds (`ttl` is in milliseconds in the Redis
  store); the models leave it open when an entry expires.

## 4. What the runs check

| Run | Instance | Shows |
|---|---|---|
| `Voting` | 3 requests of two users on one comment, failing statements, removals, 350 thousand states | `ScoreAccountsForVotes`, `FinalScoreAnnounced`, `OnlyOverlappingDoubleVotes`, `EarlierVotesShown`, `AnnouncedVotesCounted`: the score is the balance of the votes but for those a failure left uncounted, the final score gets announced, double votes need overlap, lists know earlier votes, and an announced vote counts; under fairness `VotesGetCounted` and `RequestsEnd` |
| `TwoTenants` | 3 requests of two tenants with every operation, removals, failures and restarts, 1.9 million states | `RowsStayHome` and `ScoreWithinVotes` hold although statements go to the wrong schema, and voting implements `VoteLedger` (`VotingKeepsLedger`) |
| `Threads` | every forest of 4 comments over two articles, ties in `createdAt`, every set of ratings, 230 thousand states | `ShownOnceInPlace`, `NewestFirst`, `VoteOfferedAtEveryDepth`; `OmittedRepliesMisfiled`: a list lacks a reply only if it, or one it answers, was filed under another article than its parent |
| `Provisioning` | 3 logins or key checks, two names and passwords, failing statements, lost calls, either service dying alone, 3.9 million states | what a broken-off creation leaves (`SchemaHasTenant`, `UndisturbedMeansComplete`), who gets a key (`KeyMatchesLogin`), and that tenants share a name only if their logins overlapped, a login lasting as long as the tenant service works on it (`OnlyOverlappingNamesakes`) |
| `Articles` | 3 requests of every kind, also with `id`, `status` and `author` in bodies, failures, lost calls and restarts, 740 thousand states | `NoResurrection` (but by a create that names the id), `PublishedStays` (but for a body that asks for a draft; and an answered publish has published), `OnlyAuthorsWrite` (but where another author came between check and write), `AnsweredCreatesAreWhole`, `PlainListsShowPublished`, and `RemovedLeavesLists` under fairness |
| `Sessions` | 3 requests of every kind beside a complete account, two emails, a clock of 2 ticks, every failure, 470 thousand states | `TokensNeedCredentials`, `OneUserPerEmail`, `SessionsStayOver`; the services implement `AccountStore` (`ServicesKeepStore`); under fairness `AccountsGetCompleted` and `RequestsEnd` |
| `Migrations` | 3 runs of any command, killed or overlapping, articles stored meanwhile, 490 thousand states | `InstalledServes`: a migrate answered with success leaves a schema the services can use, also after undos, unless runs overlapped; `FailuresExplained`, `RerunRepairs`: a migrate fails only when an `ALTER` or `DROP` before it is missing in the journal or runs overlapped, and otherwise repairs what a killed run left; `BothColumnsNeedOverlap` |
| `DoubleVote`, `TenantMix`, `EmptySchema`, `ListTenants`, `Logout` | small | section 8 |

Scores that balance need one tenant (`Voting`, where `Uncounted` names the votes
whose increment failed); with tenants mixed, or a crash between the two
statements, only the bound `ScoreWithinVotes` and the ledger are left.
The same goes for `AnnouncedVotesCounted`: with two tenants the increment may go
to the wrong schema and the answer to the right one.

`CHECK_DEADLOCK FALSE` everywhere: the sets of requests and runs are finite, and
when all have ended the system stops.

**Refinement.** Two runs check that a detailed module implements an abstract one.
`VoteLedger` forgets schemas, statements, events and answers and keeps the order
of ballots: cast only while no earlier closed ballot of the same voter stands,
counted at most once and only while standing, never after closing. The map takes
`before` for the ballots closed when one is opened. `AccountStore` forgets tokens,
passwords, requests and time: an email is given once for good, a session is opened
for one complete account and keeps it, and once over is never live again; the map
computes the owners of a session from the tokens handed out in it. Failures and
restarts map to stuttering or to `Close`.

## 5. Bounds

* Requests: every property of this list that can fail needs two requests that
  interleave, or one interleaved with a failure; some need a third that saw an
  earlier state (a vote, then a double vote, then a list; a sign-up, a login and
  a refresh). Runs have three. In `Sessions` an account is complete from the start,
  so that three suffice for a login and two refreshes.
* Calls: the sets in the MC modules name the calls that share rows. Calls on
  unrelated rows do not touch common state except `tenantId`, the bound classes
  and the cache, for which the instances have a second tenant. `Voting` keeps to
  votes and lists of one comment: what else happens is in `TwoTenants`.
* `MaxTime` bounds the clock of `Sessions`, from 10 to 12; both tokens are valid
  for 1 tick (`AccessTime`, `RefreshTime`), so a session can expire, or be
  refreshed, expire and be tried again within the bound. `Start` is larger than
  `LogoutExp`, as unix time is larger than 3600.
* `Articles` has one id, `d`, which is an article of either tenant at the start, and
  the ids of the requests. `WideBodies` has one body for each column the DTOs do not
  name, the author of another tenant included.
* `Threads` has 4 comments in 2 articles: chains of four, two replies on one level
  with a tie, a reply to a reply whose parent is filed elsewhere.
* `Migrations` has 3 runs: one that is killed, one that overlaps or undoes, and one
  that must cope with what they left. Whether `Article` has rows is a Boolean: the
  statements ask for no more.
* Symmetry in requests (and names, emails, passwords where they are
  interchangeable) is used only in runs without liveness properties. Where there
  is liveness, the constraint `ArriveInOrder` does part of its work: requests are
  interchangeable, and it only orders their arrival, which fairness never forces.

## 6. Fairness

`FairSpec` assumes that each step of a request that stays enabled is taken:
PostgreSQL, Redis and the other service answer, hashing ends, and Node gives
every ready handler a turn. `Articles` also assumes that Redis expires what it
holds, and `Migrations` that a run that is not killed goes on. Clients owe
nothing: no request has to arrive. Failures, crashes and
ticks are never forced. Requests whose RPC is never answered are
excepted in `RequestsEnd`: `getData` has no timeout, so nothing ends them.
`AccountsGetCompleted` names the exception there is: a sign-up whose users service,
or whose statement, fails between the two transactions (`broken`) leaves a user
without credentials who cannot log in and cannot sign up again. The death of the
auth service, or an unanswered call, is none.

## 7. What is proved

Every invariant of the passing runs is a theorem, and so are both refinements
and the action property: for all values of the constants, from the named
assumptions of each module and, where the table says so, a hypothesis.

| Theorem | Property | Hypothesis |
|---|---|---|
| `CommentsProofs!TypeCorrect` | `TypeOK` | |
| `CommentsProofs!TenantsKeptApart` | `RowsStayHome` | |
| `CommentsProofs!ScoreBounded` | `ScoreWithinVotes` | |
| `CommentsProofs!NoSequentialDoubleVote` | `OnlyOverlappingDoubleVotes` | |
| `LedgerProofs!LedgerKept` | `VotingKeepsLedger` | `NoCallIsNoVote` |
| `OneTenantProofs!ScoreAccounted` | `ScoreAccountsForVotes` | `OneTenant` |
| `OneTenantProofs!AnnouncedCounted` | `AnnouncedVotesCounted` | `OneTenant` |
| `OneTenantProofs!FinalAnnounced` | `FinalScoreAnnounced` | `OneTenant` |
| `OneTenantProofs!EarlierVotesSeen` | `EarlierVotesShown` | `OneTenant` |
| `ThreadsProofs!TypeCorrect` | `TypeOK` | |
| `ThreadsProofs!EachShownOnce` | `ShownOnceInPlace` | |
| `ThreadsProofs!OrderKept` | `NewestFirst` | |
| `ThreadsProofs!VoteOffered` | `VoteOfferedAtEveryDepth` | |
| `ThreadsProofs!OmittedMisfiled` | `OmittedRepliesMisfiled` | |
| `ArticlesProofs!TypeCorrect` | `TypeOK` | |
| `ArticlesProofs!AuthorsOnly` | `OnlyAuthorsWrite` | |
| `ArticlesProofs!RemovedStaysAway` | `NoResurrection` | |
| `ArticlesProofs!PublishedForGood` | `PublishedStays` | |
| `ArticlesProofs!CreatesWhole` | `AnsweredCreatesAreWhole` | |
| `ArticlesProofs!NoDraftListed` | `PlainListsShowPublished` | |
| `SessionsProofs!TypeCorrect` | `TypeOK` | |
| `SessionsProofs!EmailsUnique` | `OneUserPerEmail` | |
| `SessionsProofs!TokensOfCompleteAccounts` | `TokensNeedCredentials` | |
| `SessionsProofs!OverForGood` | `SessionsStayOver` | |
| `SessionsProofs!StoreKept` | `ServicesKeepStore` | `RefreshTime > 0` |
| `TenantsProofs!TypeCorrect` | `TypeOK` | |
| `TenantsProofs!SchemasOwned` | `SchemaHasTenant` | |
| `TenantsProofs!KeysMatchLogins` | `KeyMatchesLogin` | |
| `TenantsProofs!UndisturbedComplete` | `UndisturbedMeansComplete` | |
| `TenantsProofs!NamesakesOverlap` | `OnlyOverlappingNamesakes` | |
| `MigrationsProofs!TypeCorrect` | `TypeOK` | |
| `MigrationsProofs!FailuresHaveCauses` | `FailuresExplained` | |
| `MigrationsProofs!BothColumnsOverlapped` | `BothColumnsNeedOverlap` | |
| `MigrationsProofs!SuccessServes` | `InstalledServes` | |

The hypotheses, none of which an `ASSUME` could state without narrowing the runs:

* `OneTenant` (all schemas are equal) is what the four properties are about: with two
  tenants `CommentService.tenantId` changes between two statements, and `TenantMix`
  shows a statement in the wrong schema. The instance of `Voting` satisfies it.
* `RefreshTime > 0`: the configuration may set the life of a refresh token to 0
  (`Joi.number()`), and then a session is over as it opens, which the store has no
  step for. `OverForGood` holds even so.
* `NoCallIsNoVote`: the value that stands for "no call" is not itself a ballot.

In each module the properties are not inductive; `IInv` is the invariant that is. TLC
checked each on the instances of the runs before it was proved.

**Comments.** `IInv` is the conjunction of

* `Shape`: types, each request at an await its call leads to, and the schema a
  statement was built with;
* `Homes`: comments, ratings and what requests refer to are in the schema of
  their tenant. A statement may be built with any schema, and it is the
  foreign keys, with the fact that users, articles and parents known to the
  request are at home in its own tenant, that make an insert elsewhere fail;
* `Scores`: a request that is about to adjust has stored its rating
  (`SavedBeforeAdjusting`), a rating that has adjusted is past adjusting and
  stored as long as its comment is (`AdjustedOnce`), and a score is the
  difference of the adjusting up- and downvotes (`ScoreIsCount`). So a score is a
  difference of the sizes of two sets of stored ratings, which bounds it;
* `Overlap`: requests that had ended when another began are over for good, and a
  request that found no earlier rating shares its vote with none of them. The first
  statement of a request is built in the turn that sets `tenantId`, hence the
  look-up, unlike the later statements, is always in the right schema.

`CommentIds` is finite only where a theorem counts: `RowAssumption` has
`IsFiniteSet(Requests)`.

**The ledger.** `LedgerProofs` needs no invariant but that one: an arriving rating is
`Open`, the executed INSERT is `Cast`, allowed since `Overlap` says that no earlier
closed ballot of the voter stands; the executed increment is `Count`, allowed since
`Scores` says that the rating is stored and has not adjusted; everything else closes
ballots, removes them with their comment, or changes nothing the ledger sees.

**Comments of one tenant.** Only here is the executed increment known to hit the
comment. `OneInv` adds that a rating past the increment has adjusted unless its comment
is gone (`CountedWhenPast`), with which `Scores` becomes the exact balance; that a
comment with ratings has its present score announced, or has a rating that still
fetches, or holds, just this score, or has failed (`ScoreOwedOrAnnounced`, which the
interleaving of two increments and two fetches makes necessary: whoever fetches last
fetches the final score); and that the answer of `findRated` holds what the user rated
before (`RatedFound`).

**Threads.** `IInv` says of every list (of children, and of roots) that it has, once
each and newest first, exactly the comments taken so far that belong on it (`Nested`),
and what the map, the marks and the answer hold at each step. A comment appended was at
a later position of the query's list than all those before it, which is why both the
order and the single occurrence survive. The answer is then a question about closures:
`VisitedIsNested` shows that the walk from the roots along `children` and the definition of
`Nesting` are the same least set, by `NestedClosed`, `NestedLeast` and
`NestedBelowParent`. Nothing depends on replies being younger than their parents.

**Articles.** `IInv` joins `Course` (what a request does fits its call), `Checked` (a
request that may write is the author of its article, unless the article has gone or
the request was overtaken), `Publishing` (a publish that comes to `saveEntity` has
published its article or read it as published, unless it has gone), `Creates` and
`Lists` (plain lists found, stored or on their way hold only published articles), with
`OnlyAuthorsWrite`, `NoResurrection` and `PublishedStays`. Only four actions write the
table `Article` (`RowsWritten`), and `StatusSet` says what they may do to the status.
`Checked` is what makes `OnlyAuthorsWrite` inductive: each action that changes an
author records whom it overtakes, and any other leaves a check as good as it was.

**Sessions.** `Accounted` ties accounts to sign-ups, `Found` follows the account from the
look-up by email or token, over the check of the password, to the signature (an
account is never deleted, so what was complete when found is complete when signed for),
and `Owned` says that a session has one account. `SessionsStayOver` follows since a new
token of a session needs a refresh that is under way, and `Over` excludes those; one
that begins later finds no valid token. For the store, the owners of a session are
those of its tokens, a login that signs opens a session for a usable account, and
sessions end by `Tick`, by a refresh that ends without a token, or by the death of the
service.

**Tenants.** `Course` says which of row, schema and bound class a creation relies on,
`Keys` that a login refers to a tenant of its name from the look-up on, `Fills` that an
undisturbed sync has bound its own schema and filled what it no longer has to do, and
`Earlier` that no tenant an earlier login made has the name a later one did not find.

**Migrations.** `MadeStays` (what a run made, or the journal says, is there but for the
columns and extensions that something drops) holds for all runs. The rest holds while no
runs overlap: one run at a time, a journal without gaps and worked from in order,
`RenamedOnce`, and `Synchronized`: a database that is not torn is what its journal says,
except for the migration about to be entered. A statement that fails contradicts it.

Only model-checked: liveness (`VotesGetCounted`, `RequestsEnd` of two modules,
`RemovedLeavesLists`, `AccountsGetCompleted`, `RerunRepairs`), which needs ENABLED and
fairness and so is out of reach of TLAPS; and the violations of section 8.

## 8. Where the code does not keep what the source says

| Run | What happens |
|---|---|
| `DoubleVote` | two overlapping ratings of one user pass the check and both count |
| `TenantMix` | another tenant's request changes `CommentService.tenantId` between two statements, and the second goes to that tenant's schema |
| `EmptySchema` | a login re-binds the entity classes while another syncs them: the sync goes on in the other tenant's schema, and the login that created its tenant is given a key for a schema that lacks tables |
| `ListTenants` | the list cache is keyed by url alone and serves one tenant's list to another |
| `Logout` | the time to live of the black-list entry is negative, no entry is made, and the token can still be refreshed |

Seen while modelling and simple enough for a unit test, so without a run: two
overlapping first logins create two tenants of one name (`OnlyOverlappingNamesakes`
shows it takes an overlap); a login that finds the row of a tenant whose schema is still
to be created, or whose creation failed, is given its key all the same; no migration
creates the table of `BlacklistedToken`, which only `sync` makes; comment events reach the subscribers of all tenants;
`?mine=false` lists the user's own drafts, because the parameter is a string; an
update with an image url changes nothing for an article without an image and
is answered as done, and one with nothing but an image url always fails, since
Sequelize skips an update without columns and its answer `[0]` cannot be taken apart; an
update with `status` or `author` in its body unpublishes an article or gives it away,
and a create chooses its id and status; a publish of an article read as published
writes nothing; `rateComment` answers with `new CommentDto(comment, false)`,
whose `canVote || comment.canVote` is undefined, so that the voter is offered the
vote again by the default of the field; the downs of `create-default-tenant` and
`refactor-image-models` throw a ReferenceError for `schema`, and that of
`change-article-userId...` names a schema with a letter too many; the undo of the
seeder deletes all tenants; a first login as `default` before the seeder makes a
namesake of the default tenant.

## 9. What is not modelled

* The gateway (a stateless proxy), the file manager (file I/O), DTO validation,
  wording, logging, configuration.
* `getCommentById`, `updateComment`, `removeComment`, `UsersService.update` and
  `remove`, `Credentials.updatePassword`, `BlacklistedTokenService`: nothing
  calls them. So versions of credentials never change.
* The services' use of a schema while it is migrated, but for the article that is
  stored: `src/README.md:47-56` has the migrations run before.
* A Redis that is down: the black list and the list cache are taken to answer.
* The `id` that the body of a `tenantLogin` may bring (`tenant.service.ts:97` spreads it):
  a tenant has the id of the login that creates it.
* `BlacklistedToken` in `Migrations`: its table is made by `sync` alone, and nothing
  sends the two messages of the users service that use it
  (`users.controller.ts:61-69`, `:122-130`), so a schema serves without it.
* Pools of connections: each creation of a tenant makes one that is never closed.

## 10. What is left

The components, their runs, and the theorems about every safety property, the action
property and both refinements are done. Liveness stays with TLC. Worth doing when the
code changes: the module named for the part in section 3 first, then its run, then its
lemmas by action.
