------------------------------- MODULE Articles -------------------------------
(***************************************************************************)
(* The article side of the blog service: ArticleController with its cached *)
(* list, ArticleService, and the tables Article and ArticleImage.          *)
(*                                                                         *)
(* The service is made anew for each request, so requests share only the   *)
(* database and the cache in Redis.  A step of a request is the execution  *)
(* of the statement or call it awaits and the turn that follows, which     *)
(* touches neither.  An article is a row <<tenant, id>>: the table Article *)
(* of a tenant's schema has its ids to itself.                             *)
(*                                                                         *)
(* ValidationPipe (main.ts 34) lets through what the DTOs do not name, so  *)
(* the body of a create may bring the columns id and status, and that of   *)
(* an update status and author.  Titles and texts are left out.            *)
(***************************************************************************)
EXTENDS Naturals, FiniteSets

CONSTANTS
  Requests,        \* HTTP requests; r is also the uuid of the article r inserts
  Tenants,         \* tenants with a schema
  Users, UserHome, \* users and the tenant each is stored with
  Ids,             \* ids a client can name from the start
  Seeds,           \* articles stored at the start
  SeedAuthor,      \* the author of each
  SeedImages,      \* those that have an image
  SeedPublished,   \* those that are published
  Calls,           \* what clients may ask for
  Happens,         \* what may befall the services, from {"crash", "dbError", "lost"}
  NoUser, NoTenant, NoId, NoCall

ArticleIds == Ids \cup Requests
Rows == Tenants \X ArticleIds
Mine == {"absent", "true", "false"}
Status == {"absent", "DRAFT", "PUBLISHED"}
CreateCalls == [op : {"create"}, tenant : Tenants \cup {NoTenant}, user : Users \cup {NoUser},
                id : ArticleIds \cup {NoId}, status : Status, image : BOOLEAN]
UpdateCalls == [op : {"update"}, tenant : Tenants \cup {NoTenant}, user : Users \cup {NoUser},
                id : ArticleIds, text : BOOLEAN, status : Status, author : Users \cup {NoUser},
                image : BOOLEAN]
OwnerCalls == [op : {"publish", "remove"}, tenant : Tenants \cup {NoTenant},
               user : Users \cup {NoUser}, id : ArticleIds]
ReadCalls == [op : {"findOne"}, tenant : Tenants \cup {NoTenant},
              user : Users \cup {NoUser}, id : ArticleIds]
ListCalls == [op : {"findAll"}, tenant : Tenants \cup {NoTenant},
              user : Users \cup {NoUser}, mine : Mine]

ASSUME RowAssumption ==
  /\ Requests \cap Ids = {}
  /\ UserHome \in [Users -> Tenants]
  /\ Seeds \subseteq Tenants \X Ids
  /\ SeedAuthor \in [Seeds -> Users]
  /\ SeedImages \subseteq Seeds
  /\ SeedPublished \subseteq Seeds
  /\ NoUser \notin Users
  /\ NoTenant \notin Tenants
  /\ NoId \notin ArticleIds

ASSUME CallAssumption ==
  /\ Calls \subseteq CreateCalls \cup UpdateCalls \cup OwnerCalls \cup ReadCalls \cup ListCalls
  /\ NoCall \notin Calls

VARIABLES
  author,      \* the author of an article, and NoUser where none is stored
  published,   \* articles with the status PUBLISHED
  images,      \* articles that have a row in ArticleImage
  cache,       \* what Redis holds for a list url: one list, or none
  call, pc,    \* what a request asked for, and what it awaits
  found,       \* the articles a list or a read answers with
  missed,      \* updates that found no row
  storing,     \* lists on their way into the cache
  everPublished, gone,  \* history: articles that have been published, and removed
  remade,      \* history: removed articles that a create has stored anew
  drafted,     \* history: articles a client has made a draft, and none published since
  overtaken,   \* history: requests whose article got another author after their check
  strangers    \* history: requests that changed an article of another author

database == <<author, published, images>>
statuses == <<everPublished, drafted>>
history == <<statuses, gone, remade, overtaken, strangers>>
vars == <<database, cache, call, pc, found, missed, storing, history>>

articles == {row \in Rows : author[row] # NoUser}

\* The article a create stores, or another request names.
Row(r) ==
  <<call[r].tenant, IF call[r].op = "create" /\ call[r].id = NoId THEN r ELSE call[r].id>>

Writing == {"setPublished", "update", "destroy"}
InProgress == {"getUser", "saveArticle", "saveImage", "validateOwnership", "saveEntity", "findImage",
               "updateImage", "findOne", "cacheGet", "findAll"} \cup Writing
Ended == {"done", "failed", "lost"}

Init ==
  /\ author = [row \in Rows |-> IF row \in Seeds THEN SeedAuthor[row] ELSE NoUser]
  /\ published = SeedPublished
  /\ images = SeedImages
  /\ cache = [url \in Mine |-> {}]
  /\ call = [r \in Requests |-> NoCall]
  /\ pc = [r \in Requests |-> "idle"]
  /\ found = [r \in Requests |-> {}]
  /\ missed = {} /\ storing = {}
  /\ everPublished = SeedPublished /\ drafted = Seeds \ SeedPublished
  /\ gone = {} /\ remade = {}
  /\ overtaken = {} /\ strangers = {}

Goto(r, step) == pc' = [pc EXCEPT ![r] = step]
Calm == UNCHANGED <<cache, call, missed, storing>>

\* What a status in a body, or of a new article, does to the rows written.
SetStatus(rows, status) ==
  CASE status = "PUBLISHED" ->
         /\ published' = published \cup rows
         /\ everPublished' = everPublished \cup rows
         /\ drafted' = drafted \ rows
    [] status = "DRAFT" ->
         /\ published' = published \ rows
         /\ drafted' = drafted \cup rows
         /\ UNCHANGED everPublished
    [] OTHER -> UNCHANGED <<published, statuses>>

\* u becomes the author of rows that others have been checked to own.
Overtakes(r, rows, u) ==
  overtaken' = overtaken \cup {q \in Requests \ {r} :
                                 pc[q] \in Writing /\ Row(q) \in rows /\ call[q].user # u}

\* r changes rows that are not, or no longer, its user's.
Intrudes(r, rows) ==
  strangers' = strangers \cup {q \in {r} : \E row \in rows : author[row] # call[r].user}

(***************************************************************************)
(* Mutants: what plausible mistakes would make of the definitions below.   *)
(* No specification uses them; each shows that a property notices.         *)
(***************************************************************************)
\* The answer does not wait for the image.
saveArticleOnly(r) ==
  /\ pc[r] = "saveArticle"
  /\ author' = [author EXCEPT ![Row(r)] = call[r].user]
  /\ SetStatus({Row(r)}, "DRAFT")
  /\ Goto(r, "done")
  /\ Calm /\ UNCHANGED <<images, found, gone, remade, overtaken, strangers>>

\* The article is looked for in the tenant, whoever its author is.
OwnsInTenant(r, row) == author[row] # NoUser

\* publish saves the article it has read, as a new row if need be.
setPublishedUpsert(r) ==
  /\ pc[r] = "setPublished"
  /\ author' = [author EXCEPT ![Row(r)] = call[r].user]
  /\ SetStatus({Row(r)}, "PUBLISHED")
  /\ Goto(r, "saveEntity")
  /\ Calm /\ UNCHANGED <<images, found, gone, remade, overtaken, strangers>>

\* update writes all columns, with the default status where the body has none.
updateArticleAsDraft(r) ==
  /\ pc[r] = "update"
  /\ published' = published \ {Row(r)}
  /\ Goto(r, "done")
  /\ Calm /\ UNCHANGED <<author, images, found, history>>

\* The image does not go with its article.
destroyOnly(r) ==
  /\ pc[r] = "destroy"
  /\ LET rows == {Row(r)} \cap articles IN
       /\ author' = [row \in Rows |-> IF row \in rows THEN NoUser ELSE author[row]]
       /\ published' = published \ rows
       /\ gone' = gone \cup rows
  /\ Goto(r, "done")
  /\ Calm /\ UNCHANGED <<images, found, statuses, remade, overtaken, strangers>>

\* Lists are cached under the path, without the query.
trackByPath(c) == "absent"

\* Lists are cached without a time to live.
expireNever(url) == cache[url] # {} /\ UNCHANGED vars

(***************************************************************************)
(* TenantMiddleware, AuthGuard, and the first step of each handler.        *)
(***************************************************************************)
FirstStep(op) ==
  CASE op = "create" -> "getUser"
    [] op = "findOne" -> "findOne"
    [] op = "findAll" -> "cacheGet"
    [] OTHER -> "validateOwnership"

isPublic(op) == op \in {"findOne", "findAll"}

Arrive(r) ==
  /\ pc[r] = "idle"
  /\ \E c \in Calls :
       /\ call' = [call EXCEPT ![r] = c]
       /\ Goto(r, IF c.tenant # NoTenant /\ (isPublic(c.op) \/ c.user # NoUser)
                  THEN FirstStep(c.op) ELSE "failed")
  /\ UNCHANGED <<database, cache, found, missed, storing, history>>

(***************************************************************************)
(* create.                                                                 *)
(***************************************************************************)
\* The RPC get_user_by_id looks in the schema of the request's tenant.
getUserById(r) ==
  /\ pc[r] = "getUser"
  /\ Goto(r, IF UserHome[call[r].user] = call[r].tenant THEN "saveArticle" ELSE "failed")
  /\ Calm /\ UNCHANGED <<database, found, history>>

\* build({ ...dtoIn, author }) and INSERT, which the primary key refuses where the
\* id is taken.
saveArticle(r) ==
  /\ pc[r] = "saveArticle"
  /\ LET row == Row(r) IN
       IF row \in articles
       THEN Goto(r, "failed") /\ UNCHANGED <<author, published, statuses, remade, overtaken>>
       ELSE /\ author' = [author EXCEPT ![row] = call[r].user]
            /\ SetStatus({row}, IF call[r].status = "PUBLISHED" THEN "PUBLISHED" ELSE "DRAFT")
            /\ remade' = remade \cup ({row} \cap gone)
            /\ Overtakes(r, {row}, call[r].user)
            /\ Goto(r, IF call[r].image THEN "saveImage" ELSE "done")
  /\ Calm /\ UNCHANGED <<images, found, gone, strangers>>

\* The foreign key refuses the image of an article removed in the meantime.
attachImageToArticle(r) ==
  /\ pc[r] = "saveImage"
  /\ IF Row(r) \in articles
     THEN images' = images \cup {Row(r)} /\ Goto(r, "done")
     ELSE UNCHANGED images /\ Goto(r, "failed")
  /\ Calm /\ UNCHANGED <<author, published, found, history>>

(***************************************************************************)
(* publish, update, remove.                                                *)
(***************************************************************************)
HasColumns(c) == c.text \/ c.status # "absent" \/ c.author # NoUser

\* publish has nothing to update in an article it has read as published.  Without
\* columns, Model.update sends no statement and returns [0], which the handler
\* takes apart in vain, before it comes to the image.
AfterOwnership(r) ==
  CASE call[r].op = "publish" -> IF Row(r) \in published THEN "saveEntity" ELSE "setPublished"
    [] call[r].op = "update" -> IF HasColumns(call[r]) THEN "update" ELSE "failed"
    [] OTHER -> "destroy"

Owns(r, row) == author[row] = call[r].user

validateOwnershipOfArticle(r) ==
  /\ pc[r] = "validateOwnership"
  /\ Goto(r, IF Row(r) \in articles /\ Owns(r, Row(r)) THEN AfterOwnership(r) ELSE "failed")
  /\ Calm /\ UNCHANGED <<database, found, history>>

\* UPDATE ... SET status WHERE id: the answer is the same when no row is left.
setPublished(r) ==
  /\ pc[r] = "setPublished"
  /\ LET rows == {Row(r)} \cap articles IN SetStatus(rows, "PUBLISHED") /\ Intrudes(r, rows)
  /\ Goto(r, "saveEntity")
  /\ Calm /\ UNCHANGED <<author, images, found, gone, remade, overtaken>>

\* A transaction without a statement: it changes nothing, but it may fail.
saveEntity(r) ==
  /\ pc[r] = "saveEntity"
  /\ Goto(r, "done")
  /\ Calm /\ UNCHANGED <<database, found, history>>

\* updateArticleAndImage writes the columns of the body.  The foreign key refuses an
\* author of another tenant; an update of no row fails, but only after the image.
updateArticle(r) ==
  /\ pc[r] = "update"
  /\ LET rows == {Row(r)} \cap articles
         u == call[r].author IN
       IF rows # {} /\ u # NoUser /\ UserHome[u] # call[r].tenant
       THEN Goto(r, "failed") /\ UNCHANGED <<author, published, missed, statuses, overtaken, strangers>>
       ELSE /\ SetStatus(rows, call[r].status)
            /\ IF u = NoUser
               THEN UNCHANGED <<author, overtaken>>
               ELSE /\ author' = [row \in Rows |-> IF row \in rows THEN u ELSE author[row]]
                    /\ Overtakes(r, rows, u)
            /\ Intrudes(r, rows)
            /\ missed' = missed \cup {q \in {r} : rows = {}}
            /\ Goto(r, IF call[r].image THEN "updateImage"
                       ELSE IF rows = {} THEN "failed" ELSE "done")
  /\ UNCHANGED <<images, cache, call, storing, found, gone, remade>>

\* UPDATE "ArticleImage": it changes the url of an image, and makes none.
updateImage(r) ==
  /\ pc[r] = "updateImage"
  /\ Goto(r, "findImage")
  /\ Calm /\ UNCHANGED <<database, found, history>>

findImage(r) ==
  /\ pc[r] = "findImage"
  /\ Goto(r, IF r \in missed THEN "failed" ELSE "done")
  /\ Calm /\ UNCHANGED <<database, found, history>>

\* The image goes in cascade.
destroy(r) ==
  /\ pc[r] = "destroy"
  /\ LET rows == {Row(r)} \cap articles IN
       /\ author' = [row \in Rows |-> IF row \in rows THEN NoUser ELSE author[row]]
       /\ published' = published \ rows
       /\ images' = images \ rows
       /\ gone' = gone \cup rows
       /\ remade' = remade \ rows
       /\ Intrudes(r, rows)
  /\ Goto(r, "done")
  /\ Calm /\ UNCHANGED <<found, statuses, overtaken>>

(***************************************************************************)
(* findOne and the cached findAll.                                         *)
(***************************************************************************)
\* new ArticleDto(null) throws when there is no such article.
findOne(r) ==
  /\ pc[r] = "findOne"
  /\ LET rows == {Row(r)} \cap articles IN
       /\ found' = [found EXCEPT ![r] = rows]
       /\ Goto(r, IF rows = {} THEN "failed" ELSE "done")
  /\ Calm /\ UNCHANGED <<database, history>>

\* CacheInterceptor keeps a list under the url of the request.
trackBy(c) == c.mine

\* ?mine=false is a string like any other, and the query asks for own articles.
Listed(c) ==
  LET inTenant == {row \in articles : row[1] = c.tenant} IN
  IF c.mine # "absent" /\ c.user # NoUser
  THEN {row \in inTenant : author[row] = c.user}
  ELSE inTenant \cap published

cacheGet(r) ==
  /\ pc[r] = "cacheGet"
  /\ LET entry == cache[trackBy(call[r])] IN
       \/ entry = {} /\ Goto(r, "findAll") /\ UNCHANGED found
       \/ \E kept \in entry : Goto(r, "done") /\ found' = [found EXCEPT ![r] = kept]
  /\ Calm /\ UNCHANGED <<database, history>>

\* The answer leaves while the list is on its way to Redis.
findAll(r) ==
  /\ pc[r] = "findAll"
  /\ found' = [found EXCEPT ![r] = Listed(call[r])]
  /\ storing' = storing \cup {r}
  /\ Goto(r, "done")
  /\ UNCHANGED <<database, cache, call, missed, history>>

cacheSet(r) ==
  /\ r \in storing
  /\ cache' = [cache EXCEPT ![trackBy(call[r])] = {found[r]}]
  /\ storing' = storing \ {r}
  /\ UNCHANGED <<database, call, pc, found, missed, history>>

\* Redis drops an entry when its time to live is over.
expire(url) ==
  /\ cache[url] # {}
  /\ cache' = [cache EXCEPT ![url] = {}]
  /\ UNCHANGED <<database, call, pc, found, missed, storing, history>>

(***************************************************************************)
(* Failures.                                                               *)
(***************************************************************************)
\* A statement fails: nothing undoes the statements before it.
dbError(r) ==
  /\ "dbError" \in Happens
  /\ pc[r] \in InProgress \ {"cacheGet"}
  /\ Goto(r, "failed")
  /\ Calm /\ UNCHANGED <<database, found, history>>

\* getData waits without a timeout for a reply that never comes.
getUserLost(r) ==
  /\ "lost" \in Happens
  /\ pc[r] = "getUser"
  /\ Goto(r, "unanswered")
  /\ Calm /\ UNCHANGED <<database, found, history>>

crash ==
  /\ "crash" \in Happens
  /\ \E r \in Requests : pc[r] \in InProgress \cup {"unanswered"}
  /\ pc' = [r \in Requests |-> IF pc[r] \in InProgress \cup {"unanswered"} THEN "lost" ELSE pc[r]]
  /\ storing' = {}
  /\ UNCHANGED <<database, cache, call, found, missed, history>>

Step(r) ==
  \/ getUserById(r) \/ saveArticle(r) \/ attachImageToArticle(r)
  \/ validateOwnershipOfArticle(r) \/ setPublished(r) \/ saveEntity(r)
  \/ updateArticle(r) \/ updateImage(r) \/ findImage(r) \/ destroy(r)
  \/ findOne(r) \/ cacheGet(r) \/ findAll(r) \/ cacheSet(r)

Next ==
  \/ \E r \in Requests : Arrive(r) \/ Step(r) \/ dbError(r) \/ getUserLost(r)
  \/ \E url \in Mine : expire(url)
  \/ crash

\* The users service, PostgreSQL and Redis answer, and Redis expires what it holds.
Fairness ==
  /\ \A r \in Requests : WF_vars(Step(r))
  /\ \A url \in Mine : WF_vars(expire(url))

Spec == Init /\ [][Next]_vars
FairSpec == Spec /\ Fairness

(***************************************************************************)
(* Properties.                                                             *)
(***************************************************************************)
\* Every variable holds a value of its kind, a status or an image only for an
\* article that is stored.
TypeOK ==
  /\ author \in [Rows -> Users \cup {NoUser}]
  /\ published \subseteq articles
  /\ images \subseteq articles
  /\ cache \in [Mine -> SUBSET SUBSET Rows]
  /\ call \in [Requests -> Calls \cup {NoCall}]
  /\ pc \in [Requests -> InProgress \cup Ended \cup {"idle", "unanswered"}]
  /\ found \in [Requests -> SUBSET Rows]
  /\ missed \subseteq Requests /\ storing \subseteq Requests
  /\ everPublished \subseteq Rows /\ drafted \subseteq Rows
  /\ gone \subseteq Rows /\ remade \subseteq Rows
  /\ overtaken \subseteq Requests /\ strangers \subseteq Requests

\* A removed article does not come back, although publish, update and create act on
\* rows they looked at some statements ago (128-141, 228-231, 85-101), but by a
\* create whose body names the id (289-297).
NoResurrection == gone \cap articles \subseteq remade

\* A published article stays published until it is removed, or a client asks for a
\* draft: no update writes a status that its body does not have (304-307).  And what
\* publish answers with success has been published, also where it read the article
\* as published and wrote nothing (137), unless it was removed in the meantime.
PublishedStays ==
  /\ everPublished \cap articles \subseteq published \cup drafted
  /\ \A r \in Requests : pc[r] = "done" /\ call[r].op = "publish" => Row(r) \in everPublished \cup gone

\* publish, update and remove change the article of another author only if, between
\* the check of ownership and the statement that names the article by id alone (137,
\* 304-307, 246-248), an update with author in its body moved it, or a create put
\* another's article in its place.
OnlyAuthorsWrite == strangers \subseteq overtaken

\* A create answered with 201 has stored the article and its image (59-68),
\* unless the article has been removed.
AnsweredCreatesAreWhole ==
  \A r \in Requests :
    pc[r] = "done" /\ call[r].op = "create" /\ Row(r) \notin gone =>
      /\ Row(r) \in articles
      /\ call[r].image => Row(r) \in images

\* The list without the parameter mine shows only articles that have been
\* published, also when it comes from the cache that serves ?mine=true.
PlainListsShowPublished ==
  \A r \in Requests :
    pc[r] = "done" /\ call[r].op = "findAll" /\ call[r].mine = "absent" =>
      found[r] \subseteq everPublished

\* In the end no cached list has a removed article, unless it is stored anew, also
\* when a list read before the removal reaches the cache after it.
RemovedLeavesLists == <>[](\A url \in Mine : \A kept \in cache[url] : kept \cap gone \subseteq remade)

(***************************************************************************)
(* What the source says and the code does not keep.                        *)
(***************************************************************************)
\* README.md 31, "Data Isolation": a list shows articles of the request's tenant.
ListsStayInTenant ==
  \A r \in Requests : pc[r] = "done" /\ call[r].op = "findAll" =>
    \A row \in found[r] : row[1] = call[r].tenant

=============================================================================
