---------------------------- MODULE ArticlesProofs ----------------------------
(***************************************************************************)
(* Theorems about Articles, for every set of requests, users, tenants,     *)
(* calls and mishaps.                                                      *)
(***************************************************************************)
EXTENDS Articles, TLAPS

CreateSteps == {"getUser", "saveArticle", "saveImage"}
OwnerSteps == {"validateOwnership", "saveEntity", "updateImage", "findImage"} \cup Writing
ListSteps == {"cacheGet", "findAll"}
OwnerOps == {"publish", "update", "remove"}

\* What a request is doing fits what it was called for.
Course ==
  \A r \in Requests :
    /\ pc[r] # "idle" => call[r] \in Calls
    /\ pc[r] \in CreateSteps \cup {"unanswered"} => call[r].op = "create"
    /\ pc[r] \in OwnerSteps => call[r].op \in OwnerOps
    /\ pc[r] \in {"setPublished", "saveEntity"} => call[r].op = "publish"
    /\ pc[r] \in {"update", "updateImage", "findImage"} => call[r].op = "update"
    /\ pc[r] = "destroy" => call[r].op = "remove"
    /\ pc[r] = "findOne" => call[r].op = "findOne"
    /\ pc[r] \in ListSteps => call[r].op = "findAll"
    /\ pc[r] \in CreateSteps \cup OwnerSteps => call[r].user \in Users /\ call[r].tenant \in Tenants

\* A request that may write found its article to be its user's; since then the
\* article has gone, or the request has been overtaken, or it still is.
Checked ==
  \A r \in Requests : pc[r] \in Writing =>
    author[Row(r)] \in {NoUser, call[r].user} \/ r \in overtaken

\* A publish has found its article, and has published it when it comes to saveEntity.
Publishing ==
  \A r \in Requests :
    /\ pc[r] = "setPublished" => Row(r) \in articles \cup gone
    /\ pc[r] = "saveEntity" => Row(r) \in everPublished \cup gone

\* What a create has stored stays until the article goes.
Creates ==
  \A r \in Requests :
    /\ pc[r] = "saveImage" => Row(r) \in articles \cup gone
    /\ pc[r] = "done" /\ call[r].op = "create" =>
         \/ Row(r) \in gone
         \/ Row(r) \in articles /\ (call[r].image => Row(r) \in images)

\* Plain lists, wherever they are, hold what has been published.
Lists ==
  /\ published \subseteq everPublished
  /\ cache["absent"] \subseteq SUBSET everPublished
  /\ \A r \in Requests :
       /\ pc[r] = "done" /\ call[r].op = "findAll" /\ call[r].mine = "absent" =>
            found[r] \subseteq everPublished
       /\ r \in storing => pc[r] = "done" /\ call[r].op = "findAll"

Shape == TypeOK /\ Course
IInv ==
  Shape /\ Checked /\ OnlyAuthorsWrite /\ Publishing /\ Creates /\ Lists /\ PublishedStays /\ NoResurrection

(***************************************************************************)
(* Facts about the operators.                                              *)
(***************************************************************************)
\* A call has the fields of its operation.
LEMMA CallFields ==
  ASSUME NEW c \in Calls
  PROVE  /\ c # NoCall
         /\ c.op \in {"create", "findOne", "findAll"} \cup OwnerOps
         /\ c.user \in Users \cup {NoUser}
         /\ c.tenant \in Tenants \cup {NoTenant}
         /\ c.op = "create" => c.id \in ArticleIds \cup {NoId} /\ c.image \in BOOLEAN /\ c.status \in Status
         /\ c.op \in OwnerOps => c.id \in ArticleIds
         /\ c.op = "update" => /\ c.author \in Users \cup {NoUser} /\ c.status \in Status
                               /\ c.image \in BOOLEAN
         /\ c.op = "findAll" => c.mine \in Mine
BY CallAssumption DEF CreateCalls, UpdateCalls, OwnerCalls, ReadCalls, ListCalls, OwnerOps

\* A request on its way to a write names a row of its tenant.
LEMMA RowTyped ==
  ASSUME Course, NEW r \in Requests, pc[r] \in CreateSteps \cup OwnerSteps
  PROVE  Row(r) \in Rows
<1>1. call[r] \in Calls /\ call[r].tenant \in Tenants /\ call[r].op \in {"create"} \cup OwnerOps
  BY DEF Course, CreateSteps, OwnerSteps, Writing
<1>2. (IF call[r].op = "create" /\ call[r].id = NoId THEN r ELSE call[r].id) \in ArticleIds
  BY <1>1, CallFields DEF ArticleIds, OwnerOps
<1> QED
  BY <1>1, <1>2 DEF Row, Rows

\* The row does not change with what else the requests do.
LEMMA RowStays == ASSUME NEW r, call'[r] = call[r] PROVE Row(r)' = Row(r)
BY DEF Row

May(c) == c.user \in Users /\ c.tenant \in Tenants

\* A request arrives with a call that may take its first step, or is refused.
LEMMA Arrival ==
  ASSUME Shape, NEW r \in Requests, Arrive(r)
  PROVE  /\ pc[r] = "idle"
         /\ \E c \in Calls :
              /\ call' = [call EXCEPT ![r] = c]
              /\ \/ pc' = [pc EXCEPT ![r] = "failed"]
                 \/ c.op = "create" /\ May(c) /\ pc' = [pc EXCEPT ![r] = "getUser"]
                 \/ c.op = "findOne" /\ pc' = [pc EXCEPT ![r] = "findOne"]
                 \/ c.op = "findAll" /\ pc' = [pc EXCEPT ![r] = "cacheGet"]
                 \/ c.op \in OwnerOps /\ May(c) /\ pc' = [pc EXCEPT ![r] = "validateOwnership"]
         /\ UNCHANGED <<database, cache, found, missed, storing, history>>
<1>1. PICK c \in Calls :
        /\ call' = [call EXCEPT ![r] = c]
        /\ Goto(r, IF c.tenant # NoTenant /\ (isPublic(c.op) \/ c.user # NoUser)
                   THEN FirstStep(c.op) ELSE "failed")
  BY DEF Arrive
<1>2. /\ c.op \in {"create", "findOne", "findAll"} \cup OwnerOps
      /\ c.user \in Users \cup {NoUser} /\ c.tenant \in Tenants \cup {NoTenant}
  BY CallFields
<1>3. \/ pc' = [pc EXCEPT ![r] = "failed"]
      \/ c.op = "create" /\ May(c) /\ pc' = [pc EXCEPT ![r] = "getUser"]
      \/ c.op = "findOne" /\ pc' = [pc EXCEPT ![r] = "findOne"]
      \/ c.op = "findAll" /\ pc' = [pc EXCEPT ![r] = "cacheGet"]
      \/ c.op \in OwnerOps /\ May(c) /\ pc' = [pc EXCEPT ![r] = "validateOwnership"]
  BY <1>1, <1>2 DEF Goto, FirstStep, isPublic, OwnerOps, May
<1> QED
  BY <1>1, <1>3 DEF Arrive

(***************************************************************************)
(* Every step keeps the shape of the state.                                *)
(***************************************************************************)
\* The program starts in the invariant.
LEMMA IInvInit == Init => IInv
<1> SUFFICES ASSUME Init PROVE IInv
  OBVIOUS
<1> USE RowAssumption DEF Init
<1>1. Seeds \subseteq Rows
  BY DEF Rows, ArticleIds
<1>2. articles = Seeds
  BY <1>1 DEF articles
<1>3. TypeOK
  <2>1. author \in [Rows -> Users \cup {NoUser}]
    BY <1>1
  <2> QED
    BY <1>1, <1>2, <2>1 DEF TypeOK, Ended
<1>4. Course
  BY DEF Course, CreateSteps, OwnerSteps, ListSteps, Writing
<1>5. Checked /\ Publishing /\ Creates
  BY DEF Checked, Publishing, Creates, Writing
<1>6. Lists
  BY DEF Lists, Mine
<1>7. NoResurrection /\ PublishedStays /\ OnlyAuthorsWrite
  BY <1>2 DEF NoResurrection, PublishedStays, OnlyAuthorsWrite
<1> QED
  BY <1>3, <1>4, <1>5, <1>6, <1>7 DEF IInv, Shape

\* What may happen, by request, by url, or at large.
LEMMA NextCases ==
  ASSUME [Next]_vars
  PROVE  \/ \E r \in Requests : Arrive(r) \/ Step(r) \/ dbError(r) \/ getUserLost(r)
         \/ \E url \in Mine : expire(url)
         \/ crash
         \/ UNCHANGED vars
BY DEF Next

\* Only five steps touch the articles and their images.
LEMMA RowsWritten ==
  ASSUME [Next]_vars
  PROVE  \/ \E r \in Requests :
              \/ saveArticle(r) \/ attachImageToArticle(r)
              \/ setPublished(r) \/ updateArticle(r) \/ destroy(r)
         \/ UNCHANGED <<database, statuses, gone, remade, overtaken, strangers>>
<1> DEFINE Written == \E r \in Requests :
                        \/ saveArticle(r) \/ attachImageToArticle(r)
                        \/ setPublished(r) \/ updateArticle(r) \/ destroy(r)
           Same == UNCHANGED <<database, statuses, gone, remade, overtaken, strangers>>
<1> USE DEF database, history
<1>1. ASSUME NEW r \in Requests, Arrive(r) PROVE Same
  BY <1>1 DEF Arrive
<1>2. ASSUME NEW r \in Requests, Step(r) PROVE Written \/ Same
  BY <1>2
  DEF Step, getUserById, validateOwnershipOfArticle, saveEntity,
      updateImage, findImage, findOne, cacheGet, findAll, cacheSet
<1>3. ASSUME NEW r \in Requests, dbError(r) \/ getUserLost(r) PROVE Same
  BY <1>3 DEF dbError, getUserLost
<1>4. ASSUME NEW url \in Mine, expire(url) PROVE Same
  BY <1>4 DEF expire
<1>5. CASE crash
  BY <1>5 DEF crash
<1>6. CASE UNCHANGED vars
  BY <1>6 DEF vars, statuses
<1> QED
  BY <1>1, <1>2, <1>3, <1>4, <1>5, <1>6, NextCases

\* What a status does to the rows written: it adds or removes no others.
LEMMA StatusSet ==
  ASSUME NEW rows, NEW status, SetStatus(rows, status)
  PROVE  /\ published' \subseteq published \cup rows
         /\ published \subseteq published' \cup rows
         /\ everPublished \subseteq everPublished'
         /\ everPublished' \subseteq everPublished \cup rows
         /\ drafted' \subseteq drafted \cup rows
         /\ drafted \subseteq drafted' \cup rows
         /\ published \subseteq everPublished => published' \subseteq everPublished'
         /\ everPublished' \cap rows \subseteq everPublished \cup published'
         /\ drafted \subseteq drafted' \cup published'
         /\ published \subseteq published' \cup drafted'
         /\ status = "PUBLISHED" => rows \subseteq published' /\ rows \subseteq everPublished'
         /\ status = "DRAFT" => rows \subseteq drafted'
BY DEF SetStatus, statuses

\* A step writes articles of the rows there are.
LEMMA TablesTyped ==
  ASSUME Shape, [Next]_vars
  PROVE  /\ author' \in [Rows -> Users \cup {NoUser}]
         /\ published' \subseteq articles' /\ images' \subseteq articles'
         /\ everPublished' \subseteq Rows /\ drafted' \subseteq Rows
         /\ gone' \subseteq Rows /\ remade' \subseteq Rows
         /\ overtaken' \subseteq Requests /\ strangers' \subseteq Requests
         /\ articles \subseteq articles' \cup gone'
<1> DEFINE Good == /\ author' \in [Rows -> Users \cup {NoUser}]
                   /\ published' \subseteq articles' /\ images' \subseteq articles'
                   /\ everPublished' \subseteq Rows /\ drafted' \subseteq Rows
                   /\ gone' \subseteq Rows /\ remade' \subseteq Rows
                   /\ overtaken' \subseteq Requests /\ strangers' \subseteq Requests
                   /\ articles \subseteq articles' \cup gone'
<1> USE DEF Shape
<1>0. articles \subseteq Rows
  BY DEF articles
<1>1. ASSUME NEW r \in Requests, saveArticle(r) PROVE Good
  <2>1. Row(r) \in Rows /\ call[r].user \in Users /\ call[r].user # NoUser
    BY <1>1, RowTyped, RowAssumption DEF saveArticle, CreateSteps, Course
  <2>2. CASE Row(r) \in articles
    BY <1>1, <2>2 DEF saveArticle, Calm, TypeOK, articles, statuses
  <2>3. CASE Row(r) \notin articles
    <3>1. /\ author' = [author EXCEPT ![Row(r)] = call[r].user]
          /\ SetStatus({Row(r)}, IF call[r].status = "PUBLISHED" THEN "PUBLISHED" ELSE "DRAFT")
          /\ remade' = remade \cup ({Row(r)} \cap gone)
          /\ Overtakes(r, {Row(r)}, call[r].user)
          /\ UNCHANGED <<images, found, gone, strangers>>
      BY <1>1, <2>3 DEF saveArticle
    <3>2. author' = [row \in Rows |-> IF row \in {Row(r)} THEN call[r].user ELSE author[row]]
      BY <3>1, <2>1 DEF TypeOK
    <3>3. author' \in [Rows -> Users \cup {NoUser}] /\ articles' = articles \cup {Row(r)}
      BY <3>2, <2>1, RowAssumption DEF TypeOK, articles
    <3>4. published' \subseteq articles' /\ everPublished' \subseteq Rows /\ drafted' \subseteq Rows
      BY <3>1, <3>3, <2>1, StatusSet DEF TypeOK
    <3> QED
      BY <3>1, <3>3, <3>4 DEF TypeOK, Overtakes
  <2> QED
    BY <2>2, <2>3
<1>2. ASSUME NEW r \in Requests, setPublished(r) PROVE Good
  <2>1. PICK rows : rows = {Row(r)} \cap articles
    OBVIOUS
  <2>2. SetStatus(rows, "PUBLISHED") /\ Intrudes(r, rows)
        /\ UNCHANGED <<author, images, found, gone, remade, overtaken>>
    BY <1>2, <2>1 DEF setPublished
  <2>3. articles' = articles
    BY <2>2 DEF articles
  <2>4. published' \subseteq articles' /\ everPublished' \subseteq Rows /\ drafted' \subseteq Rows
    BY <1>0, <2>1, <2>2, <2>3, StatusSet DEF TypeOK
  <2> QED
    BY <2>2, <2>3, <2>4 DEF TypeOK, Intrudes
<1>3. ASSUME NEW r \in Requests, updateArticle(r) PROVE Good
  <2>1. PICK rows : rows = {Row(r)} \cap articles
    OBVIOUS
  <2>2. PICK u \in Users \cup {NoUser} : u = call[r].author
    BY <1>3, CallFields DEF updateArticle, Course, OwnerSteps, Writing
  <2>3. CASE /\ Goto(r, "failed")
             /\ UNCHANGED <<author, published, missed, statuses, overtaken, strangers>>
    BY <1>3, <2>3 DEF updateArticle, TypeOK, articles, statuses
  <2>4. CASE /\ SetStatus(rows, call[r].status)
             /\ IF u = NoUser
                THEN UNCHANGED <<author, overtaken>>
                ELSE /\ author' = [row \in Rows |-> IF row \in rows THEN u ELSE author[row]]
                     /\ Overtakes(r, rows, u)
             /\ Intrudes(r, rows)
    <3>0. images' = images
      BY <1>3 DEF updateArticle
    <3>1. /\ author' \in [Rows -> Users \cup {NoUser}]
          /\ articles' = articles
          /\ overtaken' \subseteq Requests
      <4>1. CASE u = NoUser
        BY <2>4, <4>1 DEF articles, TypeOK
      <4>2. CASE u # NoUser
        <5>1. author' = [row \in Rows |-> IF row \in rows THEN u ELSE author[row]] /\ Overtakes(r, rows, u)
          BY <2>4, <4>2
        <5>2. author' \in [Rows -> Users \cup {NoUser}] /\ articles' = articles
          BY <5>1, <4>2, <2>1 DEF TypeOK, articles
        <5> QED
          BY <5>1, <5>2 DEF TypeOK, Overtakes
      <4> QED
        BY <4>1, <4>2
    <3>2. published' \subseteq articles' /\ everPublished' \subseteq Rows /\ drafted' \subseteq Rows
      BY <1>0, <2>1, <2>4, <3>1, StatusSet DEF TypeOK
    <3>3. UNCHANGED <<gone, remade>>
      BY <1>3 DEF updateArticle
    <3> QED
      BY <2>4, <3>0, <3>1, <3>2, <3>3 DEF TypeOK, Intrudes
  <2> QED
    BY <1>3, <2>1, <2>2, <2>3, <2>4 DEF updateArticle
<1>4. ASSUME NEW r \in Requests, destroy(r) PROVE Good
  <2>1. PICK rows : rows = {Row(r)} \cap articles
    OBVIOUS
  <2>2. /\ author' = [row \in Rows |-> IF row \in rows THEN NoUser ELSE author[row]]
        /\ published' = published \ rows
        /\ images' = images \ rows
        /\ gone' = gone \cup rows
        /\ remade' = remade \ rows
        /\ Intrudes(r, rows)
        /\ UNCHANGED <<statuses, overtaken>>
    BY <1>4, <2>1 DEF destroy
  <2>3. author' \in [Rows -> Users \cup {NoUser}] /\ articles' = articles \ rows
    BY <2>1, <2>2 DEF TypeOK, articles
  <2> QED
    BY <1>0, <2>1, <2>2, <2>3 DEF TypeOK, Intrudes, statuses
<1>5. ASSUME NEW r \in Requests, attachImageToArticle(r) PROVE Good
  BY <1>5 DEF attachImageToArticle, Calm, TypeOK, articles, history, statuses
<1>6. CASE UNCHANGED <<database, statuses, gone, remade, overtaken, strangers>>
  BY <1>6 DEF TypeOK, articles, database, statuses
<1> QED
  BY <1>1, <1>2, <1>3, <1>4, <1>5, <1>6, RowsWritten

\* A step keeps all types, and each request on its course.
LEMMA ShapeStep == ASSUME Shape, [Next]_vars PROVE Shape'
<1> DEFINE Types == /\ cache' \in [Mine -> SUBSET SUBSET Rows]
                    /\ call' \in [Requests -> Calls \cup {NoCall}]
                    /\ pc' \in [Requests -> InProgress \cup Ended \cup {"idle", "unanswered"}]
                    /\ found' \in [Requests -> SUBSET Rows]
                    /\ missed' \subseteq Requests /\ storing' \subseteq Requests
           Good == Types /\ Course'
<1>0. Good => Shape'
  BY TablesTyped DEF Shape, TypeOK
<1> HIDE DEF Good
<1> USE DEF Shape, TypeOK, Course, Good, Goto, Calm, CreateSteps, OwnerSteps, Writing, ListSteps,
            InProgress, Ended
<1>1. ASSUME NEW r \in Requests, Arrive(r) PROVE Good
  BY <1>1, Arrival, CallFields DEF OwnerOps, May
<1>2. ASSUME NEW r \in Requests, Step(r) PROVE Good
  <2>1. CASE getUserById(r)
    BY <2>1 DEF getUserById
  <2>2. CASE saveArticle(r)
    BY <2>2 DEF saveArticle
  <2>3. CASE attachImageToArticle(r)
    BY <2>3 DEF attachImageToArticle
  <2>4. CASE validateOwnershipOfArticle(r)
    <3>1. \/ AfterOwnership(r) \in {"saveEntity", "setPublished"} /\ call[r].op = "publish"
          \/ AfterOwnership(r) \in {"update", "failed"} /\ call[r].op = "update"
          \/ AfterOwnership(r) = "destroy" /\ call[r].op = "remove"
      BY <2>4 DEF AfterOwnership, validateOwnershipOfArticle, OwnerOps
    <3> QED
      BY <2>4, <3>1 DEF validateOwnershipOfArticle, OwnerOps
  <2>5. CASE setPublished(r)
    BY <2>5 DEF setPublished
  <2>6. CASE updateArticle(r)
    BY <2>6 DEF updateArticle
  <2>7. CASE saveEntity(r) \/ updateImage(r) \/ findImage(r)
    BY <2>7 DEF saveEntity, updateImage, findImage
  <2>8. CASE destroy(r)
    BY <2>8 DEF destroy
  <2>9. CASE findOne(r)
    <3>1. {Row(r)} \cap articles \in SUBSET Rows
      BY DEF articles
    <3> QED
      BY <2>9, <3>1 DEF findOne
  <2>10. CASE cacheGet(r)
    <3>1. trackBy(call[r]) \in Mine
      BY <2>10, CallFields DEF cacheGet, trackBy
    <3> QED
      BY <2>10, <3>1 DEF cacheGet
  <2>11. CASE findAll(r)
    <3>1. Listed(call[r]) \in SUBSET Rows
      BY DEF Listed, articles
    <3> QED
      BY <2>11, <3>1 DEF findAll
  <2>12. CASE cacheSet(r)
    <3>1. {found[r]} \in SUBSET SUBSET Rows
      OBVIOUS
    <3> QED
      BY <2>12, <3>1 DEF cacheSet
  <2> QED
    BY <1>2, <2>1, <2>2, <2>3, <2>4, <2>5, <2>6, <2>7, <2>8, <2>9, <2>10, <2>11, <2>12 DEF Step
<1>3. ASSUME NEW r \in Requests, dbError(r) \/ getUserLost(r) PROVE Good
  BY <1>3 DEF dbError, getUserLost
<1>4. ASSUME NEW url \in Mine, expire(url) PROVE Good
  BY <1>4 DEF expire
<1>5. ASSUME crash PROVE Good
  BY <1>5 DEF crash
<1>6. ASSUME UNCHANGED vars PROVE Good
  BY <1>6 DEF vars
<1> QED
  BY <1>0, <1>1, <1>2, <1>3, <1>4, <1>5, <1>6, NextCases

(***************************************************************************)
(* Requests.                                                               *)
(***************************************************************************)
\* A request is called once, and names the same article ever after.
LEMMA CalledOnce ==
  ASSUME Shape, [Next]_vars, NEW q \in Requests, pc[q] # "idle"
  PROVE  pc'[q] # "idle" /\ call'[q] = call[q] /\ Row(q)' = Row(q)
<1> DEFINE Same == pc'[q] # "idle" /\ call'[q] = call[q]
<1> USE DEF Shape, TypeOK, Goto, Calm
<1>1. ASSUME NEW r \in Requests, Arrive(r) PROVE Same
  BY <1>1, Arrival
<1>2. ASSUME NEW r \in Requests, Step(r) PROVE Same
  BY <1>2
  DEF Step, getUserById, saveArticle, attachImageToArticle, validateOwnershipOfArticle,
      AfterOwnership, setPublished, saveEntity, updateArticle, updateImage, findImage, destroy,
      findOne, cacheGet, findAll, cacheSet
<1>3. ASSUME NEW r \in Requests, dbError(r) \/ getUserLost(r) PROVE Same
  BY <1>3 DEF dbError, getUserLost
<1>4. ASSUME NEW url \in Mine, expire(url) PROVE Same
  BY <1>4 DEF expire
<1>5. ASSUME crash PROVE Same
  BY <1>5 DEF crash
<1>6. ASSUME UNCHANGED vars PROVE Same
  BY <1>6 DEF vars
<1>7. Same
  BY <1>1, <1>2, <1>3, <1>4, <1>5, <1>6, NextCases
<1> QED
  BY <1>7, RowStays

\* Which step took a request where it is.
LEMMA CameFrom ==
  ASSUME Shape, [Next]_vars, NEW q \in Requests
  PROVE  /\ pc'[q] \in Writing => pc[q] = pc'[q] \/ validateOwnershipOfArticle(q)
         /\ pc'[q] = "saveImage" => pc[q] = "saveImage" \/ saveArticle(q)
         /\ pc'[q] = "saveEntity" =>
              pc[q] = "saveEntity" \/ setPublished(q) \/ validateOwnershipOfArticle(q)
         /\ pc'[q] = "done" /\ call'[q].op = "publish" =>
              pc[q] \in {"saveEntity", "done"} /\ call[q] = call'[q]
         /\ pc'[q] = "done" /\ call'[q].op = "create" =>
              \/ pc[q] = "done" /\ call[q] = call'[q]
              \/ saveArticle(q) /\ call[q].image # TRUE
              \/ attachImageToArticle(q) /\ Row(q) \in articles
<1> DEFINE Came ==
      /\ pc'[q] \in Writing => pc[q] = pc'[q] \/ validateOwnershipOfArticle(q)
      /\ pc'[q] = "saveImage" => pc[q] = "saveImage" \/ saveArticle(q)
      /\ pc'[q] = "saveEntity" =>
           pc[q] = "saveEntity" \/ setPublished(q) \/ validateOwnershipOfArticle(q)
      /\ pc'[q] = "done" /\ call'[q].op = "publish" =>
           pc[q] \in {"saveEntity", "done"} /\ call[q] = call'[q]
      /\ pc'[q] = "done" /\ call'[q].op = "create" =>
           \/ pc[q] = "done" /\ call[q] = call'[q]
           \/ saveArticle(q) /\ call[q].image # TRUE
           \/ attachImageToArticle(q) /\ Row(q) \in articles
<1> USE DEF Shape, TypeOK, Course, Goto, Calm, CreateSteps, OwnerSteps, Writing, ListSteps, OwnerOps
<1>1. ASSUME NEW r \in Requests, Arrive(r) PROVE Came
  BY <1>1, Arrival
<1>2. ASSUME NEW r \in Requests, Step(r) PROVE Came
  <2>1. CASE saveArticle(r)
    BY <2>1 DEF saveArticle
  <2>2. CASE attachImageToArticle(r)
    BY <2>2 DEF attachImageToArticle
  <2>3. CASE validateOwnershipOfArticle(r)
    BY <2>3 DEF validateOwnershipOfArticle, AfterOwnership
  <2>4. CASE setPublished(r)
    BY <2>4 DEF setPublished
  <2>5. CASE saveEntity(r) \/ updateArticle(r) \/ updateImage(r) \/ findImage(r) \/ destroy(r)
    BY <2>5 DEF saveEntity, updateArticle, updateImage, findImage, destroy
  <2>6. CASE getUserById(r) \/ findOne(r) \/ cacheGet(r) \/ findAll(r) \/ cacheSet(r)
    BY <2>6 DEF getUserById, findOne, cacheGet, findAll, cacheSet
  <2> QED
    BY <1>2, <2>1, <2>2, <2>3, <2>4, <2>5, <2>6 DEF Step
<1>3. ASSUME NEW r \in Requests, dbError(r) \/ getUserLost(r) PROVE Came
  BY <1>3 DEF dbError, getUserLost
<1>4. ASSUME NEW url \in Mine, expire(url) PROVE Came
  BY <1>4 DEF expire
<1>5. CASE crash
  BY <1>5 DEF crash
<1>6. CASE UNCHANGED vars
  BY <1>6 DEF vars
<1> QED
  BY <1>1, <1>2, <1>3, <1>4, <1>5, <1>6, NextCases

(***************************************************************************)
(* What happens to an article.                                             *)
(***************************************************************************)
\* Articles and images leave their tables only as removed.
LEMMA RowsKept ==
  ASSUME Shape, [Next]_vars
  PROVE  /\ gone \subseteq gone'
         /\ articles \subseteq articles' \cup gone'
         /\ images \subseteq images' \cup gone'
         /\ everPublished \subseteq everPublished'
         /\ overtaken \subseteq overtaken'
<1> DEFINE Kept == /\ gone \subseteq gone'
                   /\ images \subseteq images' \cup gone'
                   /\ everPublished \subseteq everPublished'
                   /\ overtaken \subseteq overtaken'
<1>1. ASSUME NEW r \in Requests, saveArticle(r) PROVE Kept
  BY <1>1, StatusSet DEF saveArticle, Calm, statuses, Overtakes
<1>2. ASSUME NEW r \in Requests, attachImageToArticle(r) PROVE Kept
  BY <1>2 DEF attachImageToArticle, Calm, history, statuses
<1>3. ASSUME NEW r \in Requests, setPublished(r) PROVE Kept
  <2>1. SetStatus({Row(r)} \cap articles, "PUBLISHED") /\ UNCHANGED <<images, gone, overtaken>>
    BY <1>3 DEF setPublished
  <2> QED
    BY <2>1, StatusSet
<1>4. ASSUME NEW r \in Requests, updateArticle(r) PROVE Kept
  <2>1. /\ \/ UNCHANGED statuses
           \/ SetStatus({Row(r)} \cap articles, call[r].status)
        /\ overtaken \subseteq overtaken'
        /\ UNCHANGED <<images, gone>>
    BY <1>4 DEF updateArticle, Overtakes
  <2> QED
    BY <2>1, StatusSet DEF statuses
<1>5. ASSUME NEW r \in Requests, destroy(r) PROVE Kept
  BY <1>5 DEF destroy, statuses
<1>6. ASSUME UNCHANGED <<database, statuses, gone, remade, overtaken, strangers>> PROVE Kept
  BY <1>6 DEF database, statuses
<1>7. Kept
  BY <1>1, <1>2, <1>3, <1>4, <1>5, RowsWritten, <1>6
<1> QED
  BY <1>7, TablesTyped

\* An article removed comes back only by a create, and a published one becomes a
\* draft only by a body that says so.
LEMMA StatusStep ==
  ASSUME Shape, NoResurrection, PublishedStays, [Next]_vars
  PROVE  NoResurrection' /\ everPublished' \cap articles' \subseteq published' \cup drafted'
<1> DEFINE Good == /\ gone' \cap articles' \subseteq remade'
                   /\ everPublished' \cap articles' \subseteq published' \cup drafted'
<1> USE DEF Shape, NoResurrection, PublishedStays
<1>1. ASSUME NEW r \in Requests, saveArticle(r) PROVE Good
  <2>1. CASE Row(r) \in articles
    BY <1>1, <2>1 DEF saveArticle, statuses, articles
  <2>2. CASE Row(r) \notin articles
    <3>1. PICK row, status : row = Row(r) /\ status \in {"PUBLISHED", "DRAFT"} /\ SetStatus({row}, status)
      BY <1>1, <2>2 DEF saveArticle
    <3>2. /\ author' = [author EXCEPT ![row] = call[r].user]
          /\ remade' = remade \cup ({row} \cap gone)
          /\ gone' = gone
      BY <1>1, <2>2, <3>1 DEF saveArticle
    <3>3. articles' \subseteq articles \cup {row}
      BY <3>2 DEF articles, TypeOK
    <3>4. row \in published' \cup drafted'
      BY <3>1, StatusSet
    <3> QED
      BY <3>1, <3>2, <3>3, <3>4, StatusSet
  <2> QED
    BY <2>1, <2>2
<1>2. ASSUME NEW r \in Requests, setPublished(r) PROVE Good
  <2>1. /\ SetStatus({Row(r)} \cap articles, "PUBLISHED")
        /\ articles' = articles
        /\ UNCHANGED <<gone, remade>>
    BY <1>2 DEF setPublished, articles
  <2> QED
    BY <2>1, StatusSet
<1>3. ASSUME NEW r \in Requests, updateArticle(r) PROVE Good
  <2>1. UNCHANGED <<gone, remade>>
    BY <1>3 DEF updateArticle
  <2>2. \/ UNCHANGED <<published, statuses>>
        \/ SetStatus({Row(r)} \cap articles, call[r].status)
    BY <1>3 DEF updateArticle
  <2>3. articles' \subseteq articles
    BY <1>3 DEF updateArticle, articles
  <2> QED
    BY <2>1, <2>2, <2>3, StatusSet DEF statuses
<1>4. ASSUME NEW r \in Requests, destroy(r) PROVE Good
  <2>1. PICK rows : rows = {Row(r)} \cap articles
    OBVIOUS
  <2>2. /\ author' = [row \in Rows |-> IF row \in rows THEN NoUser ELSE author[row]]
        /\ published' = published \ rows
        /\ gone' = gone \cup rows
        /\ remade' = remade \ rows
        /\ UNCHANGED statuses
    BY <1>4, <2>1 DEF destroy
  <2>3. articles' = articles \ rows
    BY <2>2 DEF articles
  <2> QED
    BY <2>2, <2>3 DEF statuses
<1>5. ASSUME NEW r \in Requests, attachImageToArticle(r) PROVE Good
  BY <1>5 DEF attachImageToArticle, articles, history, statuses
<1>6. CASE UNCHANGED <<database, statuses, gone, remade, overtaken, strangers>>
  BY <1>6 DEF articles, database, statuses
<1> QED
  BY <1>1, <1>2, <1>3, <1>4, <1>5, <1>6, RowsWritten

\* A publish comes to its end with its article published, or removed.
LEMMA PublishingStep ==
  ASSUME Shape, Publishing, PublishedStays, published \subseteq everPublished, [Next]_vars
  PROVE  /\ Publishing'
         /\ \A q \in Requests :
              pc'[q] = "done" /\ call'[q].op = "publish" => Row(q)' \in everPublished' \cup gone'
<1> SUFFICES ASSUME NEW q \in Requests
             PROVE  /\ pc'[q] = "setPublished" => Row(q)' \in articles' \cup gone'
                    /\ pc'[q] = "saveEntity" => Row(q)' \in everPublished' \cup gone'
                    /\ pc'[q] = "done" /\ call'[q].op = "publish" =>
                         Row(q)' \in everPublished' \cup gone'
  BY DEF Publishing
<1>1. ASSUME pc'[q] = "setPublished" PROVE Row(q)' \in articles' \cup gone'
  <2>1. pc[q] = "setPublished" \/ validateOwnershipOfArticle(q)
    BY <1>1, CameFrom DEF Writing
  <2>2. Row(q) \in articles \cup gone /\ pc[q] # "idle"
    BY <1>1, <2>1 DEF Publishing, validateOwnershipOfArticle, Goto, Shape, TypeOK
  <2> QED
    BY <2>2, RowsKept, CalledOnce
<1>2. ASSUME pc'[q] = "saveEntity" PROVE Row(q)' \in everPublished' \cup gone'
  <2>1. pc[q] # "idle" /\ Row(q) \in everPublished' \cup gone'
    <3>1. CASE pc[q] = "saveEntity"
      BY <3>1, RowsKept DEF Publishing
    <3>2. CASE setPublished(q)
      <4>1. Row(q) \in articles \cup gone /\ SetStatus({Row(q)} \cap articles, "PUBLISHED")
        BY <3>2 DEF setPublished, Publishing
      <4>2. {Row(q)} \cap articles \subseteq everPublished'
        BY <4>1, StatusSet
      <4> QED
        BY <3>2, <4>1, <4>2, RowsKept DEF setPublished
    <3>3. CASE validateOwnershipOfArticle(q)
      <4>1. Row(q) \in published
        BY <1>2, <3>3 DEF validateOwnershipOfArticle, AfterOwnership, Goto, Shape, TypeOK
      <4> QED
        BY <3>3, <4>1, RowsKept DEF validateOwnershipOfArticle
    <3> QED
      BY <1>2, <3>1, <3>2, <3>3, CameFrom
  <2> QED
    BY <2>1, CalledOnce
<1>3. ASSUME pc'[q] = "done", call'[q].op = "publish" PROVE Row(q)' \in everPublished' \cup gone'
  <2>1. pc[q] \in {"saveEntity", "done"} /\ call[q] = call'[q]
    BY <1>3, CameFrom
  <2>2. Row(q) \in everPublished \cup gone
    BY <1>3, <2>1 DEF Publishing, PublishedStays
  <2> QED
    BY <2>1, <2>2, RowsKept, CalledOnce
<1> QED
  BY <1>1, <1>2, <1>3

(***************************************************************************)
(* Who writes what.                                                        *)
(***************************************************************************)
\* Between a check of ownership and the write, the article keeps its author, or
\* goes, or the request is overtaken.
LEMMA CheckedStep == ASSUME Shape, Checked, [Next]_vars PROVE Checked'
<1> SUFFICES ASSUME NEW q \in Requests, pc'[q] \in Writing
             PROVE  author'[Row(q)'] \in {NoUser, call'[q].user} \/ q \in overtaken'
  BY DEF Checked
<1>1. pc[q] = pc'[q] \/ validateOwnershipOfArticle(q)
  BY CameFrom
<1>2. pc[q] # "idle" /\ pc[q] \in OwnerSteps
  BY <1>1 DEF validateOwnershipOfArticle, OwnerSteps, Writing
<1>3. call'[q] = call[q] /\ Row(q)' = Row(q)
  BY <1>2, CalledOnce
<1>4. PICK row \in Rows : row = Row(q)
  BY <1>2, RowTyped DEF Shape
<1>5. PICK user : user = call[q].user
  OBVIOUS
<1>6. author[row] \in {NoUser, user} \/ q \in overtaken
  <2>1. CASE validateOwnershipOfArticle(q)
    <3>1. pc'[q] \in {AfterOwnership(q), "failed"} /\ (pc'[q] # "failed" => Owns(q, Row(q)))
      BY <2>1 DEF validateOwnershipOfArticle, Goto, Shape, TypeOK
    <3> QED
      BY <3>1, <1>4, <1>5 DEF Owns, Writing
  <2>2. CASE pc[q] \in Writing
    BY <2>2, <1>4, <1>5 DEF Checked
  <2> QED
    BY <1>1, <2>1, <2>2
<1> DEFINE Good == author'[row] \in {NoUser, user} \/ q \in overtaken'
<1>7. Good
  <2> USE DEF Shape, TypeOK
  <2>1. ASSUME NEW r \in Requests, saveArticle(r) PROVE Good
    <3>1. q # r /\ pc[q] \in Writing \cup {"validateOwnership"}
      BY <2>1, <1>1 DEF saveArticle, Writing, validateOwnershipOfArticle
    <3>2. pc'[q] = pc[q]
      BY <2>1, <3>1 DEF saveArticle, Goto
    <3>3. pc[q] \in Writing
      BY <3>2
    <3>4. CASE Row(r) \in articles
      BY <2>1, <3>4, <1>6 DEF saveArticle
    <3>5. CASE Row(r) \notin articles /\ Row(r) # row
      <4>1. author' = [author EXCEPT ![Row(r)] = call[r].user] /\ Overtakes(r, {Row(r)}, call[r].user)
        BY <2>1, <3>5 DEF saveArticle
      <4> QED
        BY <4>1, <3>5, <1>6 DEF Overtakes
    <3>6. CASE Row(r) \notin articles /\ Row(r) = row
      <4>1. author' = [author EXCEPT ![row] = call[r].user] /\ Overtakes(r, {row}, call[r].user)
        BY <2>1, <3>6 DEF saveArticle
      <4>2. call[r].user # user => q \in overtaken'
        BY <4>1, <3>1, <3>3, <1>4, <1>5 DEF Overtakes
      <4> QED
        BY <4>1, <4>2
    <3> QED
      BY <3>4, <3>5, <3>6
  <2>2. ASSUME NEW r \in Requests, setPublished(r) PROVE Good
    BY <2>2, <1>6 DEF setPublished
  <2>3. ASSUME NEW r \in Requests, updateArticle(r) PROVE Good
    <3>1. PICK rows, u : rows = {Row(r)} \cap articles /\ u = call[r].author
      OBVIOUS
    <3>2. \/ UNCHANGED <<author, overtaken>>
          \/ /\ author' = [w \in Rows |-> IF w \in rows THEN u ELSE author[w]]
             /\ Overtakes(r, rows, u)
      BY <2>3, <3>1 DEF updateArticle
    <3>3. q # r
      BY <2>3, <1>1 DEF updateArticle, Goto, Writing, validateOwnershipOfArticle
    <3>4. pc[q] \in Writing
      BY <2>3, <3>3 DEF updateArticle, Goto
    <3>5. CASE row \in rows /\ u # user /\ Overtakes(r, rows, u)
      BY <3>3, <3>4, <3>5, <1>4, <1>5 DEF Overtakes
    <3>6. CASE /\ author' = [w \in Rows |-> IF w \in rows THEN u ELSE author[w]]
               /\ Overtakes(r, rows, u)
               /\ ~(row \in rows /\ u # user)
      BY <3>6, <1>6 DEF Overtakes
    <3>7. CASE UNCHANGED <<author, overtaken>>
      BY <3>7, <1>6
    <3> QED
      BY <3>2, <3>5, <3>6, <3>7
  <2>4. ASSUME NEW r \in Requests, destroy(r) PROVE Good
    <3>1. author'[row] \in {NoUser, author[row]} /\ overtaken' = overtaken
      BY <2>4 DEF destroy
    <3> QED
      BY <3>1, <1>6
  <2>5. ASSUME NEW r \in Requests, attachImageToArticle(r) PROVE Good
    BY <2>5, <1>6 DEF attachImageToArticle, history
  <2>6. ASSUME UNCHANGED <<database, statuses, gone, remade, overtaken, strangers>> PROVE Good
    BY <2>6, <1>6 DEF database
  <2> QED
    BY <2>1, <2>2, <2>3, <2>4, <2>5, <2>6, RowsWritten
<1> QED
  BY <1>3, <1>4, <1>5, <1>7

\* Who changes another's article has been overtaken.
LEMMA StrangersStep ==
  ASSUME Shape, Checked, OnlyAuthorsWrite, [Next]_vars
  PROVE  OnlyAuthorsWrite'
<1> DEFINE Good == strangers' \subseteq overtaken'
<1>1. ASSUME NEW r \in Requests, NEW rows, rows = {Row(r)} \cap articles, pc[r] \in Writing,
             Intrudes(r, rows)
      PROVE  Good
  <2>1. (\E row \in rows : author[row] # call[r].user) => r \in overtaken
    BY <1>1 DEF Checked, articles
  <2> QED
    BY <1>1, <2>1, RowsKept DEF Intrudes, OnlyAuthorsWrite
<1>2. ASSUME NEW r \in Requests, setPublished(r) \/ updateArticle(r) \/ destroy(r) PROVE Good
  <2>1. /\ pc[r] \in Writing
        /\ Intrudes(r, {Row(r)} \cap articles) \/ UNCHANGED strangers
    BY <1>2 DEF setPublished, updateArticle, destroy, Writing
  <2> QED
    BY <1>1, <2>1, RowsKept DEF OnlyAuthorsWrite
<1>3. ASSUME NEW r \in Requests, saveArticle(r) \/ attachImageToArticle(r) PROVE Good
  BY <1>3, RowsKept DEF saveArticle, attachImageToArticle, history, OnlyAuthorsWrite
<1>4. ASSUME UNCHANGED <<database, statuses, gone, remade, overtaken, strangers>> PROVE Good
  BY <1>4 DEF OnlyAuthorsWrite
<1>5. Good
  BY <1>2, <1>3, <1>4, RowsWritten
<1> QED
  BY <1>5 DEF OnlyAuthorsWrite

(***************************************************************************)
(* Creates, and lists.                                                     *)
(***************************************************************************)
\* A create that passes its INSERT has stored its article.
LEMMA Stored ==
  ASSUME Shape, [Next]_vars, NEW q \in Requests, saveArticle(q), pc'[q] # "failed"
  PROVE  Row(q) \in articles'
<1>1. Row(q) \in Rows /\ call[q].user \in Users
  BY RowTyped DEF saveArticle, CreateSteps, Shape, Course
<1>2. author' = [author EXCEPT ![Row(q)] = call[q].user]
  BY DEF saveArticle, Goto, Shape, TypeOK
<1> QED
  BY <1>1, <1>2, RowAssumption DEF articles, Shape, TypeOK

\* A create answers when article and image are stored.
LEMMA CreatesStep == ASSUME Shape, Creates, [Next]_vars PROVE Creates'
<1> SUFFICES ASSUME NEW q \in Requests
             PROVE  /\ pc'[q] = "saveImage" => Row(q)' \in articles' \cup gone'
                    /\ pc'[q] = "done" /\ call'[q].op = "create" =>
                         \/ Row(q)' \in gone'
                         \/ Row(q)' \in articles' /\ (call'[q].image => Row(q)' \in images')
  BY DEF Creates
<1>1. ASSUME pc'[q] = "saveImage" PROVE Row(q)' \in articles' \cup gone'
  <2>1. CASE pc[q] = "saveImage"
    BY <2>1, RowsKept, CalledOnce DEF Creates
  <2>2. CASE saveArticle(q)
    BY <1>1, <2>2, Stored, CalledOnce DEF saveArticle
  <2> QED
    BY <1>1, <2>1, <2>2, CameFrom
<1>2. ASSUME pc'[q] = "done", call'[q].op = "create"
      PROVE  \/ Row(q)' \in gone'
             \/ Row(q)' \in articles' /\ (call'[q].image => Row(q)' \in images')
  <2>1. CASE pc[q] = "done" /\ call[q] = call'[q]
    <3>1. Row(q) \in gone \/ (Row(q) \in articles /\ (call[q].image => Row(q) \in images))
      BY <1>2, <2>1 DEF Creates
    <3> QED
      BY <2>1, <3>1, RowsKept, CalledOnce
  <2>2. CASE saveArticle(q) /\ call[q].image # TRUE
    <3>1. call[q].image = FALSE
      BY <2>2, CallFields DEF saveArticle, Shape, Course, CreateSteps
    <3> QED
      BY <1>2, <2>2, <3>1, Stored, CalledOnce DEF saveArticle
  <2>3. CASE attachImageToArticle(q) /\ Row(q) \in articles
    <3>1. Row(q) \in images' /\ articles' = articles
      BY <2>3 DEF attachImageToArticle, articles
    <3> QED
      BY <2>3, <3>1, CalledOnce DEF attachImageToArticle
  <2> QED
    BY <1>2, <2>1, <2>2, <2>3, CameFrom
<1> QED
  BY <1>1, <1>2

\* What is published has been.
LEMMA EverStep ==
  ASSUME published \subseteq everPublished, [Next]_vars
  PROVE  published' \subseteq everPublished'
<1> DEFINE Good == published' \subseteq everPublished'
<1>1. ASSUME NEW r \in Requests, saveArticle(r) PROVE Good
  <2>1. \/ UNCHANGED <<published, statuses>>
        \/ SetStatus({Row(r)}, IF call[r].status = "PUBLISHED" THEN "PUBLISHED" ELSE "DRAFT")
    BY <1>1 DEF saveArticle
  <2> QED
    BY <2>1, StatusSet DEF statuses
<1>2. ASSUME NEW r \in Requests, setPublished(r) PROVE Good
  <2>1. SetStatus({Row(r)} \cap articles, "PUBLISHED")
    BY <1>2 DEF setPublished
  <2> QED
    BY <2>1, StatusSet
<1>3. ASSUME NEW r \in Requests, updateArticle(r) PROVE Good
  <2>1. \/ UNCHANGED <<published, statuses>>
        \/ SetStatus({Row(r)} \cap articles, call[r].status)
    BY <1>3 DEF updateArticle
  <2> QED
    BY <2>1, StatusSet DEF statuses
<1>4. ASSUME NEW r \in Requests, destroy(r) \/ attachImageToArticle(r) PROVE Good
  BY <1>4 DEF destroy, attachImageToArticle, history, statuses
<1>5. ASSUME UNCHANGED <<database, statuses, gone, remade, overtaken, strangers>> PROVE Good
  BY <1>5 DEF database, statuses
<1> QED
  BY <1>1, <1>2, <1>3, <1>4, <1>5, RowsWritten

\* Lists without drafts stay so, on their way to the cache and in it.
LEMMA ListsStep == ASSUME Shape, Lists, [Next]_vars PROVE Lists'
<1> DEFINE Good ==
      /\ cache'["absent"] \subseteq SUBSET everPublished
      /\ \A r \in Requests :
           /\ pc'[r] = "done" /\ call'[r].op = "findAll" /\ call'[r].mine = "absent" =>
                found'[r] \subseteq everPublished
           /\ r \in storing' => pc'[r] = "done" /\ call'[r].op = "findAll"
<1>0. Good => Lists'
  BY EverStep, RowsKept DEF Lists
<1> HIDE DEF Good
<1> USE DEF Shape, TypeOK, Course, Lists, Good, Goto, Calm, CreateSteps, OwnerSteps, Writing,
            ListSteps, OwnerOps
<1>1. ASSUME NEW r \in Requests, Arrive(r) PROVE Good
  BY <1>1, Arrival
<1>2. ASSUME NEW r \in Requests, Step(r) PROVE Good
  <2>1. CASE cacheGet(r)
    BY <2>1 DEF cacheGet, trackBy
  <2>2. CASE findAll(r)
    <3>1. call[r].mine = "absent" => Listed(call[r]) \subseteq everPublished
      BY DEF Listed
    <3> QED
      BY <2>2, <3>1 DEF findAll
  <2>3. CASE cacheSet(r)
    <3>1. call[r].mine = "absent" => {found[r]} \subseteq SUBSET everPublished
      BY <2>3 DEF cacheSet
    <3> QED
      BY <2>3, <3>1, CallFields DEF cacheSet, trackBy, Mine
  <2>4. CASE setPublished(r) \/ updateArticle(r) \/ destroy(r)
    BY <2>4 DEF setPublished, updateArticle, destroy
  <2>5. CASE getUserById(r) \/ saveArticle(r) \/ attachImageToArticle(r)
    BY <2>5 DEF getUserById, saveArticle, attachImageToArticle
  <2>6. CASE validateOwnershipOfArticle(r)
    BY <2>6 DEF validateOwnershipOfArticle, AfterOwnership
  <2>7. CASE saveEntity(r) \/ updateImage(r) \/ findImage(r) \/ findOne(r)
    BY <2>7 DEF saveEntity, updateImage, findImage, findOne
  <2> QED
    BY <1>2, <2>1, <2>2, <2>3, <2>4, <2>5, <2>6, <2>7 DEF Step
<1>3. ASSUME NEW r \in Requests, dbError(r) \/ getUserLost(r) PROVE Good
  BY <1>3 DEF dbError, getUserLost, InProgress
<1>4. ASSUME NEW url \in Mine, expire(url) PROVE Good
  BY <1>4 DEF expire
<1>5. ASSUME crash PROVE Good
  BY <1>5 DEF crash, InProgress
<1>6. ASSUME UNCHANGED vars PROVE Good
  BY <1>6 DEF vars
<1> QED
  BY <1>0, <1>1, <1>2, <1>3, <1>4, <1>5, <1>6, NextCases

(***************************************************************************)
(* The inductive invariant, and what follows from it.                      *)
(***************************************************************************)
\* The conjuncts of IInv support one another, and each step keeps them.
LEMMA IInvStep == IInv /\ [Next]_vars => IInv'
<1> SUFFICES ASSUME IInv, [Next]_vars PROVE IInv'
  OBVIOUS
<1>1. Shape' /\ Checked' /\ OnlyAuthorsWrite' /\ Creates' /\ Lists'
  BY ShapeStep, CheckedStep, StrangersStep, CreatesStep, ListsStep DEF IInv
<1>2. Publishing' /\ PublishedStays'
  BY PublishingStep, StatusStep DEF IInv, Lists, PublishedStays
<1>3. NoResurrection'
  BY StatusStep DEF IInv
<1> QED
  BY <1>1, <1>2, <1>3 DEF IInv

\* IInv holds in every reachable state.
THEOREM Invariance == Spec => []IInv
BY IInvInit, IInvStep, PTL DEF Spec

\* Every variable keeps its type.
THEOREM TypeCorrect == Spec => []TypeOK
<1>1. IInv => TypeOK
  BY DEF IInv, Shape
<1> QED
  BY <1>1, Invariance, PTL

\* A removed article comes back only by a create whose body names its id, whatever
\* publish, update and the saving of an image do at the same time.
THEOREM RemovedStaysAway == Spec => []NoResurrection
<1>1. IInv => NoResurrection
  BY DEF IInv
<1> QED
  BY <1>1, Invariance, PTL

\* A published article stays published until it is removed or a body makes it a
\* draft, and a publish answered with success has published its article, though
\* it may have written nothing, or the article may have changed in between.
THEOREM PublishedForGood == Spec => []PublishedStays
<1>1. IInv => PublishedStays
  BY DEF IInv
<1> QED
  BY <1>1, Invariance, PTL

\* A request changes the article of another author only where an update with
\* author in its body, or a create in the article's place, came between its check of
\* ownership and its write.
THEOREM AuthorsOnly == Spec => []OnlyAuthorsWrite
<1>1. IInv => OnlyAuthorsWrite
  BY DEF IInv
<1> QED
  BY <1>1, Invariance, PTL

\* A create that was answered with success is complete or removed.
THEOREM CreatesWhole == Spec => []AnsweredCreatesAreWhole
<1>1. IInv => AnsweredCreatesAreWhole
  BY DEF IInv, Creates, AnsweredCreatesAreWhole
<1> QED
  BY <1>1, Invariance, PTL

\* No draft is in a plain list, although drafts are in the cache.
THEOREM NoDraftListed == Spec => []PlainListsShowPublished
<1>1. IInv => PlainListsShowPublished
  BY DEF IInv, Lists, PlainListsShowPublished
<1> QED
  BY <1>1, Invariance, PTL
=============================================================================
