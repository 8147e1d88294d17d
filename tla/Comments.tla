------------------------------ MODULE Comments ------------------------------
(***************************************************************************)
(* The comment side of the blog service: TenantGqlInterceptor,             *)
(* CommentResolver and CommentService, with the tables they write.         *)
(*                                                                         *)
(* Node runs one turn of a handler at a time, and a turn ends at the next  *)
(* await of a database statement.  So a request is either waiting for      *)
(* PostgreSQL to execute its statement (r \in sent) or for its next turn   *)
(* (the statement is executed and rows[r] holds what it returned), and     *)
(* other requests run in both gaps.  CommentService is one object for all  *)
(* of them: its field tenantId is read again at every turn, while the      *)
(* statement on its way keeps the schema it was built with.                *)
(***************************************************************************)
EXTENDS Integers, FiniteSets, Nesting

CONSTANTS
  Requests,      \* GraphQL operations; r is also the uuid of the row r inserts
  TenantNames,   \* tenant ids, which a client may send as x-api-key
  SchemaNames,   \* names of the form tenant_<id>, which it may send as well
  Prefixed,      \* the function from <id> to tenant_<id>
  Schemas,       \* the schemas that exist in the database
  Users, UserHome,        \* users and the schema each is stored in
  Articles, ArticleHome,  \* articles and the schema each is stored in
  Seeds, SeedArticle,     \* comments stored at the start, and their articles
  Calls,         \* what clients may ask for
  Happens,       \* what may befall the service, from {"crash", "dbError", "removal"}
  NoKey, NoSchema, NoUser, NoCall

CommentIds == Seeds \cup Requests

RateCalls == [op : {"rateComment"}, key : TenantNames \cup SchemaNames \cup {NoKey},
              token : BOOLEAN, user : Users, comment : CommentIds, isUpvote : BOOLEAN]
CreateCalls == [op : {"createComment"}, key : TenantNames \cup SchemaNames \cup {NoKey},
                token : BOOLEAN, user : Users, article : Articles,
                parentId : CommentIds \cup {NoComment}]
ListCalls == [op : {"getComments"}, key : TenantNames \cup SchemaNames \cup {NoKey},
              token : BOOLEAN, user : Users \cup {NoUser}, article : Articles]
SubscribeCalls == [op : {"subscribe"}, key : TenantNames \cup SchemaNames \cup {NoKey},
                   token : BOOLEAN]

ASSUME SchemaAssumption ==
  /\ Schemas \subseteq SchemaNames
  /\ TenantNames \cap SchemaNames = {}
  /\ Prefixed \in [TenantNames -> SchemaNames]
  /\ NoSchema \notin SchemaNames
  /\ NoKey \notin TenantNames \cup SchemaNames

ASSUME RowAssumption ==
  /\ IsFiniteSet(Requests)
  /\ Requests \cap Seeds = {}
  /\ NoComment \notin CommentIds
  /\ NoUser \notin Users
  /\ UserHome \in [Users -> Schemas]
  /\ ArticleHome \in [Articles -> Schemas]
  /\ SeedArticle \in [Seeds -> Articles]

ASSUME CallAssumption ==
  /\ Calls \subseteq RateCalls \cup CreateCalls \cup ListCalls \cup SubscribeCalls
  /\ NoCall \notin Calls

VARIABLES
  tenantId,      \* CommentService.tenantId
  articles,      \* articles stored, of all schemas
  comments,      \* comments[s]: rows of s.Comment
  parentId,      \* column parentId of a comment
  ratingScore,   \* column ratingScore of a comment
  ratings,       \* ratings[s]: rows of s.Rating; their columns are in call
  call,          \* what a request asked for
  pc,            \* the await a request has reached
  schema,        \* the schema its statement was built with
  sent,          \* requests whose statement is not executed yet
  rows,          \* what the executed statement returned
  listed,        \* getComments: the comments found
  shown,         \* getComments: those that are part of the nested answer
  canVote,       \* getComments: those the answer says the user may vote on
  before,        \* history: the requests that had ended when this one began
  adjusted,      \* history: the ratings that changed a ratingScore
  events         \* what was published, with the subscribers it reached

database == <<articles, comments, parentId, ratingScore, ratings>>
answer   == <<listed, shown, canVote>>
history  == <<before, adjusted, events>>
vars == <<tenantId, database, call, pc, schema, sent, rows, answer, history>>

(***************************************************************************)
(* Columns.  A uuid never repeats, so the columns of a row are functions   *)
(* of its id; the tables are the sets of the ids they hold.                *)
(***************************************************************************)
ArticleOf(c) == IF c \in Seeds THEN SeedArticle[c] ELSE call[c].article
Home(c) == ArticleHome[ArticleOf(c)]
SameVote(q, r) == call[q].user = call[r].user /\ call[q].comment = call[r].comment
Rated(r) == call[r] # NoCall /\ call[r].op = "rateComment"

Statements == {"checkTenant", "findRating", "saveRating", "adjustScore", "refetch",
               "saveComment", "findComments", "findRated"}
Ended == {"done", "failed", "lost"}

Init ==
  /\ tenantId = NoSchema
  /\ articles = Articles
  /\ comments = [s \in Schemas |-> {c \in Seeds : ArticleHome[SeedArticle[c]] = s}]
  /\ parentId = [c \in CommentIds |-> NoComment]
  /\ ratingScore = [c \in CommentIds |-> 0]
  /\ ratings = [s \in Schemas |-> {}]
  /\ call = [r \in Requests |-> NoCall]
  /\ pc = [r \in Requests |-> "idle"]
  /\ schema = [r \in Requests |-> NoSchema]
  /\ sent = {}
  /\ rows = [r \in Requests |-> {}]
  /\ listed = [r \in Requests |-> {}]
  /\ shown = [r \in Requests |-> {}]
  /\ canVote = [r \in Requests |-> {}]
  /\ before = [r \in Requests |-> {}]
  /\ adjusted = {}
  /\ events = {}

(***************************************************************************)
(* The two halves of an await, and the end of a request.                   *)
(***************************************************************************)
Asked(r, step) == pc[r] = step /\ r \in sent
Answered(r, step) == pc[r] = step /\ r \notin sent

Await(r, step, s) ==
  /\ pc' = [pc EXCEPT ![r] = step]
  /\ schema' = [schema EXCEPT ![r] = s]
  /\ sent' = sent \cup {r}
  /\ rows' = [rows EXCEPT ![r] = {}]

Answer(r, R) ==
  /\ sent' = sent \ {r}
  /\ rows' = [rows EXCEPT ![r] = R]
  /\ UNCHANGED <<pc, schema, call, tenantId, answer, before>>

End(r, how) ==
  /\ pc' = [pc EXCEPT ![r] = how]
  /\ schema' = [schema EXCEPT ![r] = NoSchema]
  /\ sent' = sent \ {r}
  /\ rows' = [rows EXCEPT ![r] = {}]

\* A turn of the handler that touches neither the database nor the shared field.
Turn == UNCHANGED <<tenantId, database, call, answer, history>>

(***************************************************************************)
(* The way in: AuthGqlGuard, TenantGqlInterceptor, handleTenantId.         *)
(***************************************************************************)
formatTenantId(key) == IF key \in TenantNames THEN Prefixed[key] ELSE key

\* A client refers to rows it was shown under the same x-api-key.
Known(c) ==
  LET s == formatTenantId(c.key) IN
  s \in Schemas =>
    /\ c.op \in {"rateComment", "createComment"} => UserHome[c.user] = s
    /\ c.op = "rateComment" => c.comment \in comments[s]
    /\ c.op = "createComment" =>
         /\ ArticleHome[c.article] = s
         /\ c.parentId \in comments[s] \cup {NoComment}
    /\ c.op = "getComments" =>
         /\ ArticleHome[c.article] = s
         /\ c.user # NoUser => UserHome[c.user] = s

isPublic(op) == op \in {"getComments", "subscribe"}

Arrive(r) ==
  /\ pc[r] = "idle"
  /\ \E c \in Calls :
       /\ Known(c)
       /\ call' = [call EXCEPT ![r] = c]
       /\ IF (c.token \/ isPublic(c.op)) /\ c.key # NoKey
          THEN Await(r, "checkTenant", NoSchema)
          ELSE End(r, "failed")
  /\ before' = [before EXCEPT ![r] = {q \in Requests : pc[q] \in Ended}]
  /\ UNCHANGED <<tenantId, database, answer, adjusted, events>>

Key(r) == formatTenantId(call[r].key)

FirstStatement(op) ==
  CASE op = "rateComment" -> "findRating"
    [] op = "createComment" -> "saveComment"
    [] op = "getComments" -> "findComments"
    [] OTHER -> "subscribed"

(***************************************************************************)
(* Mutants: what plausible mistakes would make of the actions below.  No   *)
(* specification uses them; each shows that a property notices.            *)
(***************************************************************************)
\* The field keeps the header as it came.
handleTenantIdUnformatted(r) ==
  /\ Answered(r, "checkTenant")
  /\ rows[r] # {}
  /\ tenantId' = call[r].key
  /\ IF call[r].op = "subscribe" THEN End(r, "subscribed")
                                 ELSE Await(r, FirstStatement(call[r].op), Key(r))
  /\ UNCHANGED <<database, call, answer, history>>

\* The earlier rating is fetched and not looked at.
buildRatingAnyway(r) ==
  /\ Answered(r, "findRating")
  /\ Await(r, "saveRating", tenantId)
  /\ Turn

\* The increment is sent again when its answer is slow.
refetchOrRetry(r) ==
  /\ Answered(r, "adjustScore")
  /\ \E step \in {"adjustScore", "refetch"} : Await(r, step, tenantId)
  /\ Turn

\* The score is adjusted and the rating never saved.
buildRatingUnsaved(r) ==
  /\ Answered(r, "findRating")
  /\ rows[r] = {}
  /\ Await(r, "adjustScore", tenantId)
  /\ Turn

\* The tables have no foreign keys.
execSaveRatingUnchecked(r) ==
  /\ Asked(r, "saveRating")
  /\ ratings' = [ratings EXCEPT ![schema[r]] = @ \cup {r}]
  /\ Answer(r, {r})
  /\ UNCHANGED <<articles, comments, parentId, ratingScore, adjusted, events>>

\* The rejection of a rating that cannot be saved is not passed on.
saveRefusedOnlyForComments(r) ==
  /\ Answered(r, "saveComment")
  /\ rows[r] = {}
  /\ End(r, "failed")
  /\ Turn

\* A downvote does not decrement.
adjustScoreOnlyUp(r) ==
  /\ Answered(r, "saveRating")
  /\ rows[r] # {}
  /\ Await(r, IF call[r].isUpvote THEN "adjustScore" ELSE "refetch", tenantId)
  /\ Turn

\* A downvote increments.
execAdjustScoreAlwaysUp(r) ==
  /\ Asked(r, "adjustScore")
  /\ LET c == call[r].comment IN
       IF c \in comments[schema[r]]
       THEN /\ ratingScore' = [ratingScore EXCEPT ![c] = @ + 1]
            /\ adjusted' = adjusted \cup {r}
       ELSE UNCHANGED <<ratingScore, adjusted>>
  /\ Answer(r, {})
  /\ UNCHANGED <<articles, comments, parentId, ratings, events>>

\* The comment is fetched without waiting for its score to be adjusted.
execRefetchUnawaited(r) ==
  /\ Asked(r, "refetch")
  /\ Answer(r, {ratingScore[c] + (IF call[r].isUpvote THEN -1 ELSE 1) :
                  c \in {call[r].comment} \cap comments[schema[r]]})
  /\ UNCHANGED <<database, adjusted, events>>

\* The test of annotateCommentsWithCanVote loses its negation.
canVoteNegated(r) ==
  /\ Answered(r, "findRated")
  /\ canVote' = [canVote EXCEPT ![r] = shown[r] \cap rows[r]]
  /\ End(r, "done")
  /\ UNCHANGED <<tenantId, database, call, listed, shown, history>>

\* rateComment carries on when the increment fails.
dbErrorSwallowed(r) ==
  /\ "dbError" \in Happens
  /\ pc[r] \in Statements
  /\ IF pc[r] = "adjustScore" THEN Await(r, "refetch", tenantId) ELSE End(r, "failed")
  /\ Turn

checkTenantExists(r) ==
  /\ Asked(r, "checkTenant")
  /\ Answer(r, {Key(r)} \cap Schemas)
  /\ UNCHANGED <<database, adjusted, events>>

TenantUnknown(r) ==
  /\ Answered(r, "checkTenant")
  /\ rows[r] = {}
  /\ End(r, "failed")
  /\ Turn

\* setTenantId, and the handler up to its first statement: only promise
\* continuations run in between, which Node drains before the next I/O.
handleTenantId(r) ==
  /\ Answered(r, "checkTenant")
  /\ rows[r] # {}
  /\ tenantId' = Key(r)
  /\ IF call[r].op = "subscribe" THEN End(r, "subscribed")
                                 ELSE Await(r, FirstStatement(call[r].op), tenantId')
  /\ UNCHANGED <<database, call, answer, history>>

(***************************************************************************)
(* rateComment.                                                            *)
(***************************************************************************)
execFindRating(r) ==
  /\ Asked(r, "findRating")
  /\ Answer(r, {q \in ratings[schema[r]] : SameVote(q, r)})
  /\ UNCHANGED <<database, adjusted, events>>

alreadyRated(r) ==
  /\ Answered(r, "findRating")
  /\ rows[r] # {}
  /\ End(r, "failed")
  /\ Turn

buildRating(r) ==
  /\ Answered(r, "findRating")
  /\ rows[r] = {}
  /\ Await(r, "saveRating", tenantId)
  /\ Turn

\* saveEntity: the foreign keys to User and Comment are those of one schema.
execSaveRating(r) ==
  /\ Asked(r, "saveRating")
  /\ LET s == schema[r]
         stored == UserHome[call[r].user] = s /\ call[r].comment \in comments[s] IN
       /\ ratings' = IF stored THEN [ratings EXCEPT ![s] = @ \cup {r}] ELSE ratings
       /\ Answer(r, IF stored THEN {r} ELSE {})
  /\ UNCHANGED <<articles, comments, parentId, ratingScore, adjusted, events>>

saveRefused(r) ==
  /\ \E step \in {"saveRating", "saveComment"} : Answered(r, step)
  /\ rows[r] = {}
  /\ End(r, "failed")
  /\ Turn

adjustScore(r) ==
  /\ Answered(r, "saveRating")
  /\ rows[r] # {}
  /\ Await(r, "adjustScore", tenantId)
  /\ Turn

\* UPDATE ... SET ratingScore = ratingScore +/- 1 WHERE id = commentId
execAdjustScore(r) ==
  /\ Asked(r, "adjustScore")
  /\ LET c == call[r].comment IN
       IF c \in comments[schema[r]]
       THEN /\ ratingScore' = [ratingScore EXCEPT ![c] =
                                 IF call[r].isUpvote THEN @ + 1 ELSE @ - 1]
            /\ adjusted' = adjusted \cup {r}
       ELSE UNCHANGED <<ratingScore, adjusted>>
  /\ Answer(r, {})
  /\ UNCHANGED <<articles, comments, parentId, ratings, events>>

refetch(r) ==
  /\ Answered(r, "adjustScore")
  /\ Await(r, "refetch", tenantId)
  /\ Turn

execRefetch(r) ==
  /\ Asked(r, "refetch")
  /\ Answer(r, {ratingScore[c] : c \in {call[r].comment} \cap comments[schema[r]]})
  /\ UNCHANGED <<database, adjusted, events>>

refetchFailed(r) ==
  /\ Answered(r, "refetch")
  /\ rows[r] = {}
  /\ End(r, "failed")
  /\ Turn

\* The in-process PubSub calls every open subscription, whatever its tenant.
publish(kind, r, comment, score) ==
  events' = events \cup
    {[kind |-> kind, by |-> r, comment |-> comment, score |-> score,
      to |-> {q \in Requests : pc[q] = "subscribed"}]}

publishRated(r) ==
  /\ Answered(r, "refetch")
  /\ \E score \in rows[r] : publish("commentRated", r, call[r].comment, score)
  /\ End(r, "done")
  /\ UNCHANGED <<tenantId, database, call, answer, before, adjusted>>

(***************************************************************************)
(* createComment.                                                          *)
(***************************************************************************)
execSaveComment(r) ==
  /\ Asked(r, "saveComment")
  /\ LET s == schema[r]
         c == call[r]
         stored == /\ c.article \in articles /\ ArticleHome[c.article] = s
                   /\ UserHome[c.user] = s
                   /\ c.parentId \in comments[s] \cup {NoComment} IN
       /\ comments' = IF stored THEN [comments EXCEPT ![s] = @ \cup {r}] ELSE comments
       /\ parentId' = IF stored THEN [parentId EXCEPT ![r] = c.parentId] ELSE parentId
       /\ Answer(r, IF stored THEN {r} ELSE {})
  /\ UNCHANGED <<articles, ratingScore, ratings, adjusted, events>>

publishCreated(r) ==
  /\ Answered(r, "saveComment")
  /\ rows[r] # {}
  /\ publish("commentCreated", r, r, 0)
  /\ End(r, "done")
  /\ UNCHANGED <<tenantId, database, call, answer, before, adjusted>>

(***************************************************************************)
(* getComments.                                                            *)
(***************************************************************************)
execFindComments(r) ==
  /\ Asked(r, "findComments")
  /\ Answer(r, {[id |-> c, parentId |-> parentId[c]] :
                  c \in {d \in comments[schema[r]] : ArticleOf(d) = call[r].article}})
  /\ UNCHANGED <<database, adjusted, events>>

currentUser(r) == IF call[r].token THEN call[r].user ELSE NoUser

listComments(r) ==
  /\ Answered(r, "findComments")
  /\ listed' = [listed EXCEPT ![r] = Ids(rows[r])]
  /\ shown' = [shown EXCEPT ![r] = nestComments(rows[r])]
  /\ IF currentUser(r) = NoUser THEN End(r, "done")
                                ELSE Await(r, "findRated", tenantId)
  /\ UNCHANGED <<tenantId, database, call, canVote, history>>

execFindRated(r) ==
  /\ Asked(r, "findRated")
  /\ Answer(r, {c \in listed[r] : \E q \in ratings[schema[r]] :
                  call[q].comment = c /\ call[q].user = currentUser(r)})
  /\ UNCHANGED <<database, adjusted, events>>

annotateCommentsWithCanVote(r) ==
  /\ Answered(r, "findRated")
  /\ canVote' = [canVote EXCEPT ![r] = shown[r] \ rows[r]]
  /\ End(r, "done")
  /\ UNCHANGED <<tenantId, database, call, listed, shown, history>>

(***************************************************************************)
(* What happens around the service.                                        *)
(***************************************************************************)
\* A statement fails, or its answer is lost with the connection: the promise
\* is rejected and no handler catches the rejection to undo earlier steps.
dbError(r) ==
  /\ "dbError" \in Happens
  /\ pc[r] \in Statements
  /\ End(r, "failed")
  /\ Turn

\* The process dies and is started again: requests, subscriptions and the
\* field tenantId live in its memory.
crash ==
  /\ "crash" \in Happens
  /\ \E r \in Requests : pc[r] \in Statements
  /\ pc' = [r \in Requests |-> IF pc[r] \in Statements \cup {"subscribed"}
                               THEN "lost" ELSE pc[r]]
  /\ schema' = [r \in Requests |-> NoSchema]
  /\ sent' = {}
  /\ rows' = [r \in Requests |-> {}]
  /\ tenantId' = NoSchema
  /\ UNCHANGED <<database, call, answer, history>>

\* The comments in top, and all replies below them.
thread(s, top) ==
  {c \in comments[s] : \A tree \in SUBSET comments[s] :
     (\A d \in comments[s] : d \in top \/ parentId[d] \in tree => d \in tree) => c \in tree}

\* ArticleService.remove deletes the comments of the article and their ratings
\* in cascade.  A reply under another article goes too in a schema made by the
\* migration (ON DELETE CASCADE); in one made by Sequelize, where the nullable
\* parent is declared before the children, it loses its parent.
removeArticle(a) ==
  /\ "removal" \in Happens
  /\ a \in articles
  /\ LET s == ArticleHome[a]
         under == {c \in comments[s] : ArticleOf(c) = a} IN
       \E gone \in {under, thread(s, under)} :
         /\ articles' = articles \ {a}
         /\ comments' = [comments EXCEPT ![s] = @ \ gone]
         /\ ratings' = [ratings EXCEPT ![s] = {q \in @ : call[q].comment \notin gone}]
         /\ parentId' = [c \in CommentIds |-> IF parentId[c] \in gone THEN NoComment
                                                                      ELSE parentId[c]]
  /\ UNCHANGED <<tenantId, ratingScore, call, pc, schema, sent, rows, answer, history>>

Execute(r) ==
  \/ checkTenantExists(r) \/ execFindRating(r) \/ execSaveRating(r)
  \/ execAdjustScore(r) \/ execRefetch(r) \/ execSaveComment(r)
  \/ execFindComments(r) \/ execFindRated(r)

Resume(r) ==
  \/ TenantUnknown(r) \/ handleTenantId(r)
  \/ alreadyRated(r) \/ buildRating(r) \/ saveRefused(r) \/ adjustScore(r)
  \/ refetch(r) \/ refetchFailed(r) \/ publishRated(r)
  \/ publishCreated(r) \/ listComments(r) \/ annotateCommentsWithCanVote(r)

Next ==
  \/ \E r \in Requests : Arrive(r) \/ Execute(r) \/ Resume(r) \/ dbError(r)
  \/ crash
  \/ \E a \in Articles : removeArticle(a)

\* PostgreSQL answers every statement and Node gives every ready handler a turn.
Fairness == \A r \in Requests : WF_vars(Execute(r) \/ Resume(r))

Spec == Init /\ [][Next]_vars
FairSpec == Spec /\ Fairness

(***************************************************************************)
(* Properties.                                                             *)
(***************************************************************************)
\* Every variable holds a value of its kind.  rows is typed per statement by
\* RowsTyped, in the proofs, which need it.
TypeOK ==
  /\ tenantId \in Schemas \cup {NoSchema}
  /\ articles \subseteq Articles
  /\ comments \in [Schemas -> SUBSET CommentIds]
  /\ parentId \in [CommentIds -> CommentIds \cup {NoComment}]
  /\ ratingScore \in [CommentIds -> Int]
  /\ ratings \in [Schemas -> SUBSET Requests]
  /\ call \in [Requests -> Calls \cup {NoCall}]
  /\ pc \in [Requests -> Statements \cup Ended \cup {"idle", "subscribed"}]
  /\ schema \in [Requests -> Schemas \cup {NoSchema}]
  /\ sent \subseteq Requests
  /\ listed \in [Requests -> SUBSET CommentIds]
  /\ shown \in [Requests -> SUBSET CommentIds]
  /\ canVote \in [Requests -> SUBSET CommentIds]
  /\ before \in [Requests -> SUBSET Requests]
  /\ adjusted \subseteq Requests

Votes(s, c, up) == {r \in ratings[s] : call[r].comment = c /\ call[r].isUpvote = up}

\* The ratingScore shown with a comment is never more than its upvotes, nor
\* less than minus its downvotes: increment and decrement (comment.service.ts
\* 300-308) run at most once per stored rating and only after it is stored,
\* whatever requests interleave, statements fail or tenants mix.
ScoreWithinVotes ==
  \A s \in Schemas : \A c \in comments[s] :
    /\ ratingScore[c] <= Cardinality(Votes(s, c, TRUE))
    /\ -ratingScore[c] <= Cardinality(Votes(s, c, FALSE))

\* The tables of a tenant hold only what its own requests inserted.  The shared
\* field can send the INSERT of one tenant to the schema of another, where the
\* foreign keys of comment.model.ts and rating.model.ts refuse it.
RowsStayHome ==
  \A s \in Schemas : \A r \in Requests :
    r \in ratings[s] \cup comments[s] => Key(r) = s

\* Two ratings of one user for one comment come only from requests that
\* overlapped: a request that began after the other had ended finds the rating
\* (comment.service.ts 283-294), in the schema where it is, and refuses.
OnlyOverlappingDoubleVotes ==
  \A s \in Schemas : \A q, r \in ratings[s] :
    q # r /\ SameVote(q, r) => q \notin before[r]

\* Saved ratings whose adjustment has not been executed, or never will be.
Uncounted == {r \in Requests : \/ pc[r] = "saveRating" \/ Asked(r, "adjustScore")
                               \/ pc[r] \in {"failed", "lost"} /\ r \notin adjusted}

\* With one tenant the score of a comment is at every moment the balance of its
\* ratings, save those whose request has yet to adjust it, or was told of a
\* failure before it did.
ScoreAccountsForVotes ==
  \A s \in Schemas : \A c \in comments[s] :
    ratingScore[c] = Cardinality(Votes(s, c, TRUE) \ Uncounted)
                       - Cardinality(Votes(s, c, FALSE) \ Uncounted)

\* A commentRated event (322) tells of a rating that did change the score, also
\* when statements fail, articles go and the process restarts.  One tenant.
AnnouncedVotesCounted ==
  \A e \in events : e.kind = "commentRated" => e.by \in adjusted

\* Events of two ratings may be published in either order, but once the ratings
\* in progress are over, and all that were saved went well, one of the events
\* carries the score that is stored.  One tenant.
FinalScoreAnnounced ==
  (\A r \in Requests : Rated(r) => pc[r] \in Ended) =>
    \A s \in Schemas : \A c \in comments[s] :
      LET raters == {r \in ratings[s] : call[r].comment = c} IN
        raters # {} /\ (\A r \in raters : pc[r] = "done") =>
          \E e \in events : /\ e.kind = "commentRated" /\ e.comment = c
                            /\ e.score = ratingScore[c]

\* getComments never tells a user to vote on a comment the user had rated
\* before the query began (173-191).  One tenant.
EarlierVotesShown ==
  \A r \in Requests : \A s \in Schemas : \A q \in ratings[s] :
    Rated(q) /\ q \in before[r] /\ call[r] # NoCall /\ call[r].op = "getComments"
      /\ call[q].user = call[r].user => call[q].comment \notin canVote[r]

\* A rating that was saved gets counted in the score, unless its comment goes or
\* the user is told of a failure.  One tenant, no crash.
VotesGetCounted ==
  \A r \in Requests :
    (\E s \in Schemas : r \in ratings[s]) ~>
      (r \in adjusted \/ pc[r] = "failed" \/ \A s \in Schemas : r \notin ratings[s])

\* Every request ends, whatever the others do: no turn waits for another request.
RequestsEnd ==
  \A r \in Requests : (pc[r] \in Statements) ~> (pc[r] \in Ended \cup {"subscribed"})

\* Voting keeps what VoteLedger promises, whatever happens: the ratings of a
\* comment are cast, then counted once, and closed before a later one of the same
\* user may be refused.  A tally goes on when its comment is removed.
Ledger == INSTANCE VoteLedger WITH
  Ballots  <- Requests,
  Voters   <- Users,
  Comments <- CommentIds,
  NoBallot <- NoCall,
  votes    <- [r \in Requests |->
                IF Rated(r) THEN [voter |-> call[r].user, comment |-> call[r].comment,
                                  up |-> call[r].isUpvote] ELSE NoCall],
  standing <- UNION {ratings[s] : s \in Schemas},
  counted  <- adjusted,
  closed   <- {r \in Requests : Rated(r) /\ pc[r] \in Ended},
  earlier  <- [r \in Requests |-> IF Rated(r) THEN {q \in before[r] : Rated(q)} ELSE {}],
  tally    <- ratingScore

VotingKeepsLedger == Ledger!Spec

(***************************************************************************)
(* What the source says and the code does not keep.                        *)
(***************************************************************************)
\* "User has already rated this comment" (293): no user rates a comment twice.
OneRatingPerUser ==
  \A s \in Schemas : \A q, r \in ratings[s] : SameVote(q, r) => q = r

\* README.md 36: the x-api-key of a request says which tenant it uses.  Every
\* statement of a request is built with the schema of that tenant.
StatementsStayInTenant ==
  \A r \in Requests : pc[r] \in Statements \ {"checkTenant"} => schema[r] = Key(r)

=============================================================================
