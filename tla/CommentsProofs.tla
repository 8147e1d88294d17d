--------------------------- MODULE CommentsProofs ---------------------------
(***************************************************************************)
(* Theorems about Comments, for every set of requests, tenants, calls and  *)
(* mishaps.                                                                *)
(***************************************************************************)
EXTENDS Comments, FiniteSetTheorems, TLAPS

Started == Statements \ {"checkTenant"}
RatingSteps == {"findRating", "saveRating", "adjustScore", "refetch"}

\* What a request is doing fits what it was called for.
CallsFit ==
  \A r \in Requests :
    /\ pc[r] = "idle" <=> call[r] = NoCall
    /\ pc[r] \in RatingSteps => call[r].op = "rateComment"
    /\ pc[r] = "saveComment" => call[r].op = "createComment"
    /\ pc[r] \in {"findComments", "findRated"} => call[r].op = "getComments"

\* A statement is built with the schema of a known tenant.  The first statement
\* of a request is built in the turn that sets tenantId, so with its own.
SchemasFit ==
  \A r \in Requests :
    /\ Answered(r, "checkTenant") /\ rows[r] # {} => Key(r) \in Schemas
    /\ pc[r] \in Started => /\ tenantId \in Schemas
                            /\ schema[r] \in Schemas
                            /\ Key(r) \in Schemas
    /\ pc[r] \in {"findRating", "saveComment"} => schema[r] = Key(r)

RowsTyped ==
  /\ rows = [r \in Requests |-> rows[r]]
  /\ \A r \in Requests : pc[r] = "findComments" => \A row \in rows[r] : row.id \in CommentIds

\* The id c has been given to a row.
Inserted(c) ==
  \/ c \in Seeds
  \/ /\ c \in Requests
     /\ call[c] # NoCall /\ call[c].op = "createComment"
     /\ pc[c] # "checkTenant"
     /\ ~Asked(c, "saveComment")

CommentsAtHome ==
  \A s \in Schemas : \A c \in comments[s] :
    Inserted(c) /\ Home(c) = s /\ (c \in Requests => Key(c) = s)

RefersHome(r) ==
  /\ call[r].op = "rateComment" => /\ UserHome[call[r].user] = Key(r)
                                   /\ Inserted(call[r].comment)
                                   /\ Home(call[r].comment) = Key(r)
  /\ call[r].op = "createComment" => ArticleHome[call[r].article] = Key(r)

ReferencesAtHome ==
  \A r \in Requests : call[r] # NoCall /\ Key(r) \in Schemas => RefersHome(r)

RatingsAtHome ==
  \A s \in Schemas : \A r \in ratings[s] :
    /\ Rated(r) /\ Key(r) = s
    /\ call[r].comment \in comments[s]
    /\ pc[r] \notin {"checkTenant", "findRating"}
    /\ ~Asked(r, "saveRating")

\* The rating of r is stored, unless its comment has gone and taken it along.
StoredWithComment(r) ==
  call[r].comment \in comments[Key(r)] => r \in ratings[Key(r)]

SavedBeforeAdjusting ==
  \A r \in Requests :
    pc[r] = "adjustScore" \/ (Answered(r, "saveRating") /\ rows[r] # {}) => StoredWithComment(r)

AdjustedOnce ==
  \A r \in adjusted :
    /\ Rated(r) /\ Key(r) \in Schemas
    /\ pc[r] \in Ended \cup {"refetch"} \/ Answered(r, "adjustScore")
    /\ StoredWithComment(r)

Counted(c, up) == {r \in adjusted : call[r].comment = c /\ call[r].isUpvote = up}

ScoreIsCount ==
  \A c \in CommentIds :
    ratingScore[c] = Cardinality(Counted(c, TRUE)) - Cardinality(Counted(c, FALSE))

BeforeEnded == \A r \in Requests : \A q \in before[r] : pc[q] \in Ended

\* r has looked for an earlier rating of its user and found none.
FoundNone(r) ==
  \/ pc[r] \in {"saveRating", "adjustScore", "refetch"}
  \/ Answered(r, "findRating") /\ rows[r] = {}
  \/ \E s \in Schemas : r \in ratings[s]

NoEarlierVote ==
  \A r \in Requests : FoundNone(r) =>
    \A s \in Schemas : \A q \in ratings[s] : q \in before[r] => ~SameVote(q, r)

Shape == TypeOK /\ CallsFit /\ SchemasFit /\ RowsTyped
Homes == CommentsAtHome /\ ReferencesAtHome /\ RatingsAtHome
Scores == SavedBeforeAdjusting /\ AdjustedOnce /\ ScoreIsCount
Overlap == BeforeEnded /\ NoEarlierVote

IInv == Shape /\ Homes /\ Scores /\ Overlap

(***************************************************************************)
(* Facts about the operators.                                              *)
(***************************************************************************)
\* A call has the fields of its operation.
LEMMA CallFields ==
  ASSUME NEW c \in Calls
  PROVE  /\ c # NoCall
         /\ c.op = "rateComment" =>
              c.user \in Users /\ c.comment \in CommentIds /\ c.isUpvote \in BOOLEAN
         /\ c.op = "createComment" =>
              c.user \in Users /\ c.article \in Articles /\ c.parentId \in CommentIds \cup {NoComment}
         /\ c.op = "getComments" => c.article \in Articles
BY CallAssumption DEF RateCalls, CreateCalls, ListCalls, SubscribeCalls

\* The nested answer holds only comments that were found.
LEMMA NestedWereFound == ASSUME NEW found PROVE nestComments(found) \subseteq Ids(found)
BY DEF nestComments, Ids

(***************************************************************************)
(* Every step keeps the shape of the state.                                *)
(***************************************************************************)
\* The program starts in the shape the steps keep.
LEMMA ShapeInit == Init => Shape
BY SchemaAssumption, RowAssumption
DEF Init, Shape, TypeOK, CallsFit, SchemasFit, RowsTyped, CommentIds, Statements, Ended,
    Started, RatingSteps, Answered


\* A step of one request leaves the locals of the others alone.
SameLocals(q) ==
  /\ pc'[q] = pc[q] /\ schema'[q] = schema[q] /\ rows'[q] = rows[q]
  /\ call'[q] = call[q] /\ before'[q] = before[q]
  /\ q \in sent' <=> q \in sent

Step(r) == Arrive(r) \/ Execute(r) \/ Resume(r) \/ dbError(r)

\* A step of one request changes the locals of no other.
LEMMA OthersUndisturbed ==
  ASSUME Shape, NEW r \in Requests, Step(r), NEW q \in Requests, q # r
  PROVE  SameLocals(q)
<1> USE DEF Shape, TypeOK, RowsTyped, SameLocals, database, answer, history
<1>1. CASE Arrive(r)
  BY <1>1 DEF Arrive, Await, End
<1>2. CASE Execute(r)
  BY <1>2 DEF Execute, Answer, checkTenantExists, execFindRating, execSaveRating, execAdjustScore,
              execRefetch, execSaveComment, execFindComments, execFindRated
<1>3. CASE Resume(r)
  BY <1>3 DEF Resume, Await, End, Turn, TenantUnknown, handleTenantId, alreadyRated, buildRating,
              saveRefused, adjustScore, refetch, refetchFailed, publishRated, publishCreated,
              listComments, annotateCommentsWithCanVote
<1>4. CASE dbError(r)
  BY <1>4 DEF dbError, End, Turn
<1> QED
  BY <1>1, <1>2, <1>3, <1>4 DEF Step

\* The other things that may happen, which have no request of their own.
LEMMA NextCases ==
  ASSUME [Next]_vars
  PROVE  \/ \E r \in Requests : Step(r)
         \/ crash
         \/ \E a \in Articles : removeArticle(a)
         \/ UNCHANGED vars
BY DEF Next, Step

\* Every step keeps the types.
LEMMA TypeStep == ASSUME Shape, [Next]_vars PROVE TypeOK'
<1> USE DEF Shape, TypeOK, RowsTyped, database, answer, history
<1>1. ASSUME NEW r \in Requests, Arrive(r) PROVE TypeOK'
  BY <1>1 DEF Arrive, Await, End, Statements, Ended
<1>2. ASSUME NEW r \in Requests, Execute(r) PROVE TypeOK'
  <2>1. CASE execSaveRating(r)
    BY <2>1 DEF execSaveRating, Answer
  <2>2. CASE execAdjustScore(r)
    <3>1. \A n \in Int : n + 1 \in Int /\ n - 1 \in Int
      OBVIOUS
    <3> QED
      BY <2>2, <3>1 DEF execAdjustScore, Answer
  <2>3. CASE execSaveComment(r)
    <3>1. call[r] \in Calls /\ call[r].op = "createComment"
      BY <2>3 DEF execSaveComment, Asked, CallsFit
    <3>2. call[r].parentId \in CommentIds \cup {NoComment}
      BY <3>1, CallFields
    <3> QED
      BY <2>3, <3>2 DEF execSaveComment, Answer, CommentIds
  <2> QED
    BY <1>2, <2>1, <2>2, <2>3
    DEF Execute, Answer, checkTenantExists, execFindRating, execRefetch, execFindComments, execFindRated
<1>3. ASSUME NEW r \in Requests, Resume(r) PROVE TypeOK'
  <2>1. CASE handleTenantId(r)
    <3>1. Key(r) \in Schemas
      BY <2>1 DEF handleTenantId, SchemasFit
    <3> QED
      BY <2>1, <3>1 DEF handleTenantId, Await, End, FirstStatement, Statements, Ended
  <2>2. CASE listComments(r)
    <3>1. Ids(rows[r]) \subseteq CommentIds
      BY <2>2 DEF listComments, Answered, Ids
    <3>2. nestComments(rows[r]) \subseteq CommentIds
      BY <3>1, NestedWereFound
    <3>3. tenantId \in Schemas
      BY <2>2 DEF listComments, Answered, SchemasFit, Started, Statements
    <3> QED
      BY <2>2, <3>1, <3>2, <3>3 DEF listComments, Await, End, Statements, Ended
  <2>3. CASE buildRating(r) \/ adjustScore(r) \/ refetch(r)
    BY <2>3 DEF buildRating, adjustScore, refetch, Await, Turn, Statements
  <2> QED
    BY <1>3, <2>1, <2>2, <2>3
    DEF Resume, End, Turn, Ended, TenantUnknown, alreadyRated, saveRefused, refetchFailed,
        publishRated, publishCreated, annotateCommentsWithCanVote
<1>4. ASSUME NEW r \in Requests, dbError(r) PROVE TypeOK'
  BY <1>4 DEF dbError, End, Turn, Ended
<1>5. CASE crash
  BY <1>5 DEF crash, Ended
<1>6. ASSUME NEW a \in Articles, removeArticle(a) PROVE TypeOK'
  <2> DEFINE s == ArticleHome[a]
  <2>1. PICK gone :
          /\ articles' = articles \ {a}
          /\ comments' = [comments EXCEPT ![s] = @ \ gone]
          /\ ratings' = [ratings EXCEPT ![s] = {q \in @ : call[q].comment \notin gone}]
          /\ parentId' = [c \in CommentIds |-> IF parentId[c] \in gone THEN NoComment
                                                                       ELSE parentId[c]]
    BY <1>6 DEF removeArticle
  <2>2. articles' \in SUBSET Articles /\ comments' \in [Schemas -> SUBSET CommentIds]
    BY <2>1
  <2>3. ratings' \in [Schemas -> SUBSET Requests] /\ parentId' \in [CommentIds -> CommentIds \cup {NoComment}]
    BY <2>1
  <2> QED
    BY <1>6, <2>2, <2>3 DEF removeArticle
<1>7. CASE UNCHANGED vars
  BY <1>7 DEF vars
<1> QED
  BY <1>1, <1>2, <1>3, <1>4, <1>5, <1>6, <1>7, NextCases DEF Step

\* Every step keeps the types, and each request on the course of its call.
LEMMA ShapeStep == ASSUME Shape, [Next]_vars PROVE Shape'
<1>1. TypeOK'
  BY TypeStep
<1> USE DEF Shape, TypeOK, RowsTyped, CallsFit, SchemasFit
<1>2. CASE UNCHANGED vars
  BY <1>1, <1>2 DEF vars, Answered, Key, database, answer, history
<1>3. CASE crash
  BY <1>1, <1>3
  DEF crash, Answered, Key, Statements, Ended, Started, RatingSteps, database, answer, history
<1>4. ASSUME NEW a \in Articles, removeArticle(a) PROVE Shape'
  BY <1>1, <1>4 DEF removeArticle, Answered, Key, answer, history
<1>5. ASSUME NEW r \in Requests, Step(r) PROVE Shape'
  <2>1. ASSUME NEW q \in Requests, q # r PROVE SameLocals(q)
    BY <1>5, <2>1, OthersUndisturbed
  <2>2. rows' = [q \in Requests |-> rows'[q]]
    <3>1. CASE Arrive(r)
      BY <3>1 DEF Arrive, Await, End
    <3>2. CASE Execute(r)
      BY <3>2 DEF Execute, Answer, checkTenantExists, execFindRating, execSaveRating,
         execAdjustScore, execRefetch, execSaveComment, execFindComments, execFindRated
    <3>3. CASE Resume(r) \/ dbError(r)
      BY <3>3 DEF Resume, Await, End, dbError, TenantUnknown, handleTenantId, alreadyRated,
         buildRating, saveRefused, adjustScore, refetch, refetchFailed, publishRated,
         publishCreated, listComments, annotateCommentsWithCanVote
    <3> QED
      BY <1>5, <3>1, <3>2, <3>3 DEF Step
  \* What the step does to its own request.
  <2>3. /\ pc'[r] = "idle" <=> call'[r] = NoCall
        /\ pc'[r] \in RatingSteps => call'[r].op = "rateComment"
        /\ pc'[r] = "saveComment" => call'[r].op = "createComment"
        /\ pc'[r] \in {"findComments", "findRated"} => call'[r].op = "getComments"
        /\ Answered(r, "checkTenant")' /\ rows'[r] # {} => Key(r)' \in Schemas
        /\ pc'[r] \in Started => tenantId' \in Schemas /\ schema'[r] \in Schemas /\ Key(r)' \in Schemas
        /\ pc'[r] \in {"findRating", "saveComment"} => schema'[r] = Key(r)'
        /\ pc'[r] = "findComments" => \A row \in rows'[r] : row.id \in CommentIds
    <3> USE DEF Answered, Started, Statements, RatingSteps
    <3>1. CASE Arrive(r)
      BY <3>1, CallFields DEF Arrive, Await, End
    <3>2. CASE Execute(r)
      <4>1. CASE checkTenantExists(r)
        BY <4>1 DEF checkTenantExists, Answer, Asked, Key
      <4>2. CASE execFindComments(r)
        BY <4>2 DEF execFindComments, Answer, Asked, Key
      <4> QED
        BY <3>2, <4>1, <4>2
        DEF Execute, Answer, Asked, Key, execFindRating, execSaveRating, execAdjustScore, execRefetch,
            execSaveComment, execFindRated
    <3>3. CASE handleTenantId(r)
      <4>1. call[r] \in Calls /\ Key(r) \in Schemas
        BY <3>3 DEF handleTenantId
      <4>2. call[r].op \in {"rateComment", "createComment", "getComments", "subscribe"}
        BY <4>1, CallAssumption DEF RateCalls, CreateCalls, ListCalls, SubscribeCalls
      <4> QED
        BY <3>3, <4>1, <4>2 DEF handleTenantId, Await, End, FirstStatement, Key
    <3>4. CASE buildRating(r) \/ adjustScore(r) \/ refetch(r) \/ listComments(r)
      BY <3>4
      DEF buildRating, adjustScore, refetch, listComments, Await, End, Turn, Key, RatingSteps
    <3>5. CASE dbError(r) \/ (Resume(r) /\ pc'[r] \in Ended)
      BY <3>5, <1>1
      DEF Ended, dbError, Resume, End, Turn, Key, TenantUnknown, alreadyRated, saveRefused, refetchFailed,
          publishRated, publishCreated, annotateCommentsWithCanVote, handleTenantId, buildRating,
          adjustScore, refetch, listComments
    <3>6. Resume(r) => \/ handleTenantId(r) \/ buildRating(r) \/ adjustScore(r) \/ refetch(r)
                       \/ listComments(r) \/ pc'[r] \in Ended
      BY DEF Resume, End, Ended, TenantUnknown, alreadyRated, saveRefused, refetchFailed,
             publishRated, publishCreated, annotateCommentsWithCanVote
    <3> QED
      BY <1>5, <3>1, <3>2, <3>3, <3>4, <3>5, <3>6 DEF Step
  <2>4. \A q \in Requests : q # r /\ pc[q] \in Started => tenantId' \in Schemas
    <3>1. tenantId' # tenantId => tenantId' \in Schemas
      BY <1>1, <1>5 DEF Step, Arrive, Execute, Resume, dbError, Answer, Turn,
         checkTenantExists, execFindRating, execSaveRating, execAdjustScore, execRefetch,
         execSaveComment, execFindComments, execFindRated, TenantUnknown, handleTenantId,
         alreadyRated, buildRating, saveRefused, adjustScore, refetch, refetchFailed,
         publishRated, publishCreated, listComments, annotateCommentsWithCanVote, Started, Statements
    <3> QED
      BY <3>1
  <2>5. ASSUME NEW q \in Requests, q # r
        PROVE  /\ pc'[q] = "idle" <=> call'[q] = NoCall
               /\ pc'[q] \in RatingSteps => call'[q].op = "rateComment"
               /\ pc'[q] = "saveComment" => call'[q].op = "createComment"
               /\ pc'[q] \in {"findComments", "findRated"} => call'[q].op = "getComments"
               /\ Answered(q, "checkTenant")' /\ rows'[q] # {} => Key(q)' \in Schemas
               /\ pc'[q] \in Started =>
                    tenantId' \in Schemas /\ schema'[q] \in Schemas /\ Key(q)' \in Schemas
               /\ pc'[q] \in {"findRating", "saveComment"} => schema'[q] = Key(q)'
               /\ pc'[q] = "findComments" => \A row \in rows'[q] : row.id \in CommentIds
    <3>1. SameLocals(q)
      BY <2>1, <2>5
    <3>2. Key(q)' = Key(q) /\ Answered(q, "checkTenant")' = Answered(q, "checkTenant")
      BY <3>1 DEF SameLocals, Answered, Key
    <3> QED
      BY <2>4, <2>5, <3>1, <3>2 DEF SameLocals
  <2> QED
    BY <1>1, <2>2, <2>3, <2>5
<1> QED
  BY <1>2, <1>3, <1>4, <1>5, NextCases

(***************************************************************************)
(* The course of a request, and who writes what.                           *)
(***************************************************************************)
\* The statements a request may await after another.
Follows ==
  {<<"idle", "checkTenant">>, <<"checkTenant", "findRating">>, <<"checkTenant", "saveComment">>,
   <<"checkTenant", "findComments">>, <<"findRating", "saveRating">>,
   <<"saveRating", "adjustScore">>, <<"adjustScore", "refetch">>, <<"findComments", "findRated">>}

\* Which step takes a request to which await.
LEMMA Course ==
  ASSUME Shape, NEW r \in Requests, Step(r)
  PROVE  /\ pc[r] \notin Ended
         /\ \/ pc'[r] \in Ended
            \/ pc[r] = "checkTenant" /\ pc'[r] = "subscribed"
            \/ pc'[r] = pc[r] /\ r \in sent /\ r \notin sent'
            \/ <<pc[r], pc'[r]>> \in Follows /\ r \notin sent /\ r \in sent'
            \/ pc[r] = "idle" /\ pc'[r] = "checkTenant"
<1> USE DEF Shape, TypeOK
<1>1. CASE Arrive(r)
  BY <1>1 DEF Arrive, Await, End, Ended
<1>2. CASE Execute(r)
  BY <1>2 DEF Execute, Answer, Asked, Ended, checkTenantExists, execFindRating, execSaveRating,
      execAdjustScore, execRefetch, execSaveComment, execFindComments, execFindRated
<1>3. CASE handleTenantId(r)
  <2>1. call[r].op \in {"rateComment", "createComment", "getComments", "subscribe"}
    BY <1>3, CallAssumption
    DEF handleTenantId, Answered, CallsFit, RateCalls, CreateCalls, ListCalls, SubscribeCalls
  <2> QED
    BY <1>3, <2>1 DEF handleTenantId, Answered, Await, End, FirstStatement, Follows, Ended
<1>4. CASE Resume(r) /\ ~handleTenantId(r)
  BY <1>4 DEF Resume, Answered, Await, End, Ended, Follows, TenantUnknown, alreadyRated,
      buildRating, saveRefused, adjustScore, refetch, refetchFailed, publishRated,
      publishCreated, listComments, annotateCommentsWithCanVote
<1>5. CASE dbError(r)
  BY <1>5 DEF dbError, End, Ended, Statements
<1> QED
  BY <1>1, <1>2, <1>3, <1>4, <1>5 DEF Step

\* Only the executions of statements change the tables.
LEMMA Writers ==
  ASSUME NEW r \in Requests, Step(r)
  PROVE  /\ comments' = comments \/ execSaveComment(r)
         /\ ratings' = ratings \/ execSaveRating(r)
         /\ (adjusted' = adjusted /\ ratingScore' = ratingScore) \/ execAdjustScore(r)
         /\ (call' = call /\ before' = before) \/ Arrive(r)
BY DEF Step, Arrive, Execute, Resume, dbError, Answer, Turn, database, history, checkTenantExists,
   execFindRating, execSaveRating, execAdjustScore, execRefetch, execSaveComment, execFindComments,
   execFindRated, TenantUnknown, handleTenantId, alreadyRated, buildRating, saveRefused,
   adjustScore, refetch, refetchFailed, publishRated, publishCreated, listComments,
   annotateCommentsWithCanVote

\* What a request asked for does not change once it has been called.
LEMMA CallKept ==
  ASSUME Shape, [Next]_vars, NEW q \in Requests, call[q] # NoCall
  PROVE  call'[q] = call[q] /\ Key(q)' = Key(q) /\ Rated(q)' = Rated(q)
<1>1. call'[q] = call[q]
  <2>1. ASSUME NEW r \in Requests, Step(r) PROVE call'[q] = call[q]
    <3>1. CASE Arrive(r)
      BY <3>1 DEF Arrive, Shape, TypeOK, CallsFit
    <3> QED
      BY <2>1, <3>1, Writers
  <2> QED
    BY <2>1, NextCases DEF crash, removeArticle, vars
<1> QED
  BY <1>1 DEF Key, Rated

\* An id that has been given to a row stays given.
LEMMA InsertedKept ==
  ASSUME Shape, [Next]_vars, NEW c \in CommentIds, Inserted(c)
  PROVE  Inserted(c)' /\ ArticleOf(c)' = ArticleOf(c) /\ Home(c)' = Home(c)
<1>1. CASE c \in Seeds
  BY <1>1 DEF Inserted, ArticleOf, Home
<1>2. CASE c \in Requests /\ c \notin Seeds
  <2>1. call'[c] = call[c] /\ call[c] # NoCall /\ pc[c] # "idle"
    BY <1>2, CallKept DEF Inserted, Shape, CallsFit
  <2>2. pc'[c] # "checkTenant" /\ ~Asked(c, "saveComment")'
    <3>1. ASSUME NEW r \in Requests, Step(r) PROVE pc'[c] # "checkTenant" /\ ~Asked(c, "saveComment")'
      <4>1. CASE r = c
        BY <1>2, <2>1, <3>1, <4>1, Course DEF Inserted, Asked, Follows, Ended
      <4>2. CASE r # c
        BY <1>2, <2>1, <3>1, <4>2, OthersUndisturbed DEF SameLocals, Inserted, Asked
      <4> QED
        BY <4>1, <4>2
    <3>2. CASE crash
      BY <1>2, <3>2 DEF crash, Asked, Inserted, Shape, TypeOK
    <3> QED
      BY <1>2, <2>1, <3>1, <3>2, NextCases DEF removeArticle, vars, Inserted, Asked
  <2> QED
    BY <1>2, <2>1, <2>2 DEF Inserted, ArticleOf, Home
<1> QED
  BY <1>1, <1>2 DEF CommentIds

(***************************************************************************)
(* Rows and references stay within a tenant.                               *)
(***************************************************************************)
\* Comments stay in the schema of the request that inserted them.
LEMMA CommentsAtHomeStep ==
  ASSUME Shape, Homes, [Next]_vars PROVE CommentsAtHome'
<1> SUFFICES ASSUME NEW s \in Schemas, NEW c \in comments'[s]
             PROVE  Inserted(c)' /\ Home(c)' = s /\ (c \in Requests => Key(c)' = s)
  BY DEF CommentsAtHome
<1>1. CASE c \in comments[s]
  <2>1. Inserted(c) /\ Home(c) = s /\ (c \in Requests => Key(c) = s) /\ c \in CommentIds
    BY <1>1 DEF Homes, CommentsAtHome, Shape, TypeOK
  <2>2. c \in Requests => call[c] # NoCall
    BY <2>1, RowAssumption DEF Inserted
  <2> QED
    BY <2>1, <2>2, InsertedKept, CallKept
<1>2. CASE c \notin comments[s]
  <2>1. PICK r \in Requests : execSaveComment(r)
    <3>1. ASSUME NEW a \in Articles, removeArticle(a) PROVE FALSE
      BY <1>2, <3>1 DEF removeArticle, Shape, TypeOK
    <3>2. comments' # comments
      BY <1>2
    <3> QED
      BY <3>1, <3>2, NextCases, Writers DEF crash, vars, database
  <2>2. c = r /\ schema[r] = s /\ ArticleHome[call[r].article] = s
    BY <1>2, <2>1 DEF execSaveComment, Shape, TypeOK
  <2>3. /\ Key(r) = s /\ call[r] # NoCall /\ call[r].op = "createComment"
        /\ pc[r] = "saveComment"
    BY <2>1, <2>2 DEF execSaveComment, Asked, Shape, SchemasFit, CallsFit
  <2>4. call' = call /\ pc' = pc /\ r \notin sent'
    BY <2>1 DEF execSaveComment, Answer
  <2>5. Key(r)' = Key(r) /\ Home(r)' = s
    BY <2>2, <2>4, RowAssumption DEF Key, Home, ArticleOf
  <2> QED
    BY <2>2, <2>3, <2>4, <2>5 DEF Inserted, Asked
<1> QED
  BY <1>1, <1>2

\* What a request refers to stays in the schema of its tenant.
LEMMA ReferencesAtHomeStep ==
  ASSUME Shape, Homes, [Next]_vars PROVE ReferencesAtHome'
<1> SUFFICES ASSUME NEW r \in Requests, call'[r] # NoCall, Key(r)' \in Schemas
             PROVE  RefersHome(r)'
  BY DEF ReferencesAtHome
\* A comment that has its id and its schema before the step has them after.
<1>1. ASSUME NEW c \in CommentIds, Inserted(c), call'[r].comment = c
      PROVE  Inserted(call[r].comment)' /\ Home(call[r].comment)' = Home(c)
  <2>1. Inserted(c)' /\ Home(c)' = Home(c)
    BY <1>1, InsertedKept
  <2> QED
    BY <1>1, <2>1 DEF Inserted, Home, ArticleOf, Asked
<1>2. CASE call[r] # NoCall
  <2>1. call'[r] = call[r] /\ Key(r)' = Key(r) /\ call[r] \in Calls /\ RefersHome(r)
    BY <1>2, CallKept DEF Shape, TypeOK, Homes, ReferencesAtHome
  <2>2. CASE call[r].op = "rateComment"
    <3>1. PICK c \in CommentIds : c = call[r].comment
      BY <2>1, <2>2, CallFields
    <3> QED
      BY <1>1, <2>1, <2>2, <3>1 DEF RefersHome
  <2> QED
    BY <2>1, <2>2 DEF RefersHome
<1>3. CASE call[r] = NoCall
  <2>1. Arrive(r)
    BY <1>3, NextCases, OthersUndisturbed, Writers DEF crash, removeArticle, vars, SameLocals
  <2>2. Known(call'[r]) /\ Key(r)' = formatTenantId(call'[r].key) /\ call'[r] \in Calls
    BY <2>1 DEF Arrive, Key, Shape, TypeOK
  <2>3. CASE call'[r].op = "rateComment"
    <3>1. PICK c \in CommentIds : c = call'[r].comment /\ c \in comments[Key(r)']
      BY <2>2, <2>3, CallFields DEF Known
    <3>2. Inserted(c) /\ Home(c) = Key(r)'
      BY <3>1 DEF Homes, CommentsAtHome
    <3> QED
      BY <1>1, <2>2, <2>3, <3>1, <3>2 DEF Known, RefersHome
  <2> QED
    BY <2>2, <2>3 DEF Known, RefersHome
<1> QED
  BY <1>2, <1>3

\* Ratings stay in the schema of the request that inserted them, with their comment.
LEMMA RatingsAtHomeStep ==
  ASSUME Shape, Homes, [Next]_vars PROVE RatingsAtHome'
<1> SUFFICES ASSUME NEW s \in Schemas, NEW q \in ratings'[s]
             PROVE  /\ Rated(q)' /\ Key(q)' = s
                    /\ call'[q].comment \in comments'[s]
                    /\ pc'[q] \notin {"checkTenant", "findRating"}
                    /\ ~Asked(q, "saveRating")'
  BY DEF RatingsAtHome
<1>1. CASE q \in ratings[s]
  <2>1. /\ Rated(q) /\ Key(q) = s /\ call[q].comment \in comments[s] /\ q \in Requests
        /\ pc[q] \notin {"checkTenant", "findRating", "idle"} /\ ~Asked(q, "saveRating")
    BY <1>1 DEF Homes, RatingsAtHome, Shape, TypeOK, CallsFit, Rated
  <2>2. Rated(q)' /\ Key(q)' = s /\ call'[q] = call[q]
    BY <2>1, CallKept DEF Rated
  <2>3. call[q].comment \in comments'[s]
    <3>1. ASSUME NEW r \in Requests, Step(r) PROVE comments[s] \subseteq comments'[s]
      <4>1. \/ comments' = comments
            \/ comments' = [comments EXCEPT ![schema[r]] = @ \cup {r}]
        BY <3>1, Writers DEF execSaveComment
      <4> QED
        BY <4>1 DEF Shape, TypeOK
    <3>2. ASSUME NEW a \in Articles, removeArticle(a) PROVE call[q].comment \in comments'[s]
      BY <1>1, <2>1, <3>2 DEF removeArticle, Shape, TypeOK
    <3> QED
      BY <2>1, <3>1, <3>2, NextCases DEF crash, vars, database
  <2>4. pc'[q] \notin {"checkTenant", "findRating"} /\ ~Asked(q, "saveRating")'
    <3>1. ASSUME NEW r \in Requests, Step(r)
          PROVE  pc'[q] \notin {"checkTenant", "findRating"} /\ ~Asked(q, "saveRating")'
      <4>1. CASE r = q
        BY <2>1, <3>1, <4>1, Course DEF Asked, Follows, Ended
      <4>2. CASE r # q
        BY <2>1, <3>1, <4>2, OthersUndisturbed DEF SameLocals, Asked
      <4> QED
        BY <4>1, <4>2
    <3>2. CASE crash
      BY <2>1, <3>2 DEF crash, Asked
    <3> QED
      BY <2>1, <3>1, <3>2, NextCases DEF removeArticle, vars, Asked
  <2> QED
    BY <2>2, <2>3, <2>4
<1>2. CASE q \notin ratings[s]
  <2>1. PICK r \in Requests : execSaveRating(r)
    <3>1. ASSUME NEW a \in Articles, removeArticle(a) PROVE FALSE
      BY <1>2, <3>1 DEF removeArticle, Shape, TypeOK
    <3> QED
      BY <1>2, <3>1, NextCases, Writers DEF crash, vars, database
  <2>2. /\ q = r /\ schema[r] = s /\ call[r].comment \in comments[s]
        /\ call' = call /\ pc' = pc /\ r \notin sent' /\ comments' = comments
        /\ pc[r] = "saveRating"
    BY <1>2, <2>1 DEF execSaveRating, Answer, Asked, Shape, TypeOK
  <2>3. /\ Rated(r) /\ call[r].comment \in CommentIds /\ Key(r) \in Schemas
    BY <2>2, CallFields DEF Shape, TypeOK, CallsFit, SchemasFit, Rated, RatingSteps, Started, Statements
  <2>4. Home(call[r].comment) = s /\ Home(call[r].comment) = Key(r)
    BY <2>2, <2>3 DEF Homes, CommentsAtHome, ReferencesAtHome, RefersHome, Rated
  <2> QED
    BY <2>2, <2>3, <2>4 DEF Rated, Key, Asked
<1> QED
  BY <1>1, <1>2

(***************************************************************************)
(* Scores.                                                                 *)
(***************************************************************************)
\* A rating that is stored with its comment stays with it.
LEMMA StoredKept ==
  ASSUME Shape, Homes, [Next]_vars, NEW r \in Requests,
         Rated(r), Key(r) \in Schemas, StoredWithComment(r)
  PROVE  StoredWithComment(r)'
<1> SUFFICES ASSUME call'[r].comment \in comments'[Key(r)'] PROVE r \in ratings'[Key(r)']
  BY DEF StoredWithComment
<1>1. PICK s \in Schemas : s = Key(r)
  OBVIOUS
<1>2. call'[r] = call[r] /\ Key(r)' = s /\ call[r].comment \in CommentIds
  BY <1>1, CallKept, CallFields DEF Rated, Shape, TypeOK
<1>3. call[r].comment \in comments[s]
  <2>1. ASSUME NEW q \in Requests, execSaveComment(q), call[r].comment \notin comments[s] PROVE FALSE
    <3>1. call[r].comment = q
      BY <1>2, <2>1 DEF execSaveComment, Shape, TypeOK
    <3>2. Inserted(q)
      BY <1>1, <3>1 DEF Homes, ReferencesAtHome, RefersHome, Rated
    <3> QED
      BY <2>1, <3>2, RowAssumption DEF Inserted, execSaveComment, Asked
  <2>2. ASSUME NEW a \in Articles, removeArticle(a) PROVE comments'[s] \subseteq comments[s]
    BY <2>2 DEF removeArticle, Shape, TypeOK
  <2> QED
    BY <1>2, <2>1, <2>2, NextCases, Writers DEF crash, vars, database
<1>4. r \in ratings[s]
  BY <1>1, <1>3 DEF StoredWithComment
<1>5. ASSUME NEW a \in Articles, removeArticle(a) PROVE r \in ratings'[s]
  BY <1>2, <1>4, <1>5 DEF removeArticle, Shape, TypeOK
<1>6. ASSUME NEW q \in Requests, execSaveRating(q) PROVE r \in ratings'[s]
  BY <1>4, <1>6 DEF execSaveRating, Shape, TypeOK
<1> QED
  BY <1>2, <1>4, <1>5, <1>6, NextCases, Writers DEF crash, vars, database

\* A request that adjusts a score has stored its rating.
LEMMA SavedBeforeAdjustingStep ==
  ASSUME Shape, Homes, SavedBeforeAdjusting, [Next]_vars PROVE SavedBeforeAdjusting'
<1> DEFINE Saved(q) == pc[q] = "adjustScore" \/ (Answered(q, "saveRating") /\ rows[q] # {})
<1> SUFFICES ASSUME NEW q \in Requests, Saved(q)' PROVE StoredWithComment(q)'
  BY DEF SavedBeforeAdjusting
<1>1. CASE Saved(q)
  <2>1. Rated(q) /\ Key(q) \in Schemas
    BY <1>1 DEF Shape, TypeOK, CallsFit, SchemasFit, Rated, RatingSteps, Started, Statements, Answered
  <2> QED
    BY <1>1, <2>1, StoredKept DEF SavedBeforeAdjusting
<1>2. CASE ~Saved(q)
  <2>1. Step(q)
    BY <1>2, NextCases, OthersUndisturbed
    DEF SameLocals, Answered, crash, removeArticle, vars, Shape, TypeOK, Ended, Statements
  <2>2. execSaveRating(q)
    <3>1. ~adjustScore(q)
      BY <1>2 DEF adjustScore
    <3>2. CASE pc'[q] = "adjustScore"
      <4>1. pc[q] = "saveRating" /\ q \notin sent
        BY <1>2, <2>1, <3>2, Course DEF Follows, Ended
      <4> QED
        BY <2>1, <3>1, <3>2, <4>1
        DEF Step, Arrive, Execute, Resume, dbError, Asked, Answered, End, Shape, TypeOK,
            checkTenantExists, execFindRating, execSaveRating, execAdjustScore, execRefetch,
            execSaveComment, execFindComments, execFindRated, TenantUnknown, handleTenantId,
            alreadyRated, buildRating, saveRefused, refetch, refetchFailed, publishRated,
            publishCreated, listComments, annotateCommentsWithCanVote
    <3>3. CASE Answered(q, "saveRating")'
      <4>1. pc[q] = "saveRating" /\ q \in sent
        BY <2>1, <3>3, Course DEF Answered, Follows, Ended
      <4> QED
        BY <2>1, <3>3, <4>1
        DEF Step, Arrive, Execute, Resume, dbError, Asked, Answered, End, Shape, TypeOK,
            checkTenantExists, execFindRating, execAdjustScore, execRefetch,
            execSaveComment, execFindComments, execFindRated, TenantUnknown, handleTenantId,
            alreadyRated, buildRating, saveRefused, adjustScore, refetch, refetchFailed, publishRated,
            publishCreated, listComments, annotateCommentsWithCanVote
    <3> QED
      BY <3>2, <3>3
  <2>3. /\ pc[q] = "saveRating" /\ pc' = pc /\ call' = call /\ Key(q)' = Key(q)
        /\ schema[q] \in Schemas
    BY <2>2 DEF execSaveRating, Asked, Answer, Key, Shape, SchemasFit, Started, Statements
  <2>4. /\ q \in ratings'[schema[q]] /\ call[q].comment \in comments[schema[q]]
    BY <1>2, <2>2, <2>3 DEF execSaveRating, Answer, Shape, TypeOK, RowsTyped
  <2>5. Key(q) = schema[q]
    <3>1. Rated(q) /\ Key(q) \in Schemas
      BY <2>3 DEF Shape, TypeOK, CallsFit, SchemasFit, Rated, RatingSteps, Started, Statements
    <3> QED
      BY <2>3, <2>4, <3>1 DEF Homes, CommentsAtHome, ReferencesAtHome, RefersHome, Rated
  <2> QED
    BY <2>3, <2>4, <2>5 DEF StoredWithComment
<1> QED
  BY <1>1, <1>2

\* A rating adjusts the score at most once.
LEMMA AdjustedOnceStep ==
  ASSUME Shape, Homes, SavedBeforeAdjusting, AdjustedOnce, [Next]_vars PROVE AdjustedOnce'
<1> DEFINE Past(q) == pc[q] \in Ended \cup {"refetch"} \/ Answered(q, "adjustScore")
<1> SUFFICES ASSUME NEW q \in adjusted'
             PROVE  (Rated(q) /\ Key(q) \in Schemas)' /\ Past(q)' /\ StoredWithComment(q)'
  BY DEF AdjustedOnce
<1>1. CASE q \in adjusted
  <2>1. Rated(q) /\ Key(q) \in Schemas /\ StoredWithComment(q) /\ Past(q) /\ q \in Requests
    BY <1>1 DEF AdjustedOnce, Shape, TypeOK
  <2>2. (Rated(q) /\ Key(q) \in Schemas)' /\ StoredWithComment(q)'
    BY <2>1, CallKept, StoredKept DEF Rated
  <2>3. ASSUME NEW r \in Requests, Step(r) PROVE Past(q)'
    <3>1. CASE r = q
      BY <2>1, <2>3, <3>1, Course DEF Answered, Follows, Ended
    <3>2. CASE r # q
      BY <2>1, <2>3, <3>2, OthersUndisturbed DEF SameLocals, Answered
    <3> QED
      BY <3>1, <3>2
  <2>4. ASSUME crash PROVE Past(q)'
    <3>1. pc'[q] = IF pc[q] \in Statements \cup {"subscribed"} THEN "lost" ELSE pc[q]
      BY <2>1, <2>4 DEF crash
    <3>2. pc[q] = "adjustScore" \/ pc[q] \in Ended \cup {"refetch"}
      BY <2>1 DEF Answered
    <3> QED
      BY <3>1, <3>2 DEF Ended, Statements
  <2> QED
    BY <2>1, <2>2, <2>3, <2>4, NextCases DEF removeArticle, vars, Answered
<1>2. CASE q \notin adjusted
  <2>1. PICK r \in Requests : execAdjustScore(r)
    BY <1>2, NextCases, Writers DEF crash, removeArticle, vars, history
  <2>2. q = r /\ pc[r] = "adjustScore" /\ pc' = pc /\ r \notin sent'
    BY <1>2, <2>1 DEF execAdjustScore, Asked, Answer
  <2>3. Rated(r) /\ Key(r) \in Schemas /\ StoredWithComment(r)
    BY <2>2 DEF SavedBeforeAdjusting, Shape, TypeOK, CallsFit, SchemasFit, Rated, RatingSteps,
                Started, Statements
  <2> QED
    BY <2>2, <2>3, CallKept, StoredKept DEF Answered, Rated
<1> QED
  BY <1>1, <1>2

\* A score stays the balance of the ratings that adjusted it.
LEMMA ScoreIsCountStep ==
  ASSUME Shape, AdjustedOnce, ScoreIsCount, [Next]_vars PROVE ScoreIsCount'
<1> SUFFICES ASSUME NEW c \in CommentIds
             PROVE  ratingScore'[c] =
                      Cardinality(Counted(c, TRUE)') - Cardinality(Counted(c, FALSE)')
  BY DEF ScoreIsCount
<1>1. \A q \in adjusted : q \in Requests /\ call'[q] = call[q]
  BY CallKept DEF AdjustedOnce, Rated, Shape, TypeOK
<1>2. ASSUME adjusted' = adjusted, ratingScore' = ratingScore
      PROVE  ratingScore'[c] = Cardinality(Counted(c, TRUE)') - Cardinality(Counted(c, FALSE)')
  <2>1. Counted(c, TRUE)' = Counted(c, TRUE) /\ Counted(c, FALSE)' = Counted(c, FALSE)
    BY <1>1, <1>2 DEF Counted
  <2> QED
    BY <1>2, <2>1 DEF ScoreIsCount
<1>3. ASSUME NEW r \in Requests, execAdjustScore(r), adjusted' # adjusted \/ ratingScore' # ratingScore
      PROVE  ratingScore'[c] = Cardinality(Counted(c, TRUE)') - Cardinality(Counted(c, FALSE)')
  <2> DEFINE d == call[r].comment
             up == call[r].isUpvote
  <2>1. /\ adjusted' = adjusted \cup {r} /\ r \notin adjusted
        /\ ratingScore' = [ratingScore EXCEPT ![d] = IF up THEN @ + 1 ELSE @ - 1]
        /\ call' = call
    BY <1>3 DEF execAdjustScore, Asked, Answer, Answered, AdjustedOnce, Ended
  <2>2. up \in BOOLEAN
    BY <1>3, CallFields DEF execAdjustScore, Asked, Shape, TypeOK, CallsFit, RatingSteps
  <2>3. ASSUME NEW b
        PROVE  /\ r \notin Counted(c, b)
               /\ Cardinality(Counted(c, b)) \in Int
               /\ Cardinality(Counted(c, b) \cup {r}) = Cardinality(Counted(c, b)) + 1
    <3>1. Counted(c, b) \subseteq Requests /\ r \notin Counted(c, b)
      BY <2>1 DEF Counted, Shape, TypeOK
    <3>2. IsFiniteSet(Counted(c, b))
      BY <3>1, RowAssumption, FS_Subset
    <3>3. Cardinality(Counted(c, b)) \in Nat
      BY <3>2, FS_CardinalityType
    <3>4. Cardinality(Counted(c, b) \cup {r}) = Cardinality(Counted(c, b)) + 1
      BY <3>1, <3>2, FS_AddElement
    <3> QED
      BY <3>1, <3>3, <3>4
  <2>4. /\ Counted(c, TRUE)' = IF c = d /\ up THEN Counted(c, TRUE) \cup {r} ELSE Counted(c, TRUE)
        /\ Counted(c, FALSE)' = IF c = d /\ ~up THEN Counted(c, FALSE) \cup {r} ELSE Counted(c, FALSE)
    BY <2>1, <2>2 DEF Counted
  <2>5. PICK m \in Int, n \in Int :
          m = Cardinality(Counted(c, TRUE)) /\ n = Cardinality(Counted(c, FALSE))
    BY <2>3
  <2>6. ratingScore[c] = m - n
    BY <2>5 DEF ScoreIsCount
  <2>7. ratingScore'[c] = IF c = d THEN (IF up THEN ratingScore[c] + 1 ELSE ratingScore[c] - 1)
                                   ELSE ratingScore[c]
    BY <2>1 DEF Shape, TypeOK
  <2>8. CASE c # d
    BY <2>4, <2>5, <2>6, <2>7, <2>8
  <2>9. CASE c = d /\ up
    <3>1. Cardinality(Counted(c, TRUE)') = m + 1 /\ Cardinality(Counted(c, FALSE)') = n
      BY <2>3, <2>4, <2>5, <2>9
    <3>2. ratingScore'[c] = ratingScore[c] + 1
      BY <2>7, <2>9
    <3>3. ratingScore'[c] = (m + 1) - n
      BY <2>6, <3>2
    <3> QED
      BY <3>1, <3>3
  <2>10. CASE c = d /\ ~up
    <3>1. Cardinality(Counted(c, FALSE)') = n + 1 /\ Cardinality(Counted(c, TRUE)') = m
      BY <2>3, <2>4, <2>5, <2>10
    <3>2. ratingScore'[c] = ratingScore[c] - 1
      BY <2>7, <2>10
    <3>3. ratingScore'[c] = m - (n + 1)
      BY <2>6, <3>2
    <3> QED
      BY <3>1, <3>3
  <2> QED
    BY <2>8, <2>9, <2>10
<1> QED
  BY <1>2, <1>3, NextCases, Writers DEF crash, removeArticle, vars, database, history

(***************************************************************************)
(* Overlapping requests.                                                   *)
(***************************************************************************)
\* A request that has ended stays ended.
LEMMA EndedKept ==
  ASSUME Shape, [Next]_vars, NEW q \in Requests, pc[q] \in Ended
  PROVE  pc'[q] \in Ended
<1>1. ASSUME NEW r \in Requests, Step(r) PROVE pc'[q] = pc[q]
  <2>1. r # q
    BY <1>1, Course
  <2> QED
    BY <1>1, <2>1, OthersUndisturbed DEF SameLocals
<1>2. CASE crash
  BY <1>2 DEF crash, Ended
<1> QED
  BY <1>1, <1>2, NextCases DEF removeArticle, vars

\* The requests that had ended when another began are over for good.
LEMMA BeforeEndedStep ==
  ASSUME Shape, BeforeEnded, [Next]_vars PROVE BeforeEnded'
<1> SUFFICES ASSUME NEW r \in Requests, NEW q \in before'[r] PROVE pc'[q] \in Ended
  BY DEF BeforeEnded
<1>1. q \in Requests
  BY TypeStep DEF TypeOK
<1>2. pc[q] \in Ended
  <2>1. CASE before' = before
    BY <2>1 DEF BeforeEnded
  <2>2. ASSUME NEW p \in Requests, Arrive(p) PROVE pc[q] \in Ended
    BY <2>2 DEF Arrive, BeforeEnded, Shape, TypeOK
  <2> QED
    BY <2>1, <2>2, NextCases, Writers DEF crash, removeArticle, vars, history
<1> QED
  BY <1>1, <1>2, EndedKept

\* Whoever adds a rating to a table is saving it.
LEMMA NewRating ==
  ASSUME Shape, [Next]_vars, NEW s \in Schemas, NEW q \in ratings'[s], q \notin ratings[s]
  PROVE  q \in Requests /\ pc[q] = "saveRating"
<1>1. ASSUME NEW a \in Articles, removeArticle(a) PROVE FALSE
  BY <1>1 DEF removeArticle, Shape, TypeOK
<1>2. PICK r \in Requests : execSaveRating(r)
  BY <1>1, NextCases, Writers DEF crash, vars, database
<1> QED
  BY <1>2 DEF execSaveRating, Asked, Shape, TypeOK

\* A request that found no earlier rating shares its vote only with requests it overlaps.
LEMMA NoEarlierVoteStep ==
  ASSUME Shape, Homes, Overlap, [Next]_vars PROVE NoEarlierVote'
<1> SUFFICES ASSUME NEW r \in Requests, FoundNone(r)', NEW s \in Schemas,
                    NEW q \in ratings'[s], q \in before'[r], SameVote(q, r)'
             PROVE  FALSE
  BY DEF NoEarlierVote
<1>1. q \in Requests
  BY TypeStep DEF TypeOK
<1>2. CASE FoundNone(r)
  <2>1. Rated(r) /\ pc[r] # "idle"
    <3>1. Rated(r)
      BY <1>2 DEF FoundNone, Answered, Homes, RatingsAtHome, Shape, TypeOK, CallsFit, Rated, RatingSteps
    <3> QED
      BY <3>1 DEF Rated, Shape, CallsFit
  <2>2. before'[r] = before[r]
    <3>1. ASSUME NEW p \in Requests, Arrive(p) PROVE before'[r] = before[r]
      BY <2>1, <3>1 DEF Arrive, Shape, TypeOK
    <3> QED
      BY <3>1, NextCases, Writers DEF crash, removeArticle, vars, history
  <2>3. pc[q] \in Ended
    BY <2>2 DEF Overlap, BeforeEnded
  <2>4. q \in ratings[s] /\ Rated(q)
    BY <1>1, <2>3, NewRating DEF Ended, Homes, RatingsAtHome
  <2>5. SameVote(q, r)
    BY <1>1, <2>1, <2>4, CallKept DEF SameVote, Rated
  <2> QED
    BY <1>2, <2>2, <2>4, <2>5 DEF Overlap, NoEarlierVote
<1>3. CASE ~FoundNone(r)
  <2>1. \A t \in Schemas : r \notin ratings'[t]
    BY <1>3, NewRating DEF FoundNone
  <2>2. \/ pc'[r] \in {"saveRating", "adjustScore", "refetch"}
        \/ Answered(r, "findRating")' /\ rows'[r] = {}
    BY <2>1 DEF FoundNone
  <2>3. Step(r)
    BY <1>3, <2>2, NextCases, OthersUndisturbed
    DEF SameLocals, FoundNone, Answered, crash, removeArticle, vars, Shape, TypeOK, Ended, Statements
  <2>4. execFindRating(r)
    <3>1. pc[r] = "findRating"
      BY <1>3, <2>2, <2>3, Course DEF FoundNone, Answered, Follows, Ended
    <3>2. ~buildRating(r)
      BY <1>3 DEF buildRating, FoundNone
    <3> QED
      BY <2>2, <2>3, <3>1, <3>2
      DEF Step, Arrive, Execute, Resume, dbError, Asked, Answered, End, Shape, TypeOK, Ended,
          checkTenantExists, execSaveRating, execAdjustScore, execRefetch,
          execSaveComment, execFindComments, execFindRated, TenantUnknown, handleTenantId,
          alreadyRated, saveRefused, adjustScore, refetch, refetchFailed, publishRated,
          publishCreated, listComments, annotateCommentsWithCanVote
  <2>5. /\ q \in ratings[s] /\ SameVote(q, r) /\ Key(r) \in Schemas
        /\ {p \in ratings[Key(r)] : SameVote(p, r)} = {} /\ pc[r] = "findRating" /\ Rated(r)
    BY <2>2, <2>4
    DEF execFindRating, Answer, Asked, Answered, database, SameVote, Shape, TypeOK, SchemasFit,
        CallsFit, RowsTyped, Rated, RatingSteps, Started, Statements
  <2>6. Home(call[r].comment) = s
    BY <2>5, CallFields DEF Homes, RatingsAtHome, CommentsAtHome, SameVote
  <2>7. Home(call[r].comment) = Key(r)
    BY <2>5 DEF Homes, ReferencesAtHome, RefersHome, Rated
  <2> QED
    BY <2>5, <2>6, <2>7
<1> QED
  BY <1>2, <1>3

(***************************************************************************)
(* The inductive invariant, and what follows from it.                      *)
(***************************************************************************)
\* The program starts in the inductive invariant.
LEMMA IInvInit == Init => IInv
<1> SUFFICES ASSUME Init PROVE IInv
  OBVIOUS
<1>1. Shape
  BY ShapeInit
<1>2. Homes
  BY RowAssumption
  DEF Init, Homes, CommentsAtHome, ReferencesAtHome, RatingsAtHome, Inserted, Home, ArticleOf
<1>3. Scores
  <2>1. \A c, up : Counted(c, up) = {}
    BY DEF Init, Counted
  <2>2. Cardinality({}) = 0
    BY FS_EmptySet
  <2>3. \A c \in CommentIds : ratingScore[c] = 0
    BY DEF Init
  <2>4. 0 - 0 = 0
    OBVIOUS
  <2>5. ScoreIsCount
    BY <2>1, <2>2, <2>3, <2>4 DEF ScoreIsCount
  <2> QED
    BY <2>5 DEF Init, Scores, SavedBeforeAdjusting, AdjustedOnce, Answered
<1>4. Overlap
  BY DEF Init, Overlap, BeforeEnded, NoEarlierVote
<1> QED
  BY <1>1, <1>2, <1>3, <1>4 DEF IInv

\* The conjuncts of IInv support one another, and each step keeps them.
LEMMA IInvStep == IInv /\ [Next]_vars => IInv'
BY ShapeStep, CommentsAtHomeStep, ReferencesAtHomeStep, RatingsAtHomeStep, SavedBeforeAdjustingStep,
   AdjustedOnceStep, ScoreIsCountStep, BeforeEndedStep, NoEarlierVoteStep
DEF IInv, Homes, Scores, Overlap

\* IInv holds in every reachable state.
THEOREM Invariance == Spec => []IInv
BY IInvInit, IInvStep, PTL DEF Spec

\* Every variable keeps its type.
THEOREM TypeCorrect == Spec => []TypeOK
<1>1. IInv => TypeOK
  BY DEF IInv, Shape
<1> QED
  BY <1>1, Invariance, PTL

\* The tables of a tenant hold only rows its own requests inserted, although all
\* requests of all tenants share the field tenantId.
THEOREM TenantsKeptApart == Spec => []RowsStayHome
<1>1. IInv => RowsStayHome
  BY DEF IInv, Homes, CommentsAtHome, RatingsAtHome, RowsStayHome
<1> QED
  BY <1>1, Invariance, PTL

\* A difference of cardinalities lies between them.
LEMMA DifferenceBounded ==
  ASSUME NEW m \in Int, NEW n \in Int, NEW u \in Int, NEW v \in Int,
         0 <= m, m <= u, 0 <= n, n <= v
  PROVE  m - n <= u /\ -(m - n) <= v
OBVIOUS

\* A score never exceeds the upvotes nor goes below minus the downvotes stored.
THEOREM ScoreBounded == Spec => []ScoreWithinVotes
<1>1. ASSUME IInv, NEW s \in Schemas, NEW c \in comments[s]
      PROVE  /\ ratingScore[c] <= Cardinality(Votes(s, c, TRUE))
             /\ -ratingScore[c] <= Cardinality(Votes(s, c, FALSE))
  <2>1. c \in CommentIds /\ Home(c) = s /\ adjusted \subseteq Requests
        /\ ratings \in [Schemas -> SUBSET Requests]
    BY <1>1 DEF IInv, Homes, CommentsAtHome, Shape, TypeOK
  <2>2. ASSUME NEW b
        PROVE  /\ Cardinality(Counted(c, b)) \in Int /\ Cardinality(Votes(s, c, b)) \in Int
               /\ 0 <= Cardinality(Counted(c, b))
               /\ Cardinality(Counted(c, b)) <= Cardinality(Votes(s, c, b))
    <3>1. Counted(c, b) \subseteq Votes(s, c, b)
      <4> SUFFICES ASSUME NEW q \in adjusted, call[q].comment = c
                   PROVE  q \in ratings[s]
        BY DEF Counted, Votes
      <4>1. q \in Requests /\ Rated(q) /\ Key(q) \in Schemas /\ StoredWithComment(q)
        BY <1>1, <2>1 DEF IInv, Scores, AdjustedOnce
      <4>2. Key(q) = s
        BY <1>1, <2>1, <4>1 DEF IInv, Homes, ReferencesAtHome, RefersHome, Rated
      <4> QED
        BY <4>1, <4>2 DEF StoredWithComment
    <3>2. Votes(s, c, b) \subseteq Requests
      BY <2>1 DEF Votes
    <3>3. IsFiniteSet(Votes(s, c, b))
      BY <3>2, RowAssumption, FS_Subset
    <3>4. /\ IsFiniteSet(Counted(c, b))
          /\ Cardinality(Counted(c, b)) <= Cardinality(Votes(s, c, b))
      BY <3>1, <3>3, FS_Subset
    <3>5. Cardinality(Counted(c, b)) \in Nat /\ Cardinality(Votes(s, c, b)) \in Nat
      BY <3>3, <3>4, FS_CardinalityType
    <3> QED
      BY <3>4, <3>5
  <2>3. PICK m, n, u, v :
          /\ m \in Int /\ n \in Int /\ u \in Int /\ v \in Int
          /\ m = Cardinality(Counted(c, TRUE)) /\ n = Cardinality(Counted(c, FALSE))
          /\ u = Cardinality(Votes(s, c, TRUE)) /\ v = Cardinality(Votes(s, c, FALSE))
          /\ 0 <= m /\ m <= u /\ 0 <= n /\ n <= v
    BY <2>2
  <2>4. ratingScore[c] = m - n
    BY <1>1, <2>1, <2>3 DEF IInv, Scores, ScoreIsCount
  <2>5. m - n <= u /\ -(m - n) <= v
    <3>1. /\ m \in Int /\ n \in Int /\ u \in Int /\ v \in Int
          /\ 0 <= m /\ m <= u /\ 0 <= n /\ n <= v
      BY <2>3
    <3> QED
      BY <3>1, DifferenceBounded
  <2> QED
    BY <2>3, <2>4, <2>5
<1>2. IInv => ScoreWithinVotes
  BY <1>1 DEF ScoreWithinVotes
<1> QED
  BY <1>2, Invariance, PTL

\* A user's second rating of a comment can only come from a request that had
\* begun before the first one ended.
THEOREM NoSequentialDoubleVote == Spec => []OnlyOverlappingDoubleVotes
<1>1. ASSUME IInv PROVE OnlyOverlappingDoubleVotes
  <2> SUFFICES ASSUME NEW s \in Schemas, NEW q \in ratings[s], NEW r \in ratings[s],
                      SameVote(q, r)
               PROVE  q \notin before[r]
    BY DEF OnlyOverlappingDoubleVotes
  <2>1. r \in Requests
    BY <1>1 DEF IInv, Shape, TypeOK
  <2> QED
    BY <1>1, <2>1 DEF IInv, Overlap, NoEarlierVote, FoundNone
<1> QED
  BY <1>1, Invariance, PTL
=============================================================================
