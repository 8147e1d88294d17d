--------------------------- MODULE OneTenantProofs ---------------------------
(***************************************************************************)
(* Theorems about Comments where the database has one schema, so that the  *)
(* shared field tenantId, once set, is the schema of every request: for    *)
(* every set of requests and calls, failures, removals and restarts        *)
(* included.                                                               *)
(***************************************************************************)
EXTENDS CommentsProofs

OneTenant == \A s, t \in Schemas : s = t

\* The comment a request rates has been removed.
Gone(r) == call[r].comment \notin comments[Key(r)]

\* A rating that has got past the UPDATE changed the score, if there was one.
CountedWhenPast ==
  \A r \in Requests :
    Rated(r) /\ (Answered(r, "adjustScore") \/ pc[r] \in {"refetch", "done"}) =>
      Key(r) \in Schemas /\ (r \in adjusted \/ Gone(r))

CountedWhenRefetched ==
  \A r \in Requests : Answered(r, "refetch") /\ rows[r] # {} => r \in adjusted

OnlySubscriptions == \A r \in Requests : pc[r] = "subscribed" => ~Rated(r)

Raters(s, c) == {r \in ratings[s] : call[r].comment = c}

Announced(c) ==
  \E e \in events : e.kind = "commentRated" /\ e.comment = c /\ e.score = ratingScore[c]

\* A rating that may still announce the score of its comment, or has failed to.
Owing(r) ==
  \/ pc[r] \in {"saveRating", "adjustScore", "failed", "lost"}
  \/ Asked(r, "refetch")
  \/ Answered(r, "refetch") /\ rows[r] = {ratingScore[call[r].comment]}

ScoreOwedOrAnnounced ==
  \A s \in Schemas : \A c \in comments[s] :
    Raters(s, c) # {} => Announced(c) \/ \E r \in Raters(s, c) : Owing(r)

\* The answer of findRated holds the comments its user rated before.
RatedFound ==
  \A r \in Requests :
    /\ canVote[r] # {} => pc[r] = "done"
    /\ pc[r] = "findRated" => /\ shown[r] \subseteq listed[r] /\ currentUser(r) # NoUser
    /\ Answered(r, "findRated") =>
         \A s \in Schemas : \A q \in ratings[s] :
           q \in before[r] /\ call[q].user = call[r].user /\ call[q].comment \in listed[r] =>
             call[q].comment \in rows[r]

OneInv == IInv /\ CountedWhenPast /\ CountedWhenRefetched /\ OnlySubscriptions
               /\ AnnouncedVotesCounted /\ ScoreOwedOrAnnounced
               /\ RatedFound /\ EarlierVotesShown

(***************************************************************************)
(* Which step does what.                                                   *)
(***************************************************************************)
\* With one tenant every statement is built with the schema of its request.
LEMMA OwnSchema ==
  ASSUME OneTenant, Shape, NEW r \in Requests, pc[r] \in Started
  PROVE  schema[r] = Key(r) /\ Key(r) \in Schemas
BY DEF OneTenant, Shape, SchemasFit

\* A rating is done only when it has announced its comment.
LEMMA WhoIsDone ==
  ASSUME Shape, NEW r \in Requests, Step(r), Rated(r), pc'[r] = "done"
  PROVE  publishRated(r)
<1> USE DEF Shape, TypeOK, CallsFit, Rated, RatingSteps
<1>1. ~Arrive(r)
  BY DEF Arrive
<1>2. ~Execute(r)
  BY DEF Execute, Answer, Asked, checkTenantExists, execFindRating, execSaveRating, execAdjustScore,
         execRefetch, execSaveComment, execFindComments, execFindRated
<1>3. ~dbError(r)
  BY DEF dbError, End
<1>4. ~handleTenantId(r)
  BY CallAssumption DEF handleTenantId, Await, End, FirstStatement
<1>5. Resume(r) => publishRated(r)
  BY <1>4 DEF Resume, Answered, Await, End, TenantUnknown, alreadyRated, buildRating, saveRefused,
         adjustScore, refetch, refetchFailed, publishCreated, listComments, annotateCommentsWithCanVote
<1> QED
  BY <1>1, <1>2, <1>3, <1>5 DEF Step

\* Only a subscription is subscribed.
LEMMA WhoSubscribes ==
  ASSUME Shape, NEW r \in Requests, Step(r), pc[r] # "subscribed", pc'[r] = "subscribed"
  PROVE  call[r].op = "subscribe" /\ call' = call
<1> USE DEF Shape, TypeOK, Ended
<1>1. pc[r] = "checkTenant"
  BY Course DEF Follows
<1>2. handleTenantId(r)
  <2>1. ~Arrive(r) /\ ~dbError(r)
    BY <1>1 DEF Arrive, dbError, End
  <2>2. ~Execute(r)
    BY <1>1 DEF Execute, Answer, checkTenantExists, execFindRating, execSaveRating, execAdjustScore,
      execRefetch, execSaveComment, execFindComments, execFindRated
  <2>3. Resume(r) => handleTenantId(r)
    BY <1>1 DEF Resume, Answered, End, TenantUnknown, alreadyRated, buildRating, saveRefused,
      adjustScore, refetch, refetchFailed, publishRated, publishCreated, listComments,
      annotateCommentsWithCanVote
  <2> QED
    BY <2>1, <2>2, <2>3 DEF Step
<1>3. call[r].op \in {"rateComment", "createComment", "getComments", "subscribe"}
  BY <1>1, CallAssumption DEF CallsFit, RateCalls, CreateCalls, ListCalls, SubscribeCalls
<1> QED
  BY <1>2, <1>3 DEF handleTenantId, Await, End, FirstStatement

\* Only two turns publish, and only two turns write the answer of getComments.
LEMMA WhoPublishesAndLists ==
  ASSUME NEW r \in Requests, Step(r)
  PROVE  /\ events' = events \/ publishRated(r) \/ publishCreated(r)
         /\ (UNCHANGED <<listed, shown>>) \/ listComments(r)
         /\ canVote' = canVote \/ annotateCommentsWithCanVote(r)
BY DEF Step, Arrive, Execute, Resume, dbError, Answer, Turn, answer, history, checkTenantExists,
   execFindRating, execSaveRating, execAdjustScore, execRefetch, execSaveComment, execFindComments,
   execFindRated, TenantUnknown, handleTenantId, alreadyRated, buildRating, saveRefused,
   adjustScore, refetch, refetchFailed, publishRated, publishCreated, listComments,
   annotateCommentsWithCanVote

\* Which step answers a statement.
LEMMA WhoAnswers ==
  ASSUME Shape, NEW r \in Requests, Step(r), r \in sent, pc'[r] = pc[r]
  PROVE  /\ pc[r] = "adjustScore" => execAdjustScore(r)
         /\ pc[r] = "refetch" => execRefetch(r)
         /\ pc[r] = "findRated" => execFindRated(r)
<1> USE DEF Shape, TypeOK
<1>1. ~Arrive(r) /\ ~dbError(r)
  BY DEF Arrive, Await, End, dbError, Statements
<1>2. ~Resume(r)
  BY DEF Resume, Answered, TenantUnknown, handleTenantId, alreadyRated, buildRating, saveRefused,
    adjustScore, refetch, refetchFailed, publishRated, publishCreated, listComments,
    annotateCommentsWithCanVote
<1> QED
  BY <1>1, <1>2
  DEF Step, Execute, Asked, checkTenantExists, execFindRating, execSaveRating, execAdjustScore,
      execRefetch, execSaveComment, execFindComments, execFindRated

\* An idle request can but arrive.
LEMMA FromIdle ==
  ASSUME NEW r \in Requests, Step(r), pc[r] = "idle"
  PROVE  Arrive(r)
<1>1. ~Execute(r) /\ ~dbError(r)
  BY DEF Execute, Asked, checkTenantExists, execFindRating, execSaveRating, execAdjustScore, execRefetch,
    execSaveComment, execFindComments, execFindRated, dbError, Statements
<1>2. ~Resume(r)
  BY DEF Resume, Answered, TenantUnknown, handleTenantId, alreadyRated, buildRating, saveRefused,
    adjustScore, refetch, refetchFailed, publishRated, publishCreated, listComments,
    annotateCommentsWithCanVote
<1> QED
  BY <1>1, <1>2 DEF Step

\* What has been adjusted or published stays.
LEMMA HistoryKept ==
  ASSUME [Next]_vars
  PROVE  adjusted \subseteq adjusted' /\ events \subseteq events'
<1>1. ASSUME NEW r \in Requests, Step(r)
      PROVE  adjusted \subseteq adjusted' /\ events \subseteq events'
  BY <1>1, Writers, WhoPublishesAndLists
  DEF execAdjustScore, publishRated, publishCreated, publish
<1> QED
  BY <1>1, NextCases DEF crash, removeArticle, vars, history

\* A comment that has been removed does not come back.
LEMMA GoneKept ==
  ASSUME Shape, Homes, [Next]_vars, NEW r \in Requests, Rated(r), Key(r) \in Schemas, Gone(r)
  PROVE  Gone(r)'
<1>1. PICK s \in Schemas : s = Key(r)
  OBVIOUS
<1>2. call'[r] = call[r] /\ Key(r)' = s /\ call[r].comment \in CommentIds
  BY <1>1, CallKept, CallFields DEF Rated, Shape, TypeOK
<1>3. ASSUME NEW q \in Requests, execSaveComment(q), call[r].comment \in comments'[s] PROVE FALSE
  <2>1. call[r].comment = q
    BY <1>1, <1>2, <1>3 DEF Gone, execSaveComment, Shape, TypeOK
  <2>2. Inserted(q)
    BY <1>1, <2>1 DEF Homes, ReferencesAtHome, RefersHome, Rated
  <2> QED
    BY <1>3, <2>2, RowAssumption DEF Inserted, execSaveComment, Asked
<1>4. ASSUME NEW a \in Articles, removeArticle(a) PROVE comments'[s] \subseteq comments[s]
  BY <1>4 DEF removeArticle, Shape, TypeOK
<1>5. call[r].comment \notin comments'[s]
  BY <1>1, <1>3, <1>4, NextCases, Writers DEF Gone, crash, vars, database
<1> QED
  BY <1>2, <1>5 DEF Gone

(***************************************************************************)
(* The conjuncts of the invariant.                                         *)
(***************************************************************************)
\* A rating past its UPDATE is counted, or its comment has gone.
LEMMA CountedWhenPastStep ==
  ASSUME OneTenant, IInv, CountedWhenPast, OnlySubscriptions, [Next]_vars
  PROVE  CountedWhenPast'
<1> USE DEF IInv
<1> DEFINE Past(q) == Answered(q, "adjustScore") \/ pc[q] \in {"refetch", "done"}
<1> SUFFICES ASSUME NEW q \in Requests, Rated(q)', Past(q)'
             PROVE  Key(q)' \in Schemas /\ (q \in adjusted' \/ Gone(q)')
  BY DEF CountedWhenPast
<1>1. CASE Rated(q) /\ Past(q)
  <2>1. Key(q) \in Schemas /\ (q \in adjusted \/ Gone(q))
    BY <1>1 DEF CountedWhenPast
  <2> QED
    BY <1>1, <2>1, GoneKept, HistoryKept, CallKept DEF Rated
<1>2. CASE ~ (Rated(q) /\ Past(q))
  <2>1. pc[q] # "idle" /\ Rated(q) /\ ~Past(q)
    <3>1. CASE pc[q] = "idle"
      <4>1. pc'[q] \in {"idle", "checkTenant", "failed"}
        BY <3>1, FromIdle, NextCases, OthersUndisturbed
        DEF SameLocals, Arrive, Await, End, crash, removeArticle, vars, Shape, TypeOK, Statements
      <4> QED
        BY <4>1 DEF Answered
    <3>2. CASE pc[q] # "idle"
      BY <1>2, <3>2, CallKept DEF Shape, CallsFit
    <3> QED
      BY <3>1, <3>2
  <2>2. Step(q)
    <3>1. ASSUME crash PROVE FALSE
      BY <2>1, <3>1 DEF crash, Answered, Statements
    <3> QED
      BY <2>1, <3>1, NextCases, OthersUndisturbed
      DEF SameLocals, Answered, removeArticle, vars, Shape, TypeOK
  <2>3. pc[q] = "adjustScore" /\ pc'[q] = pc[q] /\ q \in sent
    <3>1. pc'[q] # "done"
      BY <2>1, <2>2, WhoIsDone DEF publishRated, Answered
    <3> QED
      BY <2>1, <2>2, <3>1, Course DEF Answered, Follows, Ended
  <2>4. execAdjustScore(q)
    BY <2>2, <2>3, WhoAnswers DEF Shape
  <2>5. schema[q] = Key(q) /\ Key(q) \in Schemas
    BY <2>3, OwnSchema DEF Started, Statements
  <2>6. q \in adjusted' \/ Gone(q)
    BY <2>4, <2>5 DEF execAdjustScore, Gone
  <2> QED
    BY <2>1, <2>5, <2>6, GoneKept, CallKept DEF Rated
<1> QED
  BY <1>1, <1>2

\* A comment that was found again has been there for the UPDATE.
LEMMA CountedWhenRefetchedStep ==
  ASSUME OneTenant, IInv, CountedWhenPast, CountedWhenRefetched, [Next]_vars
  PROVE  CountedWhenRefetched'
<1> USE DEF IInv
<1> DEFINE Found(q) == Answered(q, "refetch") /\ rows[q] # {}
<1> SUFFICES ASSUME NEW q \in Requests, Found(q)' PROVE q \in adjusted'
  BY DEF CountedWhenRefetched
<1>1. CASE Found(q)
  BY <1>1, HistoryKept DEF CountedWhenRefetched
<1>2. CASE ~Found(q)
  <2>1. Step(q)
    BY <1>2, NextCases, OthersUndisturbed
    DEF SameLocals, Answered, crash, removeArticle, vars, Shape, TypeOK
  <2>2. pc[q] = "refetch" /\ pc'[q] = pc[q] /\ q \in sent
    BY <2>1, Course DEF Answered, Follows, Ended
  <2>3. execRefetch(q)
    BY <2>1, <2>2, WhoAnswers
  <2>4. schema[q] = Key(q) /\ Rated(q)
    BY <2>2, OwnSchema DEF Started, Statements, Shape, TypeOK, CallsFit, RatingSteps, Rated
  <2>5. rows'[q] = {ratingScore[c] : c \in {call[q].comment} \cap comments[schema[q]]}
    BY <2>3 DEF execRefetch, Answer, Shape, RowsTyped
  <2>6. ~Gone(q)
    BY <2>4, <2>5 DEF Gone
  <2> QED
    BY <2>2, <2>4, <2>6, HistoryKept DEF CountedWhenPast
<1> QED
  BY <1>1, <1>2

\* Only a subscription becomes subscribed.
LEMMA OnlySubscriptionsStep ==
  ASSUME IInv, OnlySubscriptions, [Next]_vars PROVE OnlySubscriptions'
<1> USE DEF IInv
<1> SUFFICES ASSUME NEW q \in Requests, pc'[q] = "subscribed" PROVE ~Rated(q)'
  BY DEF OnlySubscriptions
<1>1. CASE pc[q] = "subscribed"
  BY <1>1, CallKept DEF OnlySubscriptions, Shape, CallsFit
<1>2. CASE pc[q] # "subscribed"
  <2>1. Step(q)
    BY <1>2, NextCases, OthersUndisturbed
    DEF SameLocals, crash, removeArticle, vars, Shape, TypeOK
  <2> QED
    BY <1>2, <2>1, WhoSubscribes DEF Rated
<1> QED
  BY <1>1, <1>2

\* An event of a rating comes from one that found its comment again.
LEMMA AnnouncedStep ==
  ASSUME IInv, CountedWhenRefetched, AnnouncedVotesCounted, [Next]_vars
  PROVE  AnnouncedVotesCounted'
<1> SUFFICES ASSUME NEW e \in events', e.kind = "commentRated" PROVE e.by \in adjusted'
  BY DEF AnnouncedVotesCounted
<1>1. CASE e \in events
  BY <1>1, HistoryKept DEF AnnouncedVotesCounted
<1>2. CASE e \notin events
  <2>1. PICK r \in Requests : publishRated(r) \/ publishCreated(r)
    BY <1>2, NextCases, WhoPublishesAndLists DEF crash, removeArticle, vars, history
  <2>2. publishRated(r) /\ e.by = r
    BY <1>2, <2>1 DEF publishRated, publishCreated, publish
  <2>3. r \in adjusted
    BY <2>2 DEF publishRated, CountedWhenRefetched
  <2> QED
    BY <2>2, <2>3, HistoryKept
<1> QED
  BY <1>1, <1>2

\* Until it ends, a rating keeps owing the announcement of a score that does not
\* change; when it is done it has announced it.
LEMMA OwingStep ==
  ASSUME OneTenant, IInv, [Next]_vars, NEW q \in Requests, Rated(q), Owing(q),
         Key(q) \in Schemas, NEW c, c = call[q].comment, c \in comments[Key(q)],
         ratingScore'[c] = ratingScore[c]
  PROVE  Owing(q)' \/ Announced(c)'
<1> USE DEF IInv
<1>1. call'[q] = call[q]
  BY CallKept DEF Rated
<1>2. ASSUME NEW p \in Requests, p # q, Step(p) PROVE Owing(q)'
  BY <1>1, <1>2, OthersUndisturbed DEF SameLocals, Owing, Asked, Answered
<1>3. ASSUME crash PROVE Owing(q)'
  BY <1>3 DEF crash, Owing, Asked, Answered, Statements, Shape, TypeOK
<1>4. ASSUME Step(q) PROVE Owing(q)' \/ Announced(c)'
  <2>1. CASE pc'[q] \in Ended \ {"done"}
    BY <2>1 DEF Owing, Ended
  <2>2. CASE pc'[q] = "done"
    <3>1. publishRated(q)
      BY <1>4, <2>2, WhoIsDone
    <3>2. rows[q] = {ratingScore[c]}
      BY <3>1 DEF publishRated, Answered, Asked, Owing
    <3>3. publish("commentRated", q, c, ratingScore[c])
      BY <3>1, <3>2 DEF publishRated
    <3>4. PICK e \in events' : e.kind = "commentRated" /\ e.comment = c /\ e.score = ratingScore[c]
      <4> DEFINE e == [kind |-> "commentRated", by |-> q, comment |-> c, score |-> ratingScore[c],
                       to |-> {p \in Requests : pc[p] = "subscribed"}]
      <4>1. e \in events'
        BY <3>3 DEF publish
      <4>2. e.kind = "commentRated" /\ e.comment = c /\ e.score = ratingScore[c]
        OBVIOUS
      <4> QED
        BY <4>1, <4>2
    <3> QED
      BY <3>4 DEF Announced
  <2>3. CASE pc'[q] \notin Ended
    <3>1. pc[q] \in {"saveRating", "adjustScore", "refetch"} /\ pc[q] \notin Ended
      BY <1>4, Course DEF Owing, Asked, Answered, Ended
    <3>2. CASE pc'[q] = pc[q] /\ q \in sent /\ pc[q] = "refetch"
      <4>1. execRefetch(q)
        BY <1>4, <3>2, WhoAnswers
      <4>2. schema[q] = Key(q)
        BY <3>2, OwnSchema DEF Started, Statements
      <4>3. rows'[q] = {ratingScore[c]} /\ q \notin sent'
        BY <4>1, <4>2 DEF execRefetch, Answer, Shape, RowsTyped
      <4> QED
        BY <1>1, <3>2, <4>3 DEF Owing, Answered
    <3>3. CASE pc'[q] = pc[q] /\ q \in sent /\ pc[q] # "refetch"
      BY <3>1, <3>3 DEF Owing
    <3>4. CASE <<pc[q], pc'[q]>> \in Follows /\ q \in sent'
      <4>1. pc'[q] \in {"adjustScore", "refetch"}
        BY <3>1, <3>4 DEF Follows
      <4> QED
        BY <3>4, <4>1 DEF Owing, Asked
    <3> QED
      BY <1>4, <2>3, <3>1, <3>2, <3>3, <3>4, Course
  <2> QED
    BY <2>1, <2>2, <2>3
<1> QED
  BY <1>1, <1>2, <1>3, <1>4, NextCases DEF removeArticle, vars, Owing, Asked, Answered

\* The score of a comment that was rated is announced, or owed by a rating.
LEMMA ScoreOwedStep ==
  ASSUME OneTenant, IInv, ScoreOwedOrAnnounced, [Next]_vars PROVE ScoreOwedOrAnnounced'
<1> USE DEF IInv
<1> SUFFICES ASSUME NEW s \in Schemas, NEW c \in comments'[s],
                    NEW q \in ratings'[s], call'[q].comment = c
             PROVE  Announced(c)' \/ \E r \in ratings'[s] : call'[r].comment = c /\ Owing(r)'
  BY DEF ScoreOwedOrAnnounced, Raters
\* A rating that was stored before the step rated the same comment.
<1>1. ASSUME NEW r \in ratings[s]
      PROVE  /\ r \in Requests /\ Rated(r) /\ Key(r) = s
             /\ call'[r] = call[r] /\ call[r].comment \in comments[s]
  <2>1. r \in Requests /\ Rated(r) /\ Key(r) = s /\ call[r].comment \in comments[s]
    BY DEF Homes, RatingsAtHome, Shape, TypeOK
  <2> QED
    BY <2>1, CallKept DEF Rated
\* Only the execution of its INSERT stores a rating, which is then owing.
<1>2. CASE q \notin ratings[s]
  <2>1. ASSUME NEW a \in Articles, removeArticle(a) PROVE FALSE
    BY <1>2, <2>1 DEF removeArticle, Shape, TypeOK
  <2>2. PICK r \in Requests : execSaveRating(r)
    BY <1>2, <2>1, NextCases, Writers DEF crash, vars, database
  <2>3. q = r /\ pc'[q] = "saveRating"
    BY <1>2, <2>2 DEF execSaveRating, Answer, Asked, Shape, TypeOK
  <2> QED
    BY <2>3 DEF Owing
<1>3. CASE q \in ratings[s] /\ ratingScore'[c] = ratingScore[c]
  <2>1. c \in comments[s] /\ call[q].comment = c
    BY <1>1, <1>3
  <2>2. CASE Announced(c)
    <3>1. PICK e \in events : e.kind = "commentRated" /\ e.comment = c /\ e.score = ratingScore[c]
      BY <2>2 DEF Announced
    <3> QED
      BY <1>3, <3>1, HistoryKept DEF Announced
  <2>3. CASE ~Announced(c)
    <3>1. PICK r \in ratings[s] : call[r].comment = c /\ Owing(r)
      BY <1>3, <2>1, <2>3 DEF ScoreOwedOrAnnounced, Raters
    <3>2. Owing(r)' \/ Announced(c)'
      BY <1>1, <1>3, <2>1, <3>1, OwingStep
    <3>3. StoredWithComment(r)'
      BY <1>1, StoredKept DEF StoredWithComment
    <3>4. Key(r)' = s /\ call'[r].comment = c
      BY <1>1, <3>1 DEF Key
    <3>5. r \in ratings'[s]
      BY <3>3, <3>4 DEF StoredWithComment
    <3> QED
      BY <3>2, <3>4, <3>5
  <2> QED
    BY <2>2, <2>3
<1>4. CASE q \in ratings[s] /\ ratingScore'[c] # ratingScore[c]
  <2>1. PICK r \in Requests : execAdjustScore(r)
    BY <1>4, NextCases, Writers DEF crash, removeArticle, vars, database
  <2>2. c \in CommentIds
    BY TypeStep DEF TypeOK
  <2>3. call[r].comment = c /\ pc[r] = "adjustScore" /\ c \in comments[schema[r]]
    BY <1>4, <2>1, <2>2 DEF execAdjustScore, Asked, Shape, TypeOK
  <2>4. schema[r] = Key(r) /\ Key(r) = s
    BY <2>3, OwnSchema DEF Started, Statements, OneTenant
  <2>5. r \in ratings[s]
    BY <2>3, <2>4 DEF Scores, SavedBeforeAdjusting, StoredWithComment
  <2>6. ratings' = ratings /\ pc' = pc /\ call' = call
    BY <2>1 DEF execAdjustScore, Answer
  <2> QED
    BY <2>3, <2>5, <2>6 DEF Owing
<1> QED
  BY <1>2, <1>3, <1>4

\* Once a request has begun, what it asked for and began after does not change.
LEMMA RequestKept ==
  ASSUME Shape, [Next]_vars, NEW r \in Requests, pc[r] # "idle"
  PROVE  before'[r] = before[r] /\ call'[r] = call[r]
<1>1. ASSUME NEW p \in Requests, Step(p) PROVE before'[r] = before[r]
  BY <1>1, Writers DEF Arrive, Shape, TypeOK
<1> QED
  BY <1>1, CallKept, NextCases DEF Shape, CallsFit, crash, removeArticle, vars, history

\* A request that is done stays done.
LEMMA DoneKept ==
  ASSUME Shape, [Next]_vars, NEW r \in Requests, pc[r] = "done" PROVE pc'[r] = "done"
<1>1. ASSUME NEW p \in Requests, Step(p) PROVE pc'[r] = "done"
  <2>1. p # r
    BY <1>1, Course DEF Ended
  <2> QED
    BY <1>1, <2>1, OthersUndisturbed DEF SameLocals
<1>2. ASSUME crash PROVE pc'[r] = "done"
  BY <1>2 DEF crash, Statements
<1> QED
  BY <1>1, <1>2, NextCases DEF removeArticle, vars

\* The ratings that a request began after were stored before the step.
LEMMA EarlierStored ==
  ASSUME IInv, [Next]_vars, NEW r \in Requests, pc[r] # "idle",
         NEW s \in Schemas, NEW q \in ratings'[s], q \in before'[r]
  PROVE  q \in ratings[s] /\ q \in before[r] /\ call'[q] = call[q]
<1>1. q \in before[r]
  BY RequestKept DEF IInv
<1>2. pc[q] \in Ended
  BY <1>1 DEF IInv, Overlap, BeforeEnded
<1>3. q \in ratings[s]
  BY <1>2, NewRating DEF IInv, Ended
<1>4. q \in Requests /\ Rated(q)
  BY <1>3 DEF IInv, Homes, RatingsAtHome, Shape, TypeOK
<1> QED
  BY <1>1, <1>3, <1>4, CallKept DEF IInv, Rated
\* A query for the earlier ratings of its user finds them.
LEMMA RatedFoundStep ==
  ASSUME OneTenant, IInv, RatedFound, [Next]_vars PROVE RatedFound'
<1> USE DEF IInv
<1> SUFFICES ASSUME NEW r \in Requests
             PROVE  /\ canVote'[r] # {} => pc'[r] = "done"
                    /\ pc'[r] = "findRated" => /\ shown'[r] \subseteq listed'[r]
                                               /\ currentUser(r)' # NoUser
                    /\ Answered(r, "findRated")' =>
                         \A s \in Schemas : \A q \in ratings'[s] :
                           q \in before'[r] /\ call'[q].user = call'[r].user
                             /\ call'[q].comment \in listed'[r] => call'[q].comment \in rows'[r]
  BY DEF RatedFound
<1>1. canVote'[r] # {} => pc'[r] = "done"
  <2>1. ASSUME NEW p \in Requests, annotateCommentsWithCanVote(p), p = r PROVE pc'[r] = "done"
    BY <2>1 DEF annotateCommentsWithCanVote, End, Shape, TypeOK
  <2>2. ASSUME NEW p \in Requests, annotateCommentsWithCanVote(p), p # r PROVE canVote'[r] = canVote[r]
    BY <2>2 DEF annotateCommentsWithCanVote, Shape, TypeOK
  <2>3. canVote'[r] = canVote[r] \/ pc'[r] = "done"
    BY <2>1, <2>2, NextCases, WhoPublishesAndLists DEF crash, removeArticle, vars, answer
  <2> QED
    BY <2>3, DoneKept DEF RatedFound
<1>2. ASSUME pc'[r] = "findRated", pc[r] # "findRated" PROVE listComments(r)
  <2>1. Step(r)
    BY <1>2, NextCases, OthersUndisturbed
    DEF SameLocals, crash, removeArticle, vars, Shape, TypeOK, Statements
  <2>2. pc[r] = "findComments"
    BY <1>2, <2>1, Course DEF Follows, Ended
  <2> QED
    BY <1>2, <2>1, <2>2
    DEF Step, Arrive, Execute, Resume, dbError, Asked, Answered, Answer, End, Shape, TypeOK,
        checkTenantExists, execFindRating, execSaveRating, execAdjustScore, execRefetch,
        execSaveComment, execFindComments, execFindRated, TenantUnknown, handleTenantId,
        alreadyRated, buildRating, saveRefused, adjustScore, refetch, refetchFailed,
        publishRated, publishCreated, annotateCommentsWithCanVote
\* Only its own turn writes what a request lists.
<1>3. ASSUME pc[r] = "findRated"
      PROVE  listed'[r] = listed[r] /\ shown'[r] = shown[r] /\ call'[r] = call[r]
  <2>1. ASSUME NEW p \in Requests, listComments(p)
        PROVE  listed'[r] = listed[r] /\ shown'[r] = shown[r]
    BY <1>3, <2>1 DEF listComments, Answered, Shape, TypeOK
  <2> QED
    BY <1>3, <2>1, RequestKept, NextCases, WhoPublishesAndLists DEF crash, removeArticle, vars, answer
<1>4. ASSUME pc'[r] = "findRated" PROVE shown'[r] \subseteq listed'[r] /\ currentUser(r)' # NoUser
  <2>1. CASE pc[r] = "findRated"
    BY <1>3, <2>1 DEF RatedFound, currentUser
  <2>2. CASE pc[r] # "findRated"
    <3>1. /\ listed'[r] = Ids(rows[r]) /\ shown'[r] = nestComments(rows[r])
          /\ call' = call /\ currentUser(r) # NoUser
      BY <1>2, <1>4, <2>2 DEF listComments, End, Shape, TypeOK
    <3> QED
      BY <3>1, NestedWereFound DEF currentUser
  <2> QED
    BY <2>1, <2>2
<1>5. ASSUME Answered(r, "findRated")', NEW s \in Schemas, NEW q \in ratings'[s], q \in before'[r],
             call'[q].user = call'[r].user, call'[q].comment \in listed'[r]
      PROVE  call'[q].comment \in rows'[r]
  <2>1. pc[r] = "findRated"
    BY <1>2, <1>5 DEF listComments, Await, End, Answered, Shape, TypeOK
  <2>2. /\ q \in ratings[s] /\ q \in before[r] /\ call'[q] = call[q]
        /\ listed'[r] = listed[r] /\ call'[r] = call[r]
    BY <1>3, <1>5, <2>1, EarlierStored
  <2>3. CASE r \notin sent
    <3>1. rows'[r] = rows[r]
      <4>1. ASSUME Step(r) PROVE FALSE
        BY <1>5, <2>1, <2>3, <4>1, Course DEF Answered, Follows, Ended
      <4> QED
        BY <1>5, <2>1, <4>1, NextCases, OthersUndisturbed
        DEF SameLocals, Answered, crash, removeArticle, vars, Statements, Shape, TypeOK
    <3> QED
      BY <1>5, <2>1, <2>2, <2>3, <3>1 DEF RatedFound, Answered
  <2>4. CASE r \in sent
    <3>1. execFindRated(r)
      <4>1. Step(r)
        BY <1>5, <2>1, <2>4, NextCases, OthersUndisturbed
        DEF SameLocals, Answered, crash, removeArticle, vars, Statements, Shape, TypeOK
      <4> QED
        BY <1>5, <2>1, <2>4, <4>1, WhoAnswers DEF Answered
    <3>2. schema[r] = s
      BY <2>1, OwnSchema DEF Started, Statements, OneTenant
    <3>3. call[r].user = currentUser(r)
      BY <2>1 DEF RatedFound, currentUser
    <3>4. rows'[r] = {c \in listed[r] : \E p \in ratings[s] :
                        call[p].comment = c /\ call[p].user = currentUser(r)}
      BY <3>1, <3>2 DEF execFindRated, Answer, Shape, RowsTyped
    <3> QED
      BY <1>5, <2>2, <3>3, <3>4
  <2> QED
    BY <2>3, <2>4
<1> QED
  BY <1>1, <1>4, <1>5

\* What a user rated before the query began is not offered for a vote.
LEMMA EarlierVotesShownStep ==
  ASSUME OneTenant, IInv, RatedFound, EarlierVotesShown, [Next]_vars PROVE EarlierVotesShown'
<1> USE DEF IInv
<1> SUFFICES ASSUME NEW r \in Requests, NEW s \in Schemas, NEW q \in ratings'[s], Rated(q)',
                    q \in before'[r], call'[r] # NoCall, call'[r].op = "getComments",
                    call'[q].user = call'[r].user, call'[q].comment \in canVote'[r]
             PROVE  FALSE
  BY DEF EarlierVotesShown
<1>1. CASE canVote'[r] = canVote[r]
  <2>1. pc[r] = "done"
    BY <1>1 DEF RatedFound
  <2>2. q \in ratings[s] /\ q \in before[r] /\ call'[q] = call[q] /\ call'[r] = call[r]
    BY <2>1, EarlierStored, RequestKept
  <2> QED
    BY <1>1, <2>2 DEF EarlierVotesShown, Rated
<1>2. CASE canVote'[r] # canVote[r]
  <2>1. PICK p \in Requests : annotateCommentsWithCanVote(p)
    BY <1>2, NextCases, WhoPublishesAndLists DEF crash, removeArticle, vars, answer
  <2>2. /\ p = r /\ Answered(r, "findRated")
        /\ canVote'[r] = shown[r] \ rows[r]
    BY <1>2, <2>1 DEF annotateCommentsWithCanVote, Shape, TypeOK
  <2>3. q \in ratings[s] /\ q \in before[r] /\ call'[q] = call[q] /\ call'[r] = call[r]
    BY <2>2, EarlierStored, RequestKept DEF Answered
  <2> QED
    BY <2>2, <2>3 DEF RatedFound, Answered
<1> QED
  BY <1>1, <1>2

(***************************************************************************)
(* The inductive invariant of one tenant, and what follows from it.        *)
(***************************************************************************)
\* The program starts in the invariant.
LEMMA OneInvInit == Init => OneInv
<1> SUFFICES ASSUME Init PROVE OneInv
  OBVIOUS
<1> USE DEF Init
<1>1. CountedWhenPast /\ CountedWhenRefetched /\ OnlySubscriptions /\ AnnouncedVotesCounted
  BY DEF CountedWhenPast, CountedWhenRefetched, OnlySubscriptions, AnnouncedVotesCounted, Answered
<1>2. ScoreOwedOrAnnounced /\ RatedFound /\ EarlierVotesShown
  BY DEF ScoreOwedOrAnnounced, Raters, RatedFound, EarlierVotesShown, Answered
<1> QED
  BY <1>1, <1>2, IInvInit DEF OneInv

\* Each step keeps it.
LEMMA OneInvStep == ASSUME OneTenant PROVE OneInv /\ [Next]_vars => OneInv'
BY IInvStep, CountedWhenPastStep, CountedWhenRefetchedStep, OnlySubscriptionsStep, AnnouncedStep,
   ScoreOwedStep, RatedFoundStep, EarlierVotesShownStep
DEF OneInv

\* OneInv holds in every reachable state of a service with one tenant.
THEOREM OneTenantInvariance == ASSUME OneTenant PROVE Spec => []OneInv
BY OneInvInit, OneInvStep, PTL DEF Spec

\* With one tenant a score is the balance of the stored ratings, those apart whose
\* request has not adjusted it yet, or was told of a failure before it did.
THEOREM ScoreAccounted == ASSUME OneTenant PROVE Spec => []ScoreAccountsForVotes
<1>1. ASSUME OneInv, NEW s \in Schemas, NEW c \in comments[s], NEW up
      PROVE  Counted(c, up) = Votes(s, c, up) \ Uncounted
  <2>1. ASSUME NEW q \in Counted(c, up) PROVE q \in Votes(s, c, up) \ Uncounted
    <3>1. /\ q \in adjusted /\ q \in Requests /\ call[q].comment = c /\ call[q].isUpvote = up
          /\ Key(q) \in Schemas /\ StoredWithComment(q)
          /\ pc[q] \in Ended \cup {"refetch"} \/ Answered(q, "adjustScore")
      BY <1>1 DEF Counted, OneInv, IInv, Shape, TypeOK, Scores, AdjustedOnce
    <3>2. q \in ratings[s]
      BY <1>1, <3>1 DEF StoredWithComment, OneTenant
    <3>3. q \notin Uncounted
      BY <3>1 DEF Uncounted, Asked, Answered, Ended
    <3> QED
      BY <3>1, <3>2, <3>3 DEF Votes
  <2>2. ASSUME NEW q \in Votes(s, c, up), q \notin Uncounted PROVE q \in Counted(c, up)
    <3>1. /\ q \in Requests /\ q \in ratings[s] /\ call[q].comment = c /\ call[q].isUpvote = up
          /\ Rated(q) /\ Key(q) = s /\ pc[q] \notin {"checkTenant", "findRating"}
      BY <1>1 DEF Votes, OneInv, IInv, Shape, TypeOK, Homes, RatingsAtHome
    <3>2. pc[q] \in {"saveRating", "adjustScore", "refetch", "done", "failed", "lost"}
      BY <1>1, <3>1
      DEF OneInv, OnlySubscriptions, IInv, Shape, TypeOK, CallsFit, Rated, Statements, Ended
    <3>3. q \in adjusted \/ Answered(q, "adjustScore") \/ pc[q] \in {"refetch", "done"}
      BY <2>2, <3>1, <3>2 DEF Uncounted, Asked, Answered
    <3>4. ~Gone(q)
      BY <1>1, <3>1 DEF Gone
    <3>5. q \in adjusted
      BY <1>1, <3>1, <3>3, <3>4 DEF OneInv, CountedWhenPast
    <3> QED
      BY <3>1, <3>5 DEF Counted
  <2> QED
    BY <2>1, <2>2
<1>2. OneInv => ScoreAccountsForVotes
  <2> SUFFICES ASSUME OneInv, NEW s \in Schemas, NEW c \in comments[s]
               PROVE  ratingScore[c] = Cardinality(Votes(s, c, TRUE) \ Uncounted)
                                         - Cardinality(Votes(s, c, FALSE) \ Uncounted)
    BY DEF ScoreAccountsForVotes
  <2>1. c \in CommentIds
    BY DEF OneInv, IInv, Shape, TypeOK
  <2> QED
    BY <1>1, <2>1 DEF OneInv, IInv, Scores, ScoreIsCount
<1> QED
  BY <1>2, OneTenantInvariance, PTL

\* With one tenant a commentRated event tells of a rating that changed the score.
THEOREM AnnouncedCounted == ASSUME OneTenant PROVE Spec => []AnnouncedVotesCounted
<1>1. OneInv => AnnouncedVotesCounted
  BY DEF OneInv
<1> QED
  BY <1>1, OneTenantInvariance, PTL

\* With one tenant, when the ratings of a comment are over and went well, one of
\* the events they published, in whatever order, carries the stored score.
THEOREM FinalAnnounced == ASSUME OneTenant PROVE Spec => []FinalScoreAnnounced
<1>1. OneInv => FinalScoreAnnounced
  <2> SUFFICES ASSUME OneInv, NEW s \in Schemas, NEW c \in comments[s],
                      Raters(s, c) # {}, \A r \in Raters(s, c) : pc[r] = "done"
               PROVE  Announced(c)
    BY DEF FinalScoreAnnounced, Announced, Raters
  <2>1. \A r \in Raters(s, c) : ~Owing(r)
    BY DEF Owing, Asked, Answered
  <2> QED
    BY <2>1 DEF OneInv, ScoreOwedOrAnnounced
<1> QED
  BY <1>1, OneTenantInvariance, PTL

\* With one tenant getComments offers no user a vote on a comment it had rated
\* before the query began.
THEOREM EarlierVotesSeen == ASSUME OneTenant PROVE Spec => []EarlierVotesShown
<1>1. OneInv => EarlierVotesShown
  BY DEF OneInv
<1> QED
  BY <1>1, OneTenantInvariance, PTL
=============================================================================
