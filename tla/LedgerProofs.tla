---------------------------- MODULE LedgerProofs ----------------------------
(***************************************************************************)
(* Comments implements VoteLedger, for every set of requests, tenants,     *)
(* calls and mishaps: each step is a step of the ledger, or leaves it as   *)
(* it is.                                                                  *)
(***************************************************************************)
EXTENDS CommentsProofs

\* The variables of the ledger, as the service shows them.
VotesOf == [r \in Requests |->
              IF Rated(r) THEN [voter |-> call[r].user, comment |-> call[r].comment,
                                up |-> call[r].isUpvote] ELSE NoCall]
Standing == UNION {ratings[s] : s \in Schemas}
Closed == {r \in Requests : Rated(r) /\ pc[r] \in Ended}
EarlierVotes == [r \in Requests |-> IF Rated(r) THEN {q \in before[r] : Rated(q)} ELSE {}]

\* A vote is none of the ledger's empty ballots.
NoCallIsNoVote == NoCall \notin [voter : Users, comment : CommentIds, up : BOOLEAN]

\* At the start nobody has voted.
LEMMA LedgerInit == Init => Ledger!Init
<1> SUFFICES ASSUME Init PROVE Ledger!Init
  OBVIOUS
<1>1. \A r \in Requests : ~Rated(r)
  BY DEF Init, Rated
<1>2. VotesOf = [r \in Requests |-> NoCall] /\ Closed = {} /\ EarlierVotes = [r \in Requests |-> {}]
  BY <1>1 DEF VotesOf, Closed, EarlierVotes
<1>3. Standing = {}
  BY DEF Init, Standing
<1> QED
  BY <1>2, <1>3 DEF Init, Ledger!Init, VotesOf, Closed, EarlierVotes, Standing

\* What the ballot of a request says.
LEMMA VoteOf ==
  ASSUME Shape, NEW r \in Requests
  PROVE  /\ Rated(r) => /\ VotesOf[r] \in [voter : Users, comment : CommentIds, up : BOOLEAN]
                        /\ VotesOf[r].voter = call[r].user
                        /\ VotesOf[r].comment = call[r].comment
                        /\ VotesOf[r].up = call[r].isUpvote
         /\ ~Rated(r) => VotesOf[r] = NoCall
BY CallFields DEF VotesOf, Rated, Shape, TypeOK

\* Where nothing is called, no ballot changes.
LEMMA BallotsKept ==
  ASSUME call' = call, before' = before
  PROVE  VotesOf' = VotesOf /\ EarlierVotes' = EarlierVotes
BY DEF VotesOf, EarlierVotes, Rated

\* Ballots are closed for good.
LEMMA ClosedGrows ==
  ASSUME Shape, [Next]_vars PROVE Closed \subseteq Closed'
<1> SUFFICES ASSUME NEW q \in Requests, Rated(q), pc[q] \in Ended
             PROVE  Rated(q)' /\ pc'[q] \in Ended
  BY DEF Closed
<1> QED
  BY CallKept, EndedKept DEF Rated

\* A step that neither calls, saves nor adjusts closes ballots at most.
LEMMA CloseStep ==
  ASSUME NoCallIsNoVote, IInv, [Next]_vars, call' = call, before' = before,
         Standing' = Standing, adjusted' = adjusted, ratingScore' = ratingScore
  PROVE  Ledger!Close
<1>1. VotesOf' = VotesOf /\ EarlierVotes' = EarlierVotes
  BY BallotsKept
<1>2. Closed \subseteq Closed'
  BY ClosedGrows DEF IInv
<1>3. Closed' \in SUBSET {b \in Requests : VotesOf[b] # NoCall}
  <2> SUFFICES ASSUME NEW b \in Closed' PROVE b \in Requests /\ VotesOf[b] # NoCall
    BY DEF Closed
  <2>1. b \in Requests /\ Rated(b)
    BY DEF Closed, Rated
  <2> QED
    BY <2>1, VoteOf DEF IInv, NoCallIsNoVote
<1> QED
  BY <1>1, <1>2, <1>3 DEF Ledger!Close, VotesOf, Closed, EarlierVotes, Standing

\* A rating that arrives opens its ballot; whatever else arrives is none.
LEMMA OpenStep ==
  ASSUME NoCallIsNoVote, IInv, [Next]_vars, NEW r \in Requests, Arrive(r)
  PROVE  Ledger!Open(r) \/ UNCHANGED Ledger!vars
<1> USE DEF IInv
<1>1. /\ pc[r] = "idle" /\ call[r] = NoCall /\ ~Rated(r)
      /\ before' = [before EXCEPT ![r] = {q \in Requests : pc[q] \in Ended}]
      /\ UNCHANGED <<ratings, adjusted, ratingScore>>
      /\ pc'[r] \in {"checkTenant", "failed"} /\ call'[r] \in Calls
      /\ \A q \in Requests : q # r => pc'[q] = pc[q] /\ call'[q] = call[q] /\ Rated(q)' = Rated(q)
  BY DEF Arrive, Await, End, Shape, TypeOK, CallsFit, Rated, database
<1>2. Standing' = Standing
  BY <1>1 DEF Standing
<1>3. \A q \in Requests : q # r => VotesOf'[q] = VotesOf[q]
  BY <1>1 DEF VotesOf
<1>4. \A q \in Requests : q # r => EarlierVotes'[q] = EarlierVotes[q]
  <2> SUFFICES ASSUME NEW q \in Requests, q # r PROVE EarlierVotes'[q] = EarlierVotes[q]
    OBVIOUS
  <2>1. before'[q] = before[q] /\ before[q] \subseteq Requests
    BY <1>1 DEF Shape, TypeOK
  <2>2. \A p \in before[q] : p # r
    BY <1>1 DEF Overlap, BeforeEnded, Ended
  <2>3. \A p \in before[q] : Rated(p)' = Rated(p)
    BY <1>1, <2>1, <2>2
  <2> QED
    BY <1>1, <2>1, <2>3 DEF EarlierVotes
<1>5. CASE Rated(r)'
  <2>1. VotesOf[r] = NoCall
    BY <1>1 DEF VotesOf
  <2>2. PICK v : v = VotesOf'[r]
    OBVIOUS
  <2>3. v \in [voter : Users, comment : CommentIds, up : BOOLEAN]
    BY <1>1, <1>5, <2>2, CallFields DEF VotesOf, Rated
  <2>4. VotesOf' = [VotesOf EXCEPT ![r] = v]
    BY <1>3, <2>2 DEF VotesOf
  <2>5. EarlierVotes'[r] = Closed
    <3>1. before'[r] = {q \in Requests : pc[q] \in Ended}
      BY <1>1 DEF Shape, TypeOK
    <3>2. r \notin before'[r] /\ r \notin Closed
      BY <1>1, <3>1 DEF Closed, Ended
    <3> QED
      BY <1>1, <1>5, <3>1, <3>2 DEF EarlierVotes, Closed
  <2>6. EarlierVotes' = [EarlierVotes EXCEPT ![r] = Closed]
    BY <1>4, <2>5 DEF EarlierVotes
  <2>7. Closed' \in {Closed, Closed \cup {r}}
    BY <1>1, <1>5 DEF Closed, Ended
  <2>8. Ledger!Open(r)
    BY <1>1, <1>2, <2>1, <2>3, <2>4, <2>6, <2>7
    DEF Ledger!Open, Ledger!Votes, VotesOf, Closed, EarlierVotes, Standing
  <2> QED
    BY <2>8
<1>6. CASE ~Rated(r)'
  <2>1. VotesOf' = VotesOf
    BY <1>1, <1>3, <1>6 DEF VotesOf
  <2>2. EarlierVotes' = EarlierVotes
    BY <1>1, <1>4, <1>6 DEF EarlierVotes
  <2>3. Closed' = Closed
    BY <1>1, <1>6 DEF Closed
  <2> QED
    BY <1>1, <1>2, <2>1, <2>2, <2>3 DEF Ledger!vars, VotesOf, Closed, EarlierVotes, Standing
<1> QED
  BY <1>5, <1>6

\* A rating is saved as the ledger casts a ballot: once, before its voter is
\* answered, and over none that was closed when it was opened.
LEMMA CastStep ==
  ASSUME NoCallIsNoVote, IInv, [Next]_vars, NEW r \in Requests, execSaveRating(r), ratings' # ratings
  PROVE  Ledger!Cast(r)
<1> USE DEF IInv
<1>1. /\ pc[r] = "saveRating" /\ r \in sent
      /\ ratings' = [ratings EXCEPT ![schema[r]] = @ \cup {r}]
      /\ UNCHANGED <<call, before, pc, adjusted, ratingScore>>
  BY DEF execSaveRating, Asked, Answer
<1>2. Rated(r) /\ schema[r] \in Schemas
  BY <1>1 DEF Shape, TypeOK, CallsFit, SchemasFit, Rated, RatingSteps, Started, Statements
<1>3. Standing' = Standing \cup {r}
  BY <1>1, <1>2 DEF Standing, Shape, TypeOK
<1>4. UNCHANGED <<VotesOf, EarlierVotes, Closed>>
  BY <1>1, BallotsKept DEF Closed, Rated
<1>5. r \notin Standing \cup adjusted \cup Closed
  BY <1>1 DEF Standing, Closed, Ended, Asked, Answered, Homes, RatingsAtHome, Scores, AdjustedOnce
<1>6. ASSUME NEW q \in Standing \cap EarlierVotes[r],
             VotesOf[q].voter = VotesOf[r].voter, VotesOf[q].comment = VotesOf[r].comment
      PROVE  FALSE
  <2>1. q \in before[r] /\ Rated(q) /\ q \in Requests
    BY <1>2, <1>6 DEF EarlierVotes, Shape, TypeOK
  <2>2. SameVote(q, r)
    BY <1>2, <1>6, <2>1, VoteOf DEF SameVote
  <2>3. FoundNone(r)
    BY <1>1 DEF FoundNone
  <2> QED
    BY <1>6, <2>1, <2>2, <2>3 DEF Standing, Overlap, NoEarlierVote
<1>7. VotesOf[r] # NoCall
  BY <1>2, VoteOf DEF NoCallIsNoVote
<1> QED
  BY <1>1, <1>3, <1>4, <1>5, <1>6, <1>7
  DEF Ledger!Cast, Ledger!SameVoter, VotesOf, Closed, EarlierVotes, Standing

\* A score is adjusted as the ledger counts a ballot: once, while it stands and
\* is not closed.
LEMMA CountStep ==
  ASSUME IInv, [Next]_vars, NEW r \in Requests, execAdjustScore(r),
         adjusted' # adjusted \/ ratingScore' # ratingScore
  PROVE  Ledger!Count(r)
<1> USE DEF IInv
<1> DEFINE c == call[r].comment
<1>1. /\ pc[r] = "adjustScore" /\ r \in sent
      /\ c \in comments[schema[r]] /\ adjusted' = adjusted \cup {r}
      /\ ratingScore' = [ratingScore EXCEPT ![c] = IF call[r].isUpvote THEN @ + 1 ELSE @ - 1]
      /\ UNCHANGED <<call, before, pc, ratings>>
  BY DEF execAdjustScore, Asked, Answer
<1>2. Rated(r) /\ schema[r] \in Schemas /\ Key(r) \in Schemas
  BY <1>1 DEF Shape, TypeOK, CallsFit, SchemasFit, Rated, RatingSteps, Started, Statements
<1>3. Key(r) = schema[r]
  BY <1>1, <1>2 DEF Homes, CommentsAtHome, ReferencesAtHome, RefersHome, Rated
<1>4. r \in Standing
  BY <1>1, <1>2, <1>3 DEF Standing, Scores, SavedBeforeAdjusting, StoredWithComment
<1>5. r \notin adjusted \cup Closed
  BY <1>1 DEF Closed, Ended, Answered, Scores, AdjustedOnce
<1>6. UNCHANGED <<VotesOf, EarlierVotes, Closed, Standing>>
  BY <1>1, BallotsKept DEF Closed, Rated, Standing
<1>7. VotesOf[r].comment = c /\ VotesOf[r].up = call[r].isUpvote
  BY <1>2, VoteOf
<1> QED
  BY <1>1, <1>4, <1>5, <1>6, <1>7 DEF Ledger!Count, VotesOf, Closed, EarlierVotes, Standing

\* Removing an article removes comments with all their ratings.
LEMMA RemoveStep ==
  ASSUME IInv, NEW a \in Articles, removeArticle(a)
  PROVE  Ledger!Remove
<1> USE DEF IInv
<1>1. UNCHANGED <<call, before, pc, adjusted, ratingScore>>
  BY DEF removeArticle, history
<1>2. PICK gone :
        ratings' = [ratings EXCEPT ![ArticleHome[a]] = {q \in @ : call[q].comment \notin gone}]
  BY DEF removeArticle
<1>3. UNCHANGED <<VotesOf, EarlierVotes, Closed>>
  BY <1>1, BallotsKept DEF Closed, Rated
<1>4. ASSUME NEW q \in Standing
      PROVE  /\ VotesOf[q].comment = call[q].comment
             /\ q \in ratings[Home(call[q].comment)] /\ Home(call[q].comment) \in Schemas
             /\ \A s \in Schemas : q \in ratings[s] => s = Home(call[q].comment)
  <2>1. PICK s \in Schemas : q \in ratings[s]
    BY DEF Standing
  <2>2. \A t \in Schemas : q \in ratings[t] => Home(call[q].comment) = t
    BY DEF Homes, RatingsAtHome, CommentsAtHome
  <2>3. Rated(q) /\ q \in Requests
    BY <2>1 DEF Homes, RatingsAtHome, Shape, TypeOK
  <2> QED
    BY <2>1, <2>2, <2>3, VoteOf
<1>5. ASSUME NEW q \in Standing
      PROVE  q \in Standing' <=> ~ (Home(call[q].comment) = ArticleHome[a] /\ call[q].comment \in gone)
  <2>1. \A s \in Schemas : ratings'[s] = IF s = ArticleHome[a]
                                         THEN {p \in ratings[s] : call[p].comment \notin gone}
                                         ELSE ratings[s]
    BY <1>2 DEF Shape, TypeOK
  <2>2. PICK h \in Schemas : h = Home(call[q].comment) /\ q \in ratings[h]
                             /\ \A s \in Schemas : q \in ratings[s] => s = h
    BY <1>4
  <2>3. q \in Standing' <=> q \in ratings'[h]
    <3>1. q \in Standing' <=> \E s \in Schemas : q \in ratings'[s]
      BY DEF Standing
    <3>2. \A s \in Schemas : q \in ratings'[s] => s = h
      BY <2>1, <2>2
    <3> QED
      BY <3>1, <3>2
  <2> QED
    BY <2>1, <2>2, <2>3
<1>6. Standing' \subseteq Standing
  BY <1>2 DEF Standing, Shape, TypeOK
<1>7. \A p, q \in Standing :
        VotesOf[p].comment = VotesOf[q].comment => (p \in Standing' <=> q \in Standing')
  BY <1>4, <1>5
<1> QED
  BY <1>1, <1>3, <1>6, <1>7 DEF Ledger!Remove, VotesOf, Closed, EarlierVotes, Standing

\* Every step is a step of the ledger, or leaves it alone.
LEMMA LedgerStep ==
  ASSUME NoCallIsNoVote, IInv, [Next]_vars
  PROVE  [Ledger!Next]_(Ledger!vars)
<1>1. ASSUME NEW r \in Requests, Step(r) PROVE [Ledger!Next]_(Ledger!vars)
  <2>1. CASE Arrive(r)
    BY <2>1, OpenStep DEF Ledger!Next
  <2>2. CASE execSaveRating(r) /\ ratings' # ratings
    BY <2>2, CastStep DEF Ledger!Next
  <2>3. CASE execAdjustScore(r) /\ (adjusted' # adjusted \/ ratingScore' # ratingScore)
    BY <2>3, CountStep DEF Ledger!Next
  <2>4. CASE UNCHANGED <<call, before, ratings, adjusted, ratingScore>>
    BY <2>4, CloseStep DEF Ledger!Next, Standing
  <2>5. execSaveRating(r) => UNCHANGED <<call, before, adjusted, ratingScore>>
    BY DEF execSaveRating, Answer
  <2>6. execAdjustScore(r) => UNCHANGED <<call, before, ratings>>
    BY DEF execAdjustScore, Answer
  <2> QED
    BY <1>1, <2>1, <2>2, <2>3, <2>4, <2>5, <2>6, Writers
<1>2. CASE crash
  BY <1>2, CloseStep DEF Ledger!Next, Standing, crash, database, history
<1>3. ASSUME NEW a \in Articles, removeArticle(a) PROVE [Ledger!Next]_(Ledger!vars)
  BY <1>3, RemoveStep DEF Ledger!Next
<1>4. CASE UNCHANGED vars
  BY <1>4, CloseStep DEF Ledger!Next, Standing, vars, database, history
<1> QED
  BY <1>1, <1>2, <1>3, <1>4, NextCases

\* Whatever interleaves, fails, restarts or is removed, voting keeps the promises
\* of the ledger.
THEOREM LedgerKept == ASSUME NoCallIsNoVote PROVE Spec => VotingKeepsLedger
<1>1. IInv /\ [Next]_vars => [Ledger!Next]_(Ledger!vars)
  BY LedgerStep
<1> QED
  BY <1>1, LedgerInit, Invariance, PTL DEF Spec, VotingKeepsLedger, Ledger!Spec
=============================================================================
