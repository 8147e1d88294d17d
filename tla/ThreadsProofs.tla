---------------------------- MODULE ThreadsProofs ----------------------------
(***************************************************************************)
(* Theorems about Threads, for any number of comments, and about Nesting.  *)
(***************************************************************************)
EXTENDS Threads, FiniteSetTheorems, TLAPS

Asks == {c \in Stored : articleId[c] = Asked}

\* A list has each member of S once, the newest first.
Newest(list) == \A i, j \in DOMAIN list : i < j => createdAt[list[i]] >= createdAt[list[j]]
Lists(list, S) == list \in Seq(Stored) /\ ToSet(list) = S /\ IsInjective(list) /\ Newest(list)

\* The comments at positions before n, and those the second loop has taken.
Before(n) == {comments[i] : i \in 1 .. n - 1}
Taken == IF pc \in {"findAll", "initialize"} THEN {}
         ELSE IF pc = "attach" THEN Before(at) ELSE ToSet(comments)

Shape ==
  /\ TypeOK
  /\ pc \in {"findAll", "initialize", "attach", "findRated", "annotate", "map", "done"}
  /\ parentId \in [Stored -> Stored \cup {NoComment}]
  /\ loggedIn \in BOOLEAN /\ (pc = "annotate" => loggedIn)
  /\ children = [c \in Stored |-> children[c]]

\* The list found has the article's comments, and the map those the first loop
\* has taken.
Queried ==
  /\ IF pc = "findAll" THEN comments = <<>> ELSE Lists(comments, Asks)
  /\ commentMap = CASE pc = "findAll" -> {}
                    [] pc = "initialize" -> Before(at)
                    [] OTHER -> ToSet(comments)

\* A list of children has the replies taken so far to a comment in the map, and
\* the list of roots the comments taken that answer none.
Nested ==
  /\ \A c \in Stored : Lists(children[c], {d \in Taken : c \in commentMap /\ parentId[d] = c})
  /\ Lists(rootComments, {d \in Taken : parentId[d] = NoComment})

Annotated ==
  \A c \in Stored :
    canVote[c] = IF pc \in {"map", "done"} /\ loggedIn /\ c \in Visited(rootComments)
                 THEN c \notin rated ELSE Undefined

Mapped ==
  pc = "done" =>
    answer = [roots |-> rootComments, nodes |-> {CommentDto(c) : c \in Visited(rootComments)}]

IInv == Shape /\ Queried /\ Nested /\ Annotated /\ Mapped

(***************************************************************************)
(* Nesting: the set shown is closed, and nothing is in it without reason.  *)
(***************************************************************************)
\* A found comment that is a root, or whose parent is shown, is shown.
LEMMA NestedClosed ==
  ASSUME NEW found, NEW e \in found, e.parentId \in nestComments(found) \cup {NoComment}
  PROVE  e.id \in nestComments(found)
BY Zenon DEF nestComments

\* Only what is in every closed set of found comments is shown.
LEMMA NestedLeast ==
  ASSUME NEW found, NEW tree \in SUBSET Ids(found),
         \A e \in found : e.parentId \in tree \cup {NoComment} => e.id \in tree
  PROVE  nestComments(found) \subseteq tree
BY DEF nestComments

\* A comment shown is a root, or its parent is shown too.
LEMMA NestedBelowParent ==
  ASSUME NEW found, NEW i \in nestComments(found)
  PROVE  \E e \in found : e.id = i /\ e.parentId \in nestComments(found) \cup {NoComment}
<1> DEFINE rest == nestComments(found) \ {i}
<1> SUFFICES ASSUME ~ \E e \in found : e.id = i /\ e.parentId \in nestComments(found) \cup {NoComment}
             PROVE  FALSE
  OBVIOUS
<1>1. rest \in SUBSET Ids(found)
  BY DEF nestComments, Ids
<1>2. \A e \in found : e.parentId \in rest \cup {NoComment} => e.id \in rest
  BY NestedClosed
<1> QED
  BY <1>1, <1>2, NestedLeast

(***************************************************************************)
(* Lists.                                                                  *)
(***************************************************************************)
\* A list stays a list of its set, newest first, when a comment that is not on it
\* and not newer than any on it is appended.
LEMMA Appended ==
  ASSUME NEW list, NEW S, Lists(list, S), NEW d \in Stored, d \notin S,
         \A e \in S : createdAt[e] >= createdAt[d]
  PROVE  Lists(Append(list, d), S \cup {d})
<1> DEFINE longer == Append(list, d)
<1>1. list \in Seq(Stored) /\ Len(list) \in Nat /\ DOMAIN list = 1 .. Len(list)
  BY DEF Lists
<1>2. /\ longer \in Seq(Stored) /\ DOMAIN longer = 1 .. Len(list) + 1
      /\ \A i \in 1 .. Len(list) : longer[i] = list[i]
      /\ longer[Len(list) + 1] = d
  BY <1>1
<1>3. \A i \in 1 .. Len(list) : list[i] \in S
  BY <1>1 DEF Lists, ToSet
<1>4. \A i \in 1 .. Len(list) + 1 : i \in 1 .. Len(list) \/ i = Len(list) + 1
  BY <1>1
<1>5. ToSet(longer) = S \cup {d}
  <2>1. ToSet(longer) \subseteq S \cup {d}
    BY <1>2, <1>3, <1>4 DEF ToSet
  <2>2. ASSUME NEW e \in S PROVE e \in ToSet(longer)
    <3>1. PICK i \in 1 .. Len(list) : list[i] = e
      BY <1>1 DEF Lists, ToSet
    <3>2. i \in DOMAIN longer /\ longer[i] = e
      BY <3>1, <1>1, <1>2
    <3> QED
      BY <3>2 DEF ToSet
  <2>3. d \in ToSet(longer)
    BY <1>1, <1>2 DEF ToSet
  <2> QED
    BY <2>1, <2>2, <2>3
<1>6. IsInjective(longer)
  <2> SUFFICES ASSUME NEW i \in 1 .. Len(list) + 1, NEW j \in 1 .. Len(list) + 1, longer[i] = longer[j]
               PROVE  i = j
    BY <1>2 DEF IsInjective
  <2>1. \A a, b \in 1 .. Len(list) : list[a] = list[b] => a = b
    BY <1>1 DEF Lists, IsInjective
  <2> QED
    BY <2>1, <1>2, <1>3, <1>4
<1>7. Newest(longer)
  <2> SUFFICES ASSUME NEW i \in 1 .. Len(list) + 1, NEW j \in 1 .. Len(list) + 1, i < j
               PROVE  createdAt[longer[i]] >= createdAt[longer[j]]
    BY <1>2 DEF Newest
  <2>1. i \in 1 .. Len(list)
    BY <1>1
  <2>2. CASE j \in 1 .. Len(list)
    BY <2>1, <2>2, <1>1, <1>2 DEF Lists, Newest
  <2>3. CASE j = Len(list) + 1
    BY <2>1, <2>3, <1>2, <1>3
  <2> QED
    BY <2>2, <2>3, <1>4
<1> QED
  BY <1>2, <1>5, <1>6, <1>7 DEF Lists

\* The empty list is the list of no comments.
LEMMA Empty == Lists(<<>>, {})
BY DEF Lists, ToSet, IsInjective, Newest

\* A list of no comments is empty.
LEMMA OnlyEmpty ==
  ASSUME NEW list, Lists(list, {})
  PROVE  list = <<>>
<1>1. list \in Seq(Stored) /\ ToSet(list) = {}
  BY DEF Lists
<1>2. Len(list) \in Nat /\ DOMAIN list = 1 .. Len(list)
  BY <1>1
<1>3. DOMAIN list = {}
  BY <1>1 DEF ToSet
<1>4. 1 \notin 1 .. Len(list)
  BY <1>2, <1>3
<1>5. Len(list) = 0
  BY <1>2, <1>4
<1> QED
  BY <1>1, <1>5

\* Nothing is before the first position, and all is before the position behind the
\* last; in between, the comment there joins those before, is none of them, and
\* is not newer than they are.
LEMMA BeforeLemma ==
  ASSUME comments \in Seq(Stored), IsInjective(comments), Newest(comments),
         NEW n \in 1 .. Len(comments) + 1
  PROVE  /\ Before(1) = {}
         /\ Before(n) \subseteq ToSet(comments)
         /\ n \notin DOMAIN comments => Before(n) = ToSet(comments)
         /\ n \in DOMAIN comments =>
              /\ n + 1 \in 1 .. Len(comments) + 1
              /\ Before(n + 1) = Before(n) \cup {comments[n]}
              /\ comments[n] \in ToSet(comments) /\ comments[n] \in Stored
              /\ comments[n] \notin Before(n)
              /\ \A e \in Before(n) : createdAt[e] >= createdAt[comments[n]]
<1>1. Len(comments) \in Nat /\ DOMAIN comments = 1 .. Len(comments)
  OBVIOUS
<1>2. n \in Nat /\ n >= 1 /\ n <= Len(comments) + 1
  BY <1>1
<1>3. Before(1) = {}
  BY DEF Before
<1>4. \A i \in 1 .. n - 1 : i \in DOMAIN comments
  BY <1>1, <1>2
<1>5. Before(n) \subseteq ToSet(comments)
  BY <1>4 DEF Before, ToSet
<1>6. ASSUME n \notin DOMAIN comments PROVE Before(n) = ToSet(comments)
  <2>1. 1 .. n - 1 = DOMAIN comments
    BY <1>1, <1>2, <1>6
  <2> QED
    BY <2>1 DEF Before, ToSet
<1>7. ASSUME n \in DOMAIN comments
      PROVE  /\ n + 1 \in 1 .. Len(comments) + 1
             /\ Before(n + 1) = Before(n) \cup {comments[n]}
             /\ comments[n] \in ToSet(comments) /\ comments[n] \in Stored
             /\ comments[n] \notin Before(n)
             /\ \A e \in Before(n) : createdAt[e] >= createdAt[comments[n]]
  <2>1. n + 1 \in 1 .. Len(comments) + 1
    BY <1>1, <1>7
  <2>2. 1 .. (n + 1) - 1 = (1 .. n - 1) \cup {n}
    BY <1>2
  <2>3. Before(n + 1) = Before(n) \cup {comments[n]}
    BY <2>2 DEF Before
  <2>4. comments[n] \in ToSet(comments) /\ comments[n] \in Stored
    BY <1>1, <1>7 DEF ToSet
  <2>5. \A i \in 1 .. n - 1 : i # n /\ i < n
    BY <1>2
  <2>6. comments[n] \notin Before(n)
    BY <1>4, <1>7, <2>5 DEF Before, IsInjective
  <2>7. \A e \in Before(n) : createdAt[e] >= createdAt[comments[n]]
    BY <1>4, <1>7, <2>5 DEF Before, Newest
  <2> QED
    BY <2>1, <2>3, <2>4, <2>6, <2>7
<1> QED
  BY <1>3, <1>5, <1>6, <1>7

\* What the query may return lists what it asks for.
LEMMA QueryLists ==
  ASSUME findAll
  PROVE  Lists(comments, Asks)'
<1> DEFINE n == Cardinality(Asks)
<1>1. IsFiniteSet(Asks)
  BY StoredAssumption, FS_Subset DEF Asks
<1>2. n \in Nat
  BY <1>1, FS_CardinalityType
<1>3. /\ comments' \in [1 .. n -> Asks]
      /\ \A i, j \in 1 .. n : i # j => comments'[i] # comments'[j]
      /\ \A i, j \in DOMAIN comments' : i < j => createdAt[comments'[i]] >= createdAt[comments'[j]]
  BY DEF findAll, SetToSeqs, Asks
<1>4. comments' \in Injection(1 .. n, Asks)
  BY <1>3 DEF Injection, IsInjective
<1>5. IsFiniteSet(1 .. n) /\ Cardinality(1 .. n) = n
  BY <1>2, FS_Interval
<1>6. comments' \in Surjection(1 .. n, Asks)
  BY <1>1, <1>4, <1>5, FS_Injection
<1>7. ToSet(comments') = Asks
  BY <1>3, <1>6 DEF ToSet, Surjection
<1>8. comments' \in Seq(Stored)
  BY <1>2, <1>3 DEF Asks
<1>9. Asks' = Asks /\ createdAt' = createdAt
  BY DEF findAll, columns, Asks
<1> QED
  BY <1>3, <1>4, <1>7, <1>8, <1>9 DEF Lists, Newest, Injection

(***************************************************************************)
(* The invariant.                                                          *)
(***************************************************************************)
LEMMA IInvInit == Init => IInv
<1> SUFFICES ASSUME Init PROVE IInv
  OBVIOUS
<1> USE DEF Init
<1>1. Shape
  BY DEF Shape, TypeOK, ToSet
<1>2. Queried
  BY DEF Queried
<1>3. Taken = {}
  BY DEF Taken
<1>4. \A c \in Stored : {d \in Taken : c \in commentMap /\ parentId[d] = c} = {}
  BY <1>3
<1>5. {d \in Taken : parentId[d] = NoComment} = {}
  BY <1>3
<1>6. Nested
  BY <1>4, <1>5, Empty DEF Nested
<1>7. Annotated /\ Mapped
  BY DEF Annotated, Mapped
<1> QED
  BY <1>1, <1>2, <1>6, <1>7 DEF IInv

\* A list found has Stored ids, once each, newest first.
LEMMA QueriedList ==
  ASSUME Shape, Queried
  PROVE  comments \in Seq(Stored) /\ IsInjective(comments) /\ Newest(comments) /\ ToSet(comments) \subseteq Stored
<1>1. CASE comments = <<>>
  BY <1>1, Empty DEF Lists, Shape, TypeOK
<1>2. CASE Lists(comments, Asks)
  BY <1>2 DEF Lists, Shape, TypeOK
<1> QED
  BY <1>1, <1>2 DEF Queried

\* In a loop, the position is that of a stored comment which no list has yet.
LEMMA LoopFacts ==
  ASSUME Shape, Queried, NEW step, Loop(step)
  PROVE  LET c == comments[at] IN
         /\ c \in Stored /\ c \in ToSet(comments)
         /\ at + 1 \in 1 .. Len(comments) + 1
         /\ Before(at) \subseteq ToSet(comments) /\ c \notin Before(at)
         /\ Before(at + 1) = Before(at) \cup {c}
         /\ \A e \in Before(at) : createdAt[e] >= createdAt[c]
BY QueriedList, BeforeLemma DEF Loop, Shape, TypeOK

\* findAll returns the list; nothing is done with it yet.
LEMMA FindAllStep ==
  ASSUME IInv, findAll
  PROVE  IInv'
<1> USE DEF findAll, columns, objects, IInv
<1>1. Lists(comments', Asks) /\ Asks' = Asks
  BY QueryLists DEF Asks, Lists, Newest
<1>2. comments' \in Seq(Stored) /\ ToSet(comments') = Asks /\ Asks \subseteq Stored
  BY <1>1 DEF Lists, Asks
<1>3. commentMap = {} /\ rated = {} /\ rootComments = <<>> /\ \A c \in Stored : children[c] = <<>>
  <2>1. commentMap = {} /\ comments = <<>>
    BY DEF Queried
  <2>2. Taken = {}
    BY DEF Taken
  <2>3. rated = {}
    BY <2>1 DEF Shape, TypeOK, ToSet
  <2>4. {d \in Taken : parentId[d] = NoComment} = {}
    BY <2>2
  <2>5. rootComments = <<>>
    BY <2>4, OnlyEmpty DEF Nested
  <2> QED
    BY <2>1, <2>3, <2>5 DEF Shape, TypeOK
<1>4. 1 \in 1 .. Len(comments') + 1
  BY <1>2
<1>5. Shape'
  BY <1>2, <1>3, <1>4 DEF Shape, TypeOK, ToSet
<1>6. Queried'
  <2>1. {comments'[i] : i \in 1 .. 1 - 1} = {}
    OBVIOUS
  <2>2. Before(at)' = {}
    BY <2>1 DEF Before
  <2>3. Lists(comments, Asks)'
    BY <1>1 DEF Lists, Newest
  <2> QED
    BY <2>2, <2>3, <1>3 DEF Queried
<1>7. Nested'
  BY DEF Nested, Taken, Lists, Newest
<1>8. Annotated' /\ Mapped'
  BY DEF Annotated, Mapped
<1> QED
  BY <1>5, <1>6, <1>7, <1>8

\* The first loop puts a comment into the map.
LEMMA InitializeStep ==
  ASSUME IInv, initializeChildren
  PROVE  IInv'
<1> DEFINE c == comments[at]
<1> USE DEF initializeChildren, columns, IInv
<1>1. Loop("initialize") /\ Shape /\ Queried
  OBVIOUS
<1>2. /\ c \in Stored /\ c \in ToSet(comments) /\ at + 1 \in 1 .. Len(comments) + 1
      /\ Before(at + 1) = Before(at) \cup {c}
  BY <1>1, LoopFacts
<1>3. pc = "initialize" /\ Taken = {}
  BY DEF Loop, Taken
<1>4. rootComments = <<>> /\ \A d \in Stored : children[d] = <<>>
  <2>2. {d \in Taken : parentId[d] = NoComment} = {}
    BY <1>3
  <2>3. \A b \in Stored : {d \in Taken : b \in commentMap /\ parentId[d] = b} = {}
    BY <1>3
  <2> QED
    BY <2>2, <2>3, OnlyEmpty DEF Nested
<1>5. children' = children
  BY <1>2, <1>4 DEF Shape
<1>6. Shape'
  BY <1>2, <1>4, <1>5 DEF Shape, TypeOK, ToSet
<1>7. Queried'
  <2>1. Before(at)' = Before(at + 1)
    BY DEF Before
  <2>2. commentMap = Before(at)
    BY <1>3 DEF Queried
  <2>3. commentMap' = Before(at)'
    BY <1>2, <2>1, <2>2
  <2> QED
    BY <1>3, <2>3 DEF Queried, Lists, Newest, Asks
<1>8. Nested'
  <2>1. Taken' = {}
    BY <1>3 DEF Taken
  <2>2. \A b \in Stored : {d \in Taken' : b \in commentMap' /\ parentId'[d] = b} = {}
    BY <2>1
  <2>3. {d \in Taken' : parentId'[d] = NoComment} = {}
    BY <2>1
  <2>4. Lists(<<>>, {})'
    BY Empty DEF Lists, Newest
  <2>5. rootComments' = <<>> /\ \A b \in Stored : children'[b] = <<>>
    BY <1>4, <1>5
  <2> QED
    BY <2>2, <2>3, <2>4, <2>5 DEF Nested, Lists, Newest
<1>9. Annotated' /\ Mapped'
  BY <1>3 DEF Annotated, Mapped
<1> QED
  BY <1>6, <1>7, <1>8, <1>9

\* A step of the second loop takes one comment more, and leaves the rest alone.
LEMMA AttachFacts ==
  ASSUME IInv, Loop("attach"), pc' = pc, at' = at + 1,
         UNCHANGED <<columns, comments, commentMap, rated, canVote, answer>>
  PROVE  LET c == comments[at] IN
         /\ c \in Stored /\ c \in commentMap /\ c \notin Taken
         /\ Taken \subseteq commentMap /\ commentMap \subseteq Stored
         /\ Taken' = Taken \cup {c}
         /\ at' \in 1 .. Len(comments) + 1
         /\ \A e \in Taken : createdAt[e] >= createdAt[c]
         /\ Queried' /\ Annotated' /\ Mapped'
<1> USE DEF IInv, columns
<1>1. pc = "attach"
  BY DEF Loop
<1>2. Taken = Before(at) /\ Taken' = Before(at + 1) /\ commentMap = ToSet(comments)
  BY <1>1 DEF Taken, Before, Queried
<1>3. ToSet(comments) \subseteq Stored
  BY QueriedList
<1>4. Queried'
  BY <1>1 DEF Queried, Lists, Newest, Asks
<1>5. Annotated' /\ Mapped'
  BY <1>1 DEF Annotated, Mapped
<1> QED
  BY <1>2, <1>3, <1>4, <1>5, LoopFacts

\* The second loop gives a reply to its parent.
LEMMA AttachChildStep ==
  ASSUME IInv, attachChild
  PROVE  IInv'
<1> DEFINE c == comments[at]
           p == parentId[c]
           Replies(b) == {d \in Taken : b \in commentMap /\ parentId[d] = b}
<1> USE DEF attachChild, columns, IInv
<1>1. /\ c \in Stored /\ c \in commentMap /\ c \notin Taken /\ Taken \subseteq commentMap
      /\ Taken' = Taken \cup {c} /\ at' \in 1 .. Len(comments) + 1
      /\ \A e \in Taken : createdAt[e] >= createdAt[c]
      /\ Queried' /\ Annotated' /\ Mapped'
  BY AttachFacts DEF Loop
<1>2. p \in commentMap /\ p \in Stored /\ p # NoComment
  BY StoredAssumption DEF Shape, TypeOK
<1>3. Lists(Append(children[p], c), Replies(p) \cup {c})
  <2>1. Lists(children[p], Replies(p))
    BY <1>2 DEF Nested
  <2> QED
    BY <2>1, <1>1, Appended
<1>4. /\ children'[p] = Append(children[p], c)
      /\ \A b \in Stored : b # p => children'[b] = children[b]
      /\ children' = [b \in Stored |-> children'[b]]
  BY <1>2 DEF Shape
<1>5. ASSUME NEW b \in Stored PROVE Lists(children'[b], {d \in Taken' : b \in commentMap' /\ parentId'[d] = b})
  <2>1. CASE b = p
    <3>1. {d \in Taken' : b \in commentMap' /\ parentId'[d] = b} = Replies(p) \cup {c}
      BY <1>1, <1>2, <2>1
    <3> QED
      BY <3>1, <2>1, <1>3, <1>4
  <2>2. CASE b # p
    <3>1. {d \in Taken' : b \in commentMap' /\ parentId'[d] = b} = Replies(b)
      BY <1>1, <2>2
    <3> QED
      BY <3>1, <2>2, <1>4 DEF Nested
  <2> QED
    BY <2>1, <2>2
<1>6. Lists(rootComments', {d \in Taken' : parentId'[d] = NoComment})
  <2>1. {d \in Taken' : parentId'[d] = NoComment} = {d \in Taken : parentId[d] = NoComment}
    BY <1>1, <1>2
  <2> QED
    BY <2>1 DEF Nested
<1>7. Nested'
  BY <1>5, <1>6 DEF Nested, Lists, Newest
<1>8. ToSet(children'[p]) \subseteq commentMap
  BY <1>1, <1>3, <1>4 DEF Lists
<1>9. Shape'
  BY <1>1, <1>2, <1>4, <1>8 DEF Shape, TypeOK
<1> QED
  BY <1>1, <1>7, <1>9

\* A reply whose parent is not there is passed over.
LEMMA DropOrphanStep ==
  ASSUME IInv, dropOrphan
  PROVE  IInv'
<1> DEFINE c == comments[at]
<1> USE DEF dropOrphan, columns, objects, IInv
<1>1. /\ c \notin Taken /\ Taken' = Taken \cup {c} /\ at' \in 1 .. Len(comments) + 1
      /\ Queried' /\ Annotated' /\ Mapped'
  BY AttachFacts DEF Loop
<1>2. ASSUME NEW b \in Stored PROVE Lists(children'[b], {d \in Taken' : b \in commentMap' /\ parentId'[d] = b})
  <2>1. {d \in Taken' : b \in commentMap' /\ parentId'[d] = b} = {d \in Taken : b \in commentMap /\ parentId[d] = b}
    BY <1>1
  <2> QED
    BY <2>1 DEF Nested
<1>3. Lists(rootComments', {d \in Taken' : parentId'[d] = NoComment})
  <2>1. {d \in Taken' : parentId'[d] = NoComment} = {d \in Taken : parentId[d] = NoComment}
    BY <1>1
  <2> QED
    BY <2>1 DEF Nested
<1>4. Nested'
  BY <1>2, <1>3 DEF Nested, Lists, Newest
<1>5. Shape'
  BY <1>1 DEF Shape, TypeOK
<1> QED
  BY <1>1, <1>4, <1>5

\* A comment that answers none becomes a root.
LEMMA PushRootStep ==
  ASSUME IInv, pushRoot
  PROVE  IInv'
<1> DEFINE c == comments[at]
           Roots == {d \in Taken : parentId[d] = NoComment}
<1> USE DEF pushRoot, columns, IInv
<1>1. /\ c \in Stored /\ c \in commentMap /\ c \notin Taken /\ Taken \subseteq commentMap
      /\ Taken' = Taken \cup {c} /\ at' \in 1 .. Len(comments) + 1
      /\ \A e \in Taken : createdAt[e] >= createdAt[c]
      /\ Queried' /\ Annotated' /\ Mapped'
  BY AttachFacts DEF Loop
<1>2. Lists(rootComments', Roots \cup {c})
  <2>1. Lists(rootComments, Roots)
    BY DEF Nested
  <2> QED
    BY <2>1, <1>1, Appended
<1>3. {d \in Taken' : parentId'[d] = NoComment} = Roots \cup {c}
  BY <1>1
<1>4. ASSUME NEW b \in Stored PROVE Lists(children'[b], {d \in Taken' : b \in commentMap' /\ parentId'[d] = b})
  <2>1. {d \in Taken' : b \in commentMap' /\ parentId'[d] = b} = {d \in Taken : b \in commentMap /\ parentId[d] = b}
    BY <1>1, StoredAssumption
  <2> QED
    BY <2>1 DEF Nested
<1>5. Nested'
  BY <1>2, <1>3, <1>4 DEF Nested, Lists, Newest
<1>6. Shape'
  BY <1>1, <1>2 DEF Shape, TypeOK, Lists
<1> QED
  BY <1>1, <1>5, <1>6

\* At its end the first loop has put all found into the map, and the second has
\* taken them all.
LEMMA LoopOverStep ==
  ASSUME IInv, LoopOver("initialize", "attach") \/ LoopOver("attach", "findRated")
  PROVE  IInv'
<1> USE DEF LoopOver, columns, objects, IInv
<1>1. Before(at) = ToSet(comments) /\ Before(1) = {} /\ 1 \in 1 .. Len(comments) + 1
  BY QueriedList, BeforeLemma DEF Shape, TypeOK
<1>2. Taken' = Taken
  <2>1. CASE pc = "initialize"
    <3>1. pc' = "attach" /\ at' = 1
      BY <2>1
    <3>2. Taken' = Before(1) /\ Taken = {}
      BY <3>1, <2>1 DEF Taken, Before
    <3> QED
      BY <3>2, <1>1
  <2>2. CASE pc = "attach"
    BY <2>2, <1>1 DEF Taken
  <2> QED
    BY <2>1, <2>2
<1>3. Shape'
  BY <1>1 DEF Shape, TypeOK
<1>4. Queried'
  <2>1. commentMap = ToSet(comments)
    BY <1>1 DEF Queried
  <2> QED
    BY <2>1 DEF Queried, Lists, Newest, Asks
<1>5. Nested'
  BY <1>2 DEF Nested, Lists, Newest
<1>6. Annotated' /\ Mapped'
  BY DEF Annotated, Mapped
<1> QED
  BY <1>3, <1>4, <1>5, <1>6

\* Behind the loops, the lists stay as they are.
LEMMA Settled ==
  ASSUME IInv, UNCHANGED <<columns, comments, objects>>,
         pc \notin {"findAll", "initialize", "attach"},
         pc' \notin {"findAll", "initialize", "attach"}
  PROVE  Queried' /\ Nested' /\ Visited(rootComments)' = Visited(rootComments)
<1> USE DEF columns, objects, IInv
<1>1. Taken' = Taken
  BY DEF Taken
<1>2. Queried'
  BY DEF Queried, Lists, Newest, Asks
<1>3. Nested'
  BY <1>1 DEF Nested, Lists, Newest
<1> QED
  BY <1>2, <1>3 DEF Visited

\* The ratings are read and the comments marked, or neither, and all is copied.
LEMMA AnswerStep ==
  ASSUME IInv, findRated \/ skipRated \/ annotateCommentsWithCanVote \/ mapToDto
  PROVE  IInv'
<1> USE DEF columns, objects, IInv
<1>1. CASE findRated
  <2>1. Queried' /\ Nested'
    BY <1>1, Settled DEF findRated
  <2>2. Shape'
    BY <1>1 DEF findRated, Shape, TypeOK
  <2>3. Annotated' /\ Mapped'
    BY <1>1 DEF findRated, Annotated, Mapped
  <2> QED
    BY <2>1, <2>2, <2>3
<1>2. CASE skipRated
  <2>1. Queried' /\ Nested'
    BY <1>2, Settled DEF skipRated
  <2>2. Shape'
    BY <1>2 DEF skipRated, Shape, TypeOK
  <2>3. Annotated' /\ Mapped'
    BY <1>2 DEF skipRated, Annotated, Mapped
  <2> QED
    BY <2>1, <2>2, <2>3
<1>3. CASE annotateCommentsWithCanVote
  <2>1. Queried' /\ Nested' /\ Visited(rootComments)' = Visited(rootComments)
    BY <1>3, Settled DEF annotateCommentsWithCanVote
  <2>2. Shape'
    BY <1>3 DEF annotateCommentsWithCanVote, Shape, TypeOK
  <2>3. loggedIn
    BY <1>3 DEF annotateCommentsWithCanVote, Shape
  <2>4. Annotated' /\ Mapped'
    BY <1>3, <2>1, <2>3 DEF annotateCommentsWithCanVote, Annotated, Mapped
  <2> QED
    BY <2>1, <2>2, <2>4
<1>4. CASE mapToDto
  <2>1. Queried' /\ Nested' /\ Visited(rootComments)' = Visited(rootComments)
    BY <1>4, Settled DEF mapToDto
  <2>2. Shape'
    BY <1>4 DEF mapToDto, Shape, TypeOK
  <2>3. Annotated'
    BY <1>4, <2>1 DEF mapToDto, Annotated
  <2>4. Mapped'
    BY <1>4, <2>1 DEF mapToDto, Mapped, CommentDto
  <2> QED
    BY <2>1, <2>2, <2>3, <2>4
<1> QED
  BY <1>1, <1>2, <1>3, <1>4

\* The invariant is kept by every step.
LEMMA IInvStep == IInv /\ [Next]_vars => IInv'
<1> SUFFICES ASSUME IInv, [Next]_vars PROVE IInv'
  OBVIOUS
<1>1. CASE findAll
  BY <1>1, FindAllStep
<1>2. CASE initializeChildren
  BY <1>2, InitializeStep
<1>3. CASE LoopOver("initialize", "attach") \/ LoopOver("attach", "findRated")
  BY <1>3, LoopOverStep
<1>4. CASE attachChild
  BY <1>4, AttachChildStep
<1>5. CASE dropOrphan
  BY <1>5, DropOrphanStep
<1>6. CASE pushRoot
  BY <1>6, PushRootStep
<1>7. CASE findRated \/ skipRated \/ annotateCommentsWithCanVote \/ mapToDto
  BY <1>7, AnswerStep
<1>8. CASE UNCHANGED vars
  <2>1. Taken' = Taken /\ Visited(rootComments)' = Visited(rootComments)
    BY <1>8 DEF vars, columns, objects, Taken, Before, Visited
  <2>2. Shape' /\ Queried'
    BY <1>8 DEF vars, columns, objects, IInv, Shape, TypeOK, Queried, Before, Lists, Newest, Asks
  <2>3. Nested'
    BY <1>8, <2>1 DEF vars, columns, objects, IInv, Nested, Lists, Newest
  <2>4. Annotated'
    BY <1>8, <2>1 DEF vars, columns, objects, IInv, Annotated
  <2>5. Mapped'
    BY <1>8, <2>1 DEF vars, columns, objects, IInv, Mapped, CommentDto
  <2> QED
    BY <2>2, <2>3, <2>4, <2>5 DEF IInv
<1> QED
  BY <1>1, <1>2, <1>3, <1>4, <1>5, <1>6, <1>7, <1>8 DEF Next

(***************************************************************************)
(* The answer.                                                             *)
(***************************************************************************)
\* Behind the loops, what a walk from the roots visits is what Nesting says.
LEMMA VisitedIsNested ==
  ASSUME IInv, pc = "done"
  PROVE  /\ Visited(rootComments) = nestComments(Found)
         /\ Visited(rootComments) \subseteq ToSet(comments)
<1> USE DEF IInv
<1>1. /\ Taken = ToSet(comments) /\ commentMap = ToSet(comments) /\ ToSet(comments) \subseteq Stored
  BY DEF Taken, Queried, Shape, TypeOK
<1>2. /\ ToSet(rootComments) = {d \in ToSet(comments) : parentId[d] = NoComment}
      /\ \A c \in Stored :
           ToSet(children[c]) = {d \in ToSet(comments) : c \in ToSet(comments) /\ parentId[d] = c}
  BY <1>1 DEF Nested, Lists
<1>3. Ids(Found) = ToSet(comments)
  <2>1. \A e \in Found : e.id \in ToSet(comments)
    BY DEF Found
  <2>2. ASSUME NEW c \in ToSet(comments) PROVE \E e \in Found : e.id = c
    <3>1. [id |-> c, parentId |-> parentId[c]] \in Found
      BY DEF Found
    <3> QED
      BY <3>1
  <2> QED
    BY <2>1, <2>2 DEF Ids
<1>4. Visited(rootComments) \subseteq ToSet(comments)
  BY <1>1, <1>2 DEF Visited
<1>5. ASSUME NEW c \in Visited(rootComments) PROVE c \in nestComments(Found)
  <2>1. ToSet(rootComments) \subseteq nestComments(Found)
    <3> SUFFICES ASSUME NEW d \in ToSet(rootComments) PROVE d \in nestComments(Found)
      OBVIOUS
    <3> DEFINE e == [id |-> d, parentId |-> parentId[d]]
    <3>1. e \in Found /\ e.parentId = NoComment /\ e.id = d
      BY <1>2 DEF Found
    <3> QED
      BY <3>1, NestedClosed
  <2>2. ASSUME NEW b \in nestComments(Found), NEW d \in ToSet(children[b]) PROVE d \in nestComments(Found)
    <3> DEFINE e == [id |-> d, parentId |-> parentId[d]]
    <3>1. b \in Stored
      BY <1>1, <1>3 DEF nestComments, Ids
    <3>2. e \in Found /\ e.parentId = b /\ e.id = d
      BY <1>2, <3>1 DEF Found
    <3> QED
      BY <3>2, NestedClosed
  <2>3. nestComments(Found) \in SUBSET Stored
    BY <1>1, <1>3 DEF nestComments, Ids
  <2> QED
    BY <2>1, <2>2, <2>3 DEF Visited
<1>6. ASSUME NEW c \in nestComments(Found) PROVE c \in Visited(rootComments)
  <2>1. c \in ToSet(comments) /\ c \in Stored
    BY <1>1, <1>3 DEF nestComments, Ids
  <2> SUFFICES ASSUME NEW seen \in SUBSET Stored, ToSet(rootComments) \subseteq seen,
                      \A d \in seen : ToSet(children[d]) \subseteq seen
               PROVE  c \in seen
    BY <2>1 DEF Visited
  <2> DEFINE tree == seen \cap ToSet(comments)
  <2>2. tree \in SUBSET Ids(Found)
    BY <1>3
  <2>3. ASSUME NEW d \in ToSet(comments), parentId[d] \in tree \cup {NoComment} PROVE d \in tree
    BY <1>1, <1>2, <2>3
  <2>4. \A e \in Found : e.id \in ToSet(comments) /\ e.parentId = parentId[e.id]
    BY DEF Found
  <2>5. \A e \in Found : e.parentId \in tree \cup {NoComment} => e.id \in tree
    BY <2>3, <2>4
  <2> QED
    BY <2>2, <2>5, NestedLeast
<1> QED
  BY <1>4, <1>5, <1>6

\* A level of the answer lists the found comments with its parent, once each, the
\* newest first.
LEMMA LevelsListed ==
  ASSUME IInv, pc = "done"
  PROVE  /\ Nodes = {CommentDto(c) : c \in Visited(rootComments)}
         /\ answer.roots = rootComments
         /\ \A level \in Levels :
              Lists(level.list, {d \in ToSet(comments) : parentId[d] = level.parent})
         /\ \A level \in Levels : level.parent = NoComment \/ level.parent \in Visited(rootComments)
<1> USE DEF IInv
<1>1. /\ answer.roots = rootComments
      /\ Nodes = {CommentDto(c) : c \in Visited(rootComments)}
  BY DEF Mapped, Nodes
<1>2. Taken = ToSet(comments) /\ commentMap = ToSet(comments)
  BY DEF Taken, Queried
<1>3. Visited(rootComments) \subseteq ToSet(comments) /\ ToSet(comments) \subseteq Stored
  BY VisitedIsNested DEF Shape, TypeOK
<1>4. ASSUME NEW level \in Levels
      PROVE  \/ level.parent = NoComment /\ level.list = rootComments
             \/ level.parent \in Visited(rootComments) /\ level.list = children[level.parent]
  <2>1. CASE level = [parent |-> NoComment, list |-> answer.roots]
    BY <1>1, <2>1
  <2>2. ASSUME NEW n \in Nodes, level = [parent |-> n.id, list |-> n.children]
        PROVE  level.parent \in Visited(rootComments) /\ level.list = children[level.parent]
    <3>1. PICK c \in Visited(rootComments) : n = CommentDto(c)
      BY <1>1
    <3>2. n.id = c /\ n.children = children[c]
      BY <3>1 DEF CommentDto
    <3> QED
      BY <2>2, <3>2
  <2> QED
    BY <2>1, <2>2 DEF Levels
<1>5. ASSUME NEW level \in Levels
      PROVE  Lists(level.list, {d \in ToSet(comments) : parentId[d] = level.parent})
  <2>1. CASE level.parent = NoComment /\ level.list = rootComments
    BY <2>1, <1>2 DEF Nested
  <2>2. ASSUME level.parent \in Visited(rootComments), level.list = children[level.parent]
        PROVE  Lists(level.list, {d \in ToSet(comments) : parentId[d] = level.parent})
    <3> DEFINE p == level.parent
    <3>1. p \in Stored /\ p \in commentMap
      BY <2>2, <1>2, <1>3
    <3>2. {d \in Taken : p \in commentMap /\ parentId[d] = p} = {d \in ToSet(comments) : parentId[d] = p}
      BY <3>1, <1>2
    <3>3. Lists(children[p], {d \in Taken : p \in commentMap /\ parentId[d] = p})
      BY <3>1 DEF Nested
    <3> QED
      BY <3>2, <3>3, <2>2
  <2> QED
    BY <2>1, <2>2, <1>4
<1> QED
  BY <1>1, <1>4, <1>5

\* The comments shown are the nodes of the answer.
LEMMA Shown ==
  ASSUME IInv, pc = "done"
  PROVE  {n.id : n \in Nodes} = nestComments(Found) /\ nestComments(Found) = Visited(rootComments)
<1>1. Nodes = {CommentDto(c) : c \in Visited(rootComments)}
  BY LevelsListed
<1>2. \A c : CommentDto(c).id = c
  BY DEF CommentDto
<1>3. {n.id : n \in Nodes} = Visited(rootComments)
  BY <1>1, <1>2
<1> QED
  BY <1>3, VisitedIsNested

(***************************************************************************)
(* The theorems.                                                           *)
(***************************************************************************)
\* IInv holds in every reachable state.
THEOREM Invariance == Spec => []IInv
BY IInvInit, IInvStep, PTL DEF Spec

\* Every variable keeps its type, and a comment outside the map has no children.
THEOREM TypeCorrect == Spec => []TypeOK
<1>1. IInv => TypeOK
  BY DEF IInv, Shape
<1> QED
  BY <1>1, Invariance, PTL

\* However many comments there are and however they answer each other, the list
\* shows once, under its parent, each comment that is a root or below one.
THEOREM EachShownOnce == Spec => []ShownOnceInPlace
<1>1. IInv => ShownOnceInPlace
  <2> SUFFICES ASSUME IInv, pc = "done"
               PROVE  /\ \A level \in Levels : /\ IsInjective(level.list)
                                               /\ \A c \in ToSet(level.list) : parentId[c] = level.parent
                      /\ UNION {ToSet(level.list) : level \in Levels} = nestComments(Found)
                      /\ {n.id : n \in Nodes} = nestComments(Found)
    BY DEF ShownOnceInPlace
  <2>1. \A level \in Levels :
          /\ IsInjective(level.list)
          /\ ToSet(level.list) = {d \in ToSet(comments) : parentId[d] = level.parent}
    BY LevelsListed DEF Lists
  <2>2. \A level \in Levels : level.parent = NoComment \/ level.parent \in nestComments(Found)
    BY LevelsListed, Shown
  <2>3. \A d \in ToSet(comments) :
          parentId[d] \in nestComments(Found) \cup {NoComment} => d \in nestComments(Found)
    <3> SUFFICES ASSUME NEW d \in ToSet(comments), parentId[d] \in nestComments(Found) \cup {NoComment}
                 PROVE  d \in nestComments(Found)
      OBVIOUS
    <3> DEFINE e == [id |-> d, parentId |-> parentId[d]]
    <3>1. e \in Found /\ e.id = d /\ e.parentId = parentId[d]
      BY DEF Found
    <3> QED
      BY <3>1, NestedClosed
  <2>4. ASSUME NEW level \in Levels, NEW c \in ToSet(level.list) PROVE c \in nestComments(Found)
    BY <2>1, <2>2, <2>3
  <2>5. ASSUME NEW c \in nestComments(Found) PROVE \E level \in Levels : c \in ToSet(level.list)
    <3>1. PICK e \in Found : e.id = c /\ e.parentId \in nestComments(Found) \cup {NoComment}
      BY NestedBelowParent
    <3>2. c \in ToSet(comments) /\ parentId[c] \in nestComments(Found) \cup {NoComment}
      BY <3>1 DEF Found
    <3>3. \E level \in Levels : level.parent = parentId[c]
      <4>1. CASE parentId[c] = NoComment
        <5>1. [parent |-> NoComment, list |-> answer.roots] \in Levels
          BY DEF Levels
        <5> QED
          BY <4>1, <5>1
      <4>2. CASE parentId[c] \in nestComments(Found)
        <5>1. PICK n \in Nodes : n.id = parentId[c]
          BY <4>2, Shown
        <5>2. [parent |-> n.id, list |-> n.children] \in Levels
          BY DEF Levels
        <5> QED
          BY <5>1, <5>2
      <4> QED
        BY <3>2, <4>1, <4>2
    <3> QED
      BY <3>2, <3>3, <2>1
  <2> QED
    BY <2>1, <2>4, <2>5, Shown
<1> QED
  BY <1>1, Invariance, PTL

\* On every level of the answer a newer comment stands before an older one.
THEOREM OrderKept == Spec => []NewestFirst
<1>1. IInv => NewestFirst
  BY LevelsListed DEF NewestFirst, Lists, Newest
<1> QED
  BY <1>1, Invariance, PTL

\* A user is offered a vote on exactly the comments shown that have no rating by
\* the user, however deep they are.
THEOREM VoteOffered == Spec => []VoteOfferedAtEveryDepth
<1>1. IInv => VoteOfferedAtEveryDepth
  <2> SUFFICES ASSUME IInv, pc = "done", NEW n \in Nodes
               PROVE  n.canVote = IF loggedIn THEN n.id \notin rated ELSE Undefined
    BY DEF VoteOfferedAtEveryDepth
  <2>1. PICK c \in Visited(rootComments) : n = CommentDto(c)
    BY LevelsListed
  <2>2. n.id = c /\ n.canVote = canVote[c] /\ c \in Stored
    BY <2>1 DEF CommentDto, Visited
  <2> QED
    BY <2>2 DEF IInv, Annotated
<1> QED
  BY <1>1, Invariance, PTL

\* A reply is left out of the answer only when it, or a comment it answers, is
\* filed under another article than its parent.
THEOREM OmittedMisfiled == Spec => []OmittedRepliesMisfiled
<1>1. IInv => OmittedRepliesMisfiled
  <2> SUFFICES ASSUME IInv, pc = "done", NEW c \in ToSet(comments) \ nestComments(Found)
               PROVE  /\ parentId[c] # NoComment
                      /\ \/ articleId[parentId[c]] # Asked
                         \/ parentId[c] \in ToSet(comments) \ nestComments(Found)
    BY Shown DEF OmittedRepliesMisfiled
  <2> DEFINE e == [id |-> c, parentId |-> parentId[c]]
  <2>1. e \in Found /\ e.id = c /\ e.parentId = parentId[c]
    BY DEF Found
  <2>2. parentId[c] \notin nestComments(Found) \cup {NoComment}
    BY <2>1, NestedClosed
  <2>3. c \in Stored /\ ToSet(comments) = Asks
    BY DEF IInv, Shape, TypeOK, Queried, Lists
  <2>4. parentId[c] \in Stored
    BY <2>2, <2>3 DEF IInv, Shape
  <2> QED
    BY <2>2, <2>3, <2>4 DEF Asks
<1> QED
  BY <1>1, Invariance, PTL
=============================================================================
