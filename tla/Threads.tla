------------------------------- MODULE Threads -------------------------------
(***************************************************************************)
(* One answer of getCommentsByArticleId, object by object: the comments    *)
(* found, newest first, are linked into trees by the two loops of          *)
(* nestComments, marked by annotateCommentsWithCanVote and copied into     *)
(* CommentDto objects.                                                     *)
(*                                                                         *)
(* The query lists a reply before its parent, so that a parent has to be   *)
(* known before any reply is attached; and createdAt has milliseconds, so  *)
(* that comments may tie and come in either order.                         *)
(***************************************************************************)
EXTENDS Integers, Sequences, FiniteSets, SequencesExt, Nesting

CONSTANTS
  Stored,      \* comments of the tenant, 1 .. n in the order of their creation
  Articles,
  Asked,       \* the article whose comments are asked for
  Undefined    \* what an object field holds that was never assigned

ASSUME StoredAssumption ==
  /\ IsFiniteSet(Stored) /\ Stored = 1 .. Cardinality(Stored)
  /\ NoComment \notin Stored
  /\ Asked \in Articles
  /\ Undefined \notin BOOLEAN

VARIABLES
  articleId, parentId, createdAt,   \* columns of the stored comments
  loggedIn,    \* whether the resolver passes the id of a current user
  comments,    \* the list the query returned
  commentMap,  \* ids of the comments the map holds
  children,    \* the field children of a comment
  rootComments,
  rated,       \* ratedCommentIds
  canVote,     \* the field canVote of a comment
  answer,      \* the list returned, of CommentDto objects by their ids
  pc, at       \* the step, and the position a loop has reached

columns == <<articleId, parentId, createdAt, loggedIn>>
objects == <<commentMap, children, rootComments>>
vars == <<columns, comments, objects, rated, canVote, answer, pc, at>>

\* A reply is created after its parent, and may name another article.
Init ==
  /\ articleId \in [Stored -> Articles]
  /\ parentId \in [Stored -> Stored \cup {NoComment}]
  /\ \A c \in Stored : parentId[c] # NoComment => parentId[c] < c
  /\ createdAt \in [Stored -> Stored]
  /\ \A c \in Stored : IF c = 1 THEN createdAt[c] = 1
                       ELSE createdAt[c] \in {createdAt[c - 1], createdAt[c - 1] + 1}
  /\ loggedIn \in BOOLEAN
  /\ comments = <<>>
  /\ commentMap = {}
  /\ children = [c \in Stored |-> <<>>]
  /\ rootComments = <<>>
  /\ rated = {}
  /\ canVote = [c \in Stored |-> Undefined]
  /\ answer = [roots |-> <<>>, nodes |-> {}]
  /\ pc = "findAll" /\ at = 1

\* WHERE articleId = ... ORDER BY createdAt DESC
findAll ==
  /\ pc = "findAll"
  /\ comments' \in
       {list \in SetToSeqs({c \in Stored : articleId[c] = Asked}) :
          \A i, j \in DOMAIN list : i < j => createdAt[list[i]] >= createdAt[list[j]]}
  /\ pc' = "initialize" /\ at' = 1
  /\ UNCHANGED <<columns, objects, rated, canVote, answer>>

(***************************************************************************)
(* nestComments.                                                           *)
(***************************************************************************)
\* A loop takes the comment at its position, or is over.
Loop(step) == pc = step /\ at \in DOMAIN comments
LoopOver(step, next) ==
  /\ pc = step /\ at \notin DOMAIN comments
  /\ pc' = next /\ at' = 1
  /\ UNCHANGED <<columns, comments, objects, rated, canVote, answer>>

\* Mutant: one loop initializes and attaches.
initializeAndAttach ==
  /\ Loop("initialize")
  /\ LET c == comments[at] IN
       /\ children' = IF parentId[c] \in commentMap
                      THEN [children EXCEPT ![c] = <<>>, ![parentId[c]] = Append(@, c)]
                      ELSE [children EXCEPT ![c] = <<>>]
       /\ rootComments' = IF parentId[c] = NoComment THEN Append(rootComments, c) ELSE rootComments
       /\ commentMap' = commentMap \cup {c}
       /\ pc' = IF at = Len(comments) THEN "findRated" ELSE pc
  /\ at' = at + 1
  /\ UNCHANGED <<columns, comments, rated, canVote, answer>>

initializeChildren ==
  /\ Loop("initialize")
  /\ children' = [children EXCEPT ![comments[at]] = <<>>]
  /\ commentMap' = commentMap \cup {comments[at]}
  /\ at' = at + 1
  /\ UNCHANGED <<columns, comments, rootComments, rated, canVote, answer, pc>>

\* Mutant: a reply goes to the front of the list.
attachChildInFront ==
  /\ Loop("attach")
  /\ parentId[comments[at]] \in commentMap
  /\ children' = [children EXCEPT ![parentId[comments[at]]] = <<comments[at]>> \o @]
  /\ at' = at + 1
  /\ UNCHANGED <<columns, comments, commentMap, rootComments, rated, canVote, answer, pc>>

\* Mutant: a reply without a known parent is made a root.
dropOrphanAsRoot ==
  /\ Loop("attach")
  /\ parentId[comments[at]] \notin commentMap \cup {NoComment}
  /\ rootComments' = Append(rootComments, comments[at])
  /\ at' = at + 1
  /\ UNCHANGED <<columns, comments, commentMap, children, rated, canVote, answer, pc>>

\* Mutant: the map is not asked whether it has the parent.
dropOrphanUnchecked ==
  /\ Loop("attach")
  /\ parentId[comments[at]] \notin commentMap \cup {NoComment}
  /\ children' = [children EXCEPT ![parentId[comments[at]]] = Append(@, comments[at])]
  /\ at' = at + 1
  /\ UNCHANGED <<columns, comments, commentMap, rootComments, rated, canVote, answer, pc>>

attachChild ==
  /\ Loop("attach")
  /\ parentId[comments[at]] \in commentMap
  /\ children' = [children EXCEPT ![parentId[comments[at]]] = Append(@, comments[at])]
  /\ at' = at + 1
  /\ UNCHANGED <<columns, comments, commentMap, rootComments, rated, canVote, answer, pc>>

dropOrphan ==
  /\ Loop("attach")
  /\ parentId[comments[at]] \notin commentMap \cup {NoComment}
  /\ at' = at + 1
  /\ UNCHANGED <<columns, comments, objects, rated, canVote, answer, pc>>

pushRoot ==
  /\ Loop("attach")
  /\ parentId[comments[at]] = NoComment
  /\ rootComments' = Append(rootComments, comments[at])
  /\ at' = at + 1
  /\ UNCHANGED <<columns, comments, commentMap, children, rated, canVote, answer, pc>>

(***************************************************************************)
(* The user's ratings, and the answer.                                     *)
(***************************************************************************)
\* WHERE userId = ... AND commentId IN (all comments found, nested or not)
findRated ==
  /\ pc = "findRated" /\ loggedIn
  /\ rated' \in SUBSET ToSet(comments)
  /\ pc' = "annotate"
  /\ UNCHANGED <<columns, comments, objects, canVote, answer, at>>

skipRated ==
  /\ pc = "findRated" /\ ~loggedIn
  /\ pc' = "map"
  /\ UNCHANGED <<columns, comments, objects, rated, canVote, answer, at>>

\* The comments a recursion over children visits from a list: those on it, and
\* those on the children of a comment visited.
Visited(list) ==
  {c \in Stored : \A seen \in SUBSET Stored :
     ToSet(list) \subseteq seen /\ (\A d \in seen : ToSet(children[d]) \subseteq seen) => c \in seen}

\* Mutant: the recursive call is left out.
annotateRoots ==
  /\ pc = "annotate"
  /\ canVote' = [c \in Stored |-> IF c \in ToSet(rootComments) THEN c \notin rated ELSE canVote[c]]
  /\ pc' = "map"
  /\ UNCHANGED <<columns, comments, objects, rated, answer, at>>

annotateCommentsWithCanVote ==
  /\ pc = "annotate"
  /\ canVote' = [c \in Stored |-> IF c \in Visited(rootComments) THEN c \notin rated
                                                                  ELSE canVote[c]]
  /\ pc' = "map"
  /\ UNCHANGED <<columns, comments, objects, rated, answer, at>>

\* The constructor maps the children too: each gets an object of its own.
CommentDto(c) == [id |-> c, canVote |-> canVote[c], children |-> children[c]]

mapToDto ==
  /\ pc = "map"
  /\ answer' = [roots |-> rootComments, nodes |-> {CommentDto(c) : c \in Visited(rootComments)}]
  /\ pc' = "done"
  /\ UNCHANGED <<columns, comments, objects, rated, canVote, at>>

Next ==
  \/ findAll
  \/ initializeChildren \/ LoopOver("initialize", "attach")
  \/ attachChild \/ dropOrphan \/ pushRoot \/ LoopOver("attach", "findRated")
  \/ findRated \/ skipRated \/ annotateCommentsWithCanVote \/ mapToDto

Spec == Init /\ [][Next]_vars

(***************************************************************************)
(* Properties.                                                             *)
(***************************************************************************)
\* Every variable holds a value of its kind; a comment that is not in the map
\* has no children.
TypeOK ==
  /\ ToSet(comments) \subseteq Stored /\ commentMap \subseteq ToSet(comments)
  /\ \A c \in Stored : ToSet(children[c]) \subseteq commentMap
                       /\ (c \notin commentMap => children[c] = <<>>)
  /\ ToSet(rootComments) \subseteq commentMap
  /\ rated \subseteq ToSet(comments)
  /\ canVote \in [Stored -> BOOLEAN \cup {Undefined}]
  /\ at \in 1 .. Len(comments) + 1

\* The lists a client finds in the answer, and the comment each belongs to.
Nodes == answer.nodes
Levels == {[parent |-> NoComment, list |-> answer.roots]}
          \cup {[parent |-> n.id, list |-> n.children] : n \in Nodes}

Found == {[id |-> c, parentId |-> parentId[c]] : c \in ToSet(comments)}

\* Each comment is shown once, in its place (218-239): on one level, once, and that
\* is the one of its parent, although it came before the parent; and those shown
\* are the ones Nesting says.
ShownOnceInPlace ==
  pc = "done" =>
    /\ \A level \in Levels : /\ IsInjective(level.list)
                             /\ \A c \in ToSet(level.list) : parentId[c] = level.parent
    /\ UNION {ToSet(level.list) : level \in Levels} = nestComments(Found)
    /\ {n.id : n \in Nodes} = nestComments(Found)

\* The order of the query (167) survives the nesting: on every level a newer
\* comment stands before an older one.
NewestFirst ==
  pc = "done" =>
    \A level \in Levels : \A i, j \in DOMAIN level.list :
      i < j => createdAt[level.list[i]] >= createdAt[level.list[j]]

\* At every depth a user is offered a vote on exactly the comments without a
\* rating by the user (199-216), and the answer to an anonymous query leaves it
\* open (the GraphQL field then has its default).
VoteOfferedAtEveryDepth ==
  pc = "done" => \A n \in Nodes : n.canVote = IF loggedIn THEN n.id \notin rated ELSE Undefined

\* A reply to the article is missing in the answer only when it, or one of the
\* comments it answers, is filed under another article than its parent (230-232).
OmittedRepliesMisfiled ==
  pc = "done" =>
    \A c \in ToSet(comments) \ {n.id : n \in Nodes} :
      /\ parentId[c] # NoComment
      /\ \/ articleId[parentId[c]] # Asked
         \/ parentId[c] \in ToSet(comments) \ {n.id : n \in Nodes}
=============================================================================
