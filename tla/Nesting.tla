------------------------------- MODULE Nesting -------------------------------
(***************************************************************************)
(* Which of the comments found for an article are part of the nested       *)
(* answer.  Threads shows that the loops of CommentService.nestComments    *)
(* come to this.                                                           *)
(***************************************************************************)
CONSTANT NoComment   \* the parentId of a comment that answers no other

Ids(found) == {c.id : c \in found}

\* The roots, and every comment whose parent is already there: a comment is
\* left out when its parent, or a parent of its parent, is not among found.
nestComments(found) ==
  {c.id : c \in {d \in found : \A tree \in SUBSET Ids(found) :
     (\A e \in found : e.parentId \in tree \cup {NoComment} => e.id \in tree) => d.id \in tree}}
=============================================================================
