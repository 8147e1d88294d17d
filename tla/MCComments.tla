----------------------------- MODULE MCComments -----------------------------
(***************************************************************************)
(* Instances of Comments for TLC.  Tenants a and b have the schemas sa and *)
(* sb.  Users u1 and u2, articles p1 and p2 and the comment c1 on p1 are   *)
(* stored in sa; user v1, article q1 and its comment d1 in sb.             *)
(***************************************************************************)
EXTENDS Comments, TLC

CONSTANTS a, b, sa, sb, u1, u2, v1, p1, p2, q1, c1, d1

MCPrefixed == [n \in TenantNames |-> IF n = a THEN sa ELSE sb]
MCUserHome == [u \in Users |-> IF u = v1 THEN sb ELSE sa]
MCArticleHome == [p \in Articles |-> IF p = q1 THEN sb ELSE sa]
MCSeedArticle == [c \in Seeds |-> IF c = d1 THEN q1 ELSE p1]

Rate(k, u, c, up) == [op |-> "rateComment", key |-> k, token |-> TRUE,
                      user |-> u, comment |-> c, isUpvote |-> up]
Create(k, u, p, c) == [op |-> "createComment", key |-> k, token |-> TRUE,
                       user |-> u, article |-> p, parentId |-> c]
List(k, u, p) == [op |-> "getComments", key |-> k, token |-> u # NoUser,
                  user |-> u, article |-> p]
Subscribe(k) == [op |-> "subscribe", key |-> k, token |-> FALSE]
WithoutToken(c) == [c EXCEPT !.token = FALSE]

\* Two users vote on one comment, and one of them lists.
VotingCalls ==
  {Rate(a, u1, c1, TRUE), Rate(a, u2, c1, FALSE), List(a, u1, p1)}

\* Both tenants, a client without a key, one with an unknown key, one without a token.
TwoTenantCalls ==
  {Rate(a, u1, c1, TRUE), Rate(sb, v1, d1, FALSE), Create(a, u1, p1, c1), Create(b, v1, q1, NoComment),
   List(a, u1, p1), Subscribe(NoKey), WithoutToken(Rate(a, u1, c1, TRUE))}
    \cup {Rate(a, u1, r, FALSE) : r \in Requests}
    \cup {Subscribe(n) : n \in SchemaNames \ Schemas}

Symmetry == Permutations(Requests)

\* Requests 1, 2, 3 arrive in this order: they are interchangeable, so nothing is
\* lost, also where symmetry cannot be used because of liveness.
ArriveInOrder == \A q, r \in Requests : q < r /\ pc[r] # "idle" => pc[q] # "idle"
=============================================================================
