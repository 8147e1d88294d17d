------------------------------ MODULE MCArticles ------------------------------
(***************************************************************************)
(* Instances of Articles for TLC.  Users u1 and u2 belong to tenant a and  *)
(* v1 to tenant b.  At the start u1 has a draft with an image, and v1 a    *)
(* published article without one, under the same id.                       *)
(***************************************************************************)
EXTENDS Articles, TLC

CONSTANTS a, b, u1, u2, v1, d

MCUserHome == [u \in Users |-> IF u = v1 THEN b ELSE a]
MCSeeds == {<<a, d>>, <<b, d>>}
MCSeedAuthor == [s \in MCSeeds |-> IF s[1] = b THEN v1 ELSE u1]
MCSeedImages == {<<a, d>>}
MCSeedPublished == {<<b, d>>}

Create(t, u, i) ==
  [op |-> "create", tenant |-> t, user |-> u, id |-> NoId, status |-> "absent", image |-> i]
Own(op, u, id) == [op |-> op, tenant |-> a, user |-> u, id |-> id]
Update(u, id) ==
  [op |-> "update", tenant |-> a, user |-> u, id |-> id, text |-> FALSE, status |-> "absent",
   author |-> NoUser, image |-> FALSE]
Read(id) == [op |-> "findOne", tenant |-> a, user |-> NoUser, id |-> id]
List(t, u, m) == [op |-> "findAll", tenant |-> t, user |-> u, mine |-> m]

\* Bodies with columns the DTOs do not name.
WideBodies ==
  {[Create(a, u2, FALSE) EXCEPT !.id = d, !.status = "PUBLISHED"],
   [Create(a, u1, FALSE) EXCEPT !.id = d],
   [Update(u1, d) EXCEPT !.status = "DRAFT"],
   [Update(u1, d) EXCEPT !.author = u2],
   [Update(u1, d) EXCEPT !.author = v1]}

\* Authors and others write, read and list the articles of one tenant.
OneTenantCalls ==
  {Create(a, u1, TRUE), Create(a, v1, FALSE), Create(NoTenant, u1, FALSE)}
    \cup {Own(op, u1, d) : op \in {"publish", "remove"}}
    \cup {Own("remove", u1, r) : r \in Requests}
    \cup {Own("publish", u2, d)}
    \cup {[Update(u1, d) EXCEPT !.text = TRUE, !.image = i] : i \in BOOLEAN}
    \cup {[Update(u1, d) EXCEPT !.image = TRUE]}
    \cup {Read(d), List(a, u2, "absent"), List(a, u1, "true")}
    \cup WideBodies

\* Lists of two users and two tenants, and what makes them differ.
ListCallsOfAll ==
  {List(a, u1, m) : m \in Mine} \cup {List(b, v1, m) : m \in Mine} \cup {Own("publish", u1, d)}

\* Requests 1, 2, 3 arrive in this order.
ArriveInOrder == \A q, r \in Requests : q < r /\ pc[r] # "idle" => pc[q] # "idle"
=============================================================================
