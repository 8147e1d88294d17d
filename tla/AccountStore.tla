----------------------------- MODULE AccountStore -----------------------------
(***************************************************************************)
(* What the auth and users services promise together about accounts and    *)
(* sessions: an email belongs to one account for good; an account is       *)
(* usable once it is complete; a session is opened for a complete account, *)
(* keeps its account, and once it is over it is never live again.          *)
(***************************************************************************)
CONSTANTS Accounts, Emails, Sessions, None

VARIABLES
  emailOf,   \* the email of an account, None for one that does not exist
  usable,    \* the complete accounts
  owners,    \* the accounts of a session: none before it is opened, then one
  over       \* the sessions that are over

vars == <<emailOf, usable, owners, over>>

Register(u) ==
  /\ emailOf[u] = None
  /\ \E e \in Emails :
       /\ \A v \in Accounts : emailOf[v] # e
       /\ emailOf' = [emailOf EXCEPT ![u] = e]
  /\ UNCHANGED <<usable, owners, over>>

Complete(u) ==
  /\ emailOf[u] # None
  /\ usable' = usable \cup {u}
  /\ UNCHANGED <<emailOf, owners, over>>

OpenSession(s) ==
  /\ owners[s] = {}
  /\ \E u \in usable : owners' = [owners EXCEPT ![s] = {u}]
  /\ UNCHANGED <<emailOf, usable, over>>

\* Sessions end by the passing of time, so several may end at once.
EndSessions ==
  /\ over' \in SUBSET {s \in Sessions : owners[s] # {}}
  /\ over \subseteq over'
  /\ UNCHANGED <<emailOf, usable, owners>>

Next ==
  \/ EndSessions
  \/ \E u \in Accounts : Register(u) \/ Complete(u)
  \/ \E s \in Sessions : OpenSession(s)

Init ==
  /\ emailOf \in [Accounts -> Emails \cup {None}]
  /\ \A u, v \in Accounts : emailOf[u] = emailOf[v] => u = v \/ emailOf[u] = None
  /\ usable = {u \in Accounts : emailOf[u] # None}
  /\ owners = [s \in Sessions |-> {}]
  /\ over = {}

Spec == Init /\ [][Next]_vars
=============================================================================
