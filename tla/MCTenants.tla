------------------------------ MODULE MCTenants ------------------------------
(***************************************************************************)
(* Instances of Tenants for TLC: User, which Article refers to, and        *)
(* Comment, which refers to both, stand for the eight tables of a tenant.  *)
(***************************************************************************)
EXTENDS Tenants, TLC

MCTables == {"User", "Article", "Comment"}
MCReferences ==
  ("User" :> {}) @@ ("Article" :> {"User"}) @@ ("Comment" :> {"User", "Article"})

Symmetry == Permutations(Requests) \cup Permutations(Names) \cup Permutations(Passwords)
=============================================================================
