------------------------------ MODULE MCSessions ------------------------------
(***************************************************************************)
(* Instances of Sessions for TLC.  The account s is there from the start,  *)
(* with the email m and the password x.                                    *)
(***************************************************************************)
EXTENDS Sessions, TLC

CONSTANTS m, x

MCSeedEmail == [u \in Seeds |-> m]
MCSeedPassword == [u \in Seeds |-> x]

Symmetry == Permutations(Requests)

\* Requests 1, 2, 3 arrive in this order: they are interchangeable, so nothing is
\* lost, also where symmetry cannot be used because of liveness.
ArriveInOrder == \A q, r \in Requests : q < r /\ pc[r] # "idle" => pc[q] # "idle"
=============================================================================
