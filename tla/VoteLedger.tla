------------------------------ MODULE VoteLedger ------------------------------
(***************************************************************************)
(* What voting promises, apart from how CommentService keeps it: ballots   *)
(* are opened, cast, counted and closed.  A ballot is cast only while no   *)
(* ballot of the same voter stands that was closed before this one was     *)
(* opened; it is counted at most once, and only while it stands; a ballot  *)
(* that was closed is neither cast nor counted any more.                   *)
(***************************************************************************)
EXTENDS Integers

CONSTANTS Ballots, Voters, Comments, NoBallot

VARIABLES
  votes,    \* what a ballot says: voter, comment and direction
  standing, \* the ballots that are cast, and whose comment exists
  counted,  \* the ballots that are part of a tally
  closed,   \* the ballots whose voter has been answered, or has given up
  earlier,  \* the ballots that were closed when this one was opened
  tally     \* the score of a comment

vars == <<votes, standing, counted, closed, earlier, tally>>

Votes == [voter : Voters, comment : Comments, up : BOOLEAN]

Init ==
  /\ votes = [b \in Ballots |-> NoBallot]
  /\ standing = {} /\ counted = {} /\ closed = {}
  /\ earlier = [b \in Ballots |-> {}]
  /\ tally = [c \in Comments |-> 0]

\* A ballot may be turned away at once.
Open(b) ==
  /\ votes[b] = NoBallot
  /\ \E v \in Votes : votes' = [votes EXCEPT ![b] = v]
  /\ earlier' = [earlier EXCEPT ![b] = closed]
  /\ closed' \in {closed, closed \cup {b}}
  /\ UNCHANGED <<standing, counted, tally>>

SameVoter(a, b) ==
  votes[a].voter = votes[b].voter /\ votes[a].comment = votes[b].comment

Cast(b) ==
  /\ votes[b] # NoBallot
  /\ b \notin standing \cup counted \cup closed
  /\ \A a \in standing \cap earlier[b] : ~SameVoter(a, b)
  /\ standing' = standing \cup {b}
  /\ UNCHANGED <<votes, counted, closed, earlier, tally>>

Count(b) ==
  /\ b \in standing \ (counted \cup closed)
  /\ counted' = counted \cup {b}
  /\ tally' = [tally EXCEPT ![votes[b].comment] = IF votes[b].up THEN @ + 1 ELSE @ - 1]
  /\ UNCHANGED <<votes, standing, closed, earlier>>

\* One ballot is answered, or many are lost together, counted or not.
Close ==
  /\ closed' \in SUBSET {b \in Ballots : votes[b] # NoBallot}
  /\ closed \subseteq closed'
  /\ UNCHANGED <<votes, standing, counted, earlier, tally>>

\* Comments go, each with all ballots cast for it.
Remove ==
  /\ standing' \in SUBSET standing
  /\ \A a, b \in standing :
       votes[a].comment = votes[b].comment => (a \in standing' <=> b \in standing')
  /\ UNCHANGED <<votes, counted, closed, earlier, tally>>

Next == Close \/ Remove \/ \E b \in Ballots : Cast(b) \/ Count(b) \/ Open(b)

Spec == Init /\ [][Next]_vars
=============================================================================
