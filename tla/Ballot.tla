------------------------------- MODULE Ballot -------------------------------
(***************************************************************************)
(* What the README promises of voting on one poll: votes are counted one   *)
(* at a time and a voter is counted once.  VoteService implements it       *)
(* while Redis works.                                                      *)
(***************************************************************************)
EXTENDS Naturals

CONSTANTS Options, Voters

VARIABLES
    counts,     \* counts[o]: the votes for option o
    voted       \* the voters that have been counted

ballotVars == <<counts, voted>>

BallotInit ==
    /\ counts = [o \in Options |-> 0]
    /\ voted = {}

Vote(v, o) ==
    /\ v \notin voted
    /\ voted' = voted \cup {v}
    /\ counts' = [counts EXCEPT ![o] = @ + 1]

BallotNext == \E v \in Voters, o \in Options : Vote(v, o)

BallotSpec == BallotInit /\ [][BallotNext]_ballotVars
=============================================================================
