--------------------------- MODULE MCVoteService ---------------------------
(* VoteService instantiated for TLC. *)
EXTENDS VoteService, TLC

\* Requests of one kind, voters and options are interchangeable.
Symmetry == Permutations(Casts) \cup Permutations(Voters) \cup Permutations(Options)
=============================================================================
