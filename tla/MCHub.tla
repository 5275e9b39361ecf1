-------------------------------- MODULE MCHub --------------------------------
(* Hub instantiated for TLC. *)
EXTENDS Hub, TLC

\* Connections are interchangeable, and so are room objects.
Symmetry == Permutations(Clients) \cup Permutations(Rooms)
=============================================================================
