-------------------------- MODULE MCStreamServer ---------------------------
(* Small instances of StreamServer for TLC.                                *)
EXTENDS ServerRefinement, TLC

\* Descriptors are interchangeable, connections too: the specification treats
\* all members of each set alike.
Symmetry == Permutations(Conns) \cup Permutations(Fds)
=============================================================================
