--------------------------- MODULE MCStreamService ---------------------------
(* Instances of StreamService for TLC.  Handlers and identifiers are       *)
(* interchangeable.                                                        *)
EXTENDS StreamService, TLC

Symmetry == Permutations(Handler) \cup Permutations(Id)

=============================================================================
