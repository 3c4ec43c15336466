---------------------------- MODULE MCStreamTask ----------------------------
(* Instances of StreamTask for TLC.  Workers and stoppers are              *)
(* interchangeable; so are addresses.                                      *)
EXTENDS StreamTask, TLC

Symmetry ==
  Permutations(Worker) \cup Permutations(Stopper) \cup Permutations(Url)

=============================================================================
