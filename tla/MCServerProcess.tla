-------------------------- MODULE MCServerProcess ---------------------------
(* An instance of ServerProcess for TLC: a machine without a GPU, whose    *)
(* clients ask for one, so that the jobs of all streams are run by the     *)
(* workers of the CPU's pool.                                              *)
EXTENDS ServerProcess, TLC

AllOnCpu == [w \in Worker |-> Cpu]
NoSuchGpu == {[s \in Stream |-> 1]}
Symmetry == Permutations(Stream) \cup Permutations(Worker)
=============================================================================
