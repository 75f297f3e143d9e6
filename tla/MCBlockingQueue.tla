-------------------------- MODULE MCBlockingQueue --------------------------
(* Instances of BlockingQueue for TLC: threads are model values. *)
EXTENDS BlockingQueue, TLC

Symmetry == Permutations(Producers) \cup Permutations(Consumers)

SymmetryProducers == Permutations(Producers)
=============================================================================
