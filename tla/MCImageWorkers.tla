---------------------------- MODULE MCImageWorkers ----------------------------
(* Small instances of ImageWorkers for TLC.                                *)
EXTENDS ImageWorkers

MCSymmetry == Permutations(Items) \cup Permutations(Queues)
                \cup Permutations(Producers) \cup Permutations(Threads)

=============================================================================
