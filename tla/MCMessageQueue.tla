--------------------------- MODULE MCMessageQueue ---------------------------
(* Small instances of the shared message queue for TLC.                     *)
EXTENDS MessageQueueShared, TLC

Symmetry ==
    Permutations(Messages) \union Permutations(Producers) \union Permutations(Consumers)
=============================================================================
