------------------------ MODULE MCTransactionManager ------------------------
(* Finite instances of TransactionManager. *)
EXTENDS TransactionManager, TLC

(* A database on disk with several writers (the default), and with it one  *)
(* that allows a single writer and one in memory.                          *)
MCMultiWriter == {[inMemory |-> FALSE, multiWrites |-> TRUE]}
MCAllConfigs == MCMultiWriter \cup {[inMemory |-> FALSE, multiWrites |-> FALSE],
                                   [inMemory |-> TRUE, multiWrites |-> TRUE]}

MCSymmetry == Permutations(Client)
============================================================================
