------------------------ MODULE MCEncryptionMigration ------------------------
(* Bounded instances of EncryptionMigration for TLC. *)
EXTENDS EncryptionMigration, TLC

\* Tabs run the same code; passphrases are only compared.
Symmetry     == Permutations(Tabs) \cup Permutations(Passes)
=============================================================================
