------------------------- MODULE MCCredentialStore --------------------------
(* Small instances of CredentialStore. *)
EXTENDS CredentialStore, TLC

\* Generation ids are random and only compared for equality.
Interchangeable == Permutations(Generations) \cup Permutations(Readers)
=============================================================================
