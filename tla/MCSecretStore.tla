---------------------------- MODULE MCSecretStore ----------------------------
\* Instances of SecretStore for TLC.
EXTENDS SecretStore, TLC

\* Processes, secrets and object paths are interchangeable.
Symmetry == Permutations(Proc) \cup Permutations(Secret) \cup Permutations(Item)
=============================================================================
