----------------------------- MODULE MCKeychain -----------------------------
\* Instances of Keychain for TLC.
EXTENDS Keychain, TLC

\* Processes and secrets are interchangeable.
Symmetry == Permutations(Proc) \cup Permutations(Secret)
=============================================================================
