-------------------------- MODULE MCPresenceKeychain --------------------------
\* Instances of PresenceKeychain for TLC.
EXTENDS PresenceKeychain, TLC

\* Processes and secrets are interchangeable.
Symmetry == Permutations(Proc) \cup Permutations(Secret)
=============================================================================
