---------------------------- MODULE MCKeyProtector ----------------------------
\* Small instances of KeyProtector for TLC.
EXTENDS KeyProtector, TLC

\* Roots and passphrases are interchangeable.  (Random draws are fixed by
\* CHOOSE, so their values are not.)
Symmetry == Permutations(Root) \cup Permutations(Word)
=============================================================================
