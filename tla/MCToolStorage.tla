---------------------------- MODULE MCToolStorage ----------------------------
\* Instances of ToolStorage for TLC.
EXTENDS ToolStorage, TLC

\* Processes, names and files are interchangeable.
Symmetry == Permutations(Proc) \cup Permutations(Temp) \cup Permutations(File)
=============================================================================
