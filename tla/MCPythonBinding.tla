--------------------------- MODULE MCPythonBinding ---------------------------
(* Two threads, two protectors, callbacks that call again. *)
EXTENDS PythonBinding, TLC

Symmetry == Permutations(Thread) \cup Permutations(Protector)
=============================================================================
