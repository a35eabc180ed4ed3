------------------------ MODULE MCManagedCredential ------------------------
(***************************************************************************)
(* Instances of ManagedCredential for TLC.                                 *)
(***************************************************************************)
EXTENDS ManagedCredential, TLC

\* Processes, authenticators and ids are interchangeable.
Symmetry == Permutations(Proc) \cup Permutations(Device)
                \cup Permutations(UserId) \cup Permutations(CredId)
=============================================================================
