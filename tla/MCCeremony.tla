------------------------------ MODULE MCCeremony ------------------------------
(* Two authenticators, two credentials. *)
EXTENDS Ceremony, TLC

\* Authenticators, credentials and PINs are interchangeable.
Symmetry == Permutations(Device) \cup Permutations(CredId) \cup Permutations(PinValue)
=============================================================================
