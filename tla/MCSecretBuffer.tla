---------------------------- MODULE MCSecretBuffer ----------------------------
(* Lengths around several multiples of the chunk and on both sides of the limit. *)
EXTENDS SecretBuffer
=============================================================================
