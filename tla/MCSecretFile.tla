----------------------------- MODULE MCSecretFile -----------------------------
(* Bytes of one bit, fields of one and two bytes, and two secrets of each     *)
(* length the limits leave: small enough to try every file there is.          *)
EXTENDS SecretFile

OneByteHeader == <<1>>
ShortAndLong == {<<1>>, <<0, 1>>}
TwoSecrets == {<<0>>, <<1, 1>>}
Outputs == {<<1, 0>>, <<0, 1, 0>>}
=============================================================================
