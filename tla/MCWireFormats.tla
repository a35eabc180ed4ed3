---------------------------- MODULE MCWireFormats ----------------------------
(* Records of every suite and size between two that share its kinds of field, *)
(* and the secrets at the limits of the tool.                                 *)
EXTENDS WireFormats

Between ==
    [suite : Suite, id : {2}, wide : BOOLEAN]
    \cup [suite : {FidoAndPassphraseSuite}, id : {1}, wide : {FALSE}]
    \cup [suite : {FidoAndPassphraseSuite, ManagedFidoSuite}, id : {3}, wide : {FALSE}]

BoundarySecrets == {0, 1, MaxSecretBytes, MaxSecretBytes + 1}
=============================================================================
