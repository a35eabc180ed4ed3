------------------------------ MODULE SecretFile ------------------------------
(***************************************************************************)
(* The one-file container of fkw-tool, byte by byte                        *)
(* (fkw-tool/src/container.rs, and seal and unseal of app.rs): a header,   *)
(* an envelope behind its length, a nonce, and a ciphertext behind its     *)
(* length.  decode compares no length with anything but its limits: it     *)
(* takes as many bytes as a length says and reads on from there, and asks  *)
(* at last whether any byte is left.                                       *)
(*                                                                         *)
(* The bytes of an envelope are what WireFormats is about; here they are   *)
(* opaque.  A root opens only the envelope it was created with, and the    *)
(* cipher is ideal: it returns a plaintext only for the key, nonce and     *)
(* envelope that ciphertext was made with.                                 *)
(***************************************************************************)
EXTENDS Naturals, Sequences

CONSTANTS
    Base,           \* values of a byte
    Header,         \* MAGIC and FORMAT, a sequence of bytes
    NonceLen,       \* NONCE_BYTES
    TagLen,         \* TAG_BYTES
    EnvelopeLimit,  \* MAX_ENVELOPE_BYTES
    SecretLimit,    \* MAX_SECRET_BYTES
    KeyEnvelopes,   \* encoded envelopes that create_root may return
    Plaintexts,     \* secrets, sequences of bytes
    Ciphertexts,    \* what the cipher may produce, sequences of bytes
    NoContainer,    \* there is no file
    Refused,        \* no secret is unsealed
    FileLimit,      \* bound: length of a file that takes another's place
    MaxOverwrites   \* bound: how often that happens

VARIABLES
    container,  \* the bytes of the file, or NoContainer
    seals,      \* what was sealed: envelope, nonce, ciphertext and secret
    overwrites  \* how often the bytes were changed

secretVars == <<container, seals, overwrites>>

Byte == 0 .. Base - 1

\* A length field has four bytes.
LengthRange == 0 .. Base * Base * Base * Base - 1

ASSUME BytesAssumption ==
    /\ Base \in Nat /\ Base >= 2
    /\ NonceLen \in Nat /\ TagLen \in Nat
    /\ Header \in Seq(Byte)
    /\ KeyEnvelopes \subseteq Seq(Byte) /\ Plaintexts \subseteq Seq(Byte)
    /\ Ciphertexts \subseteq Seq(Byte)
ASSUME LimitsAssumption ==
    /\ EnvelopeLimit \in LengthRange
    /\ SecretLimit \in Nat /\ SecretLimit + TagLen \in LengthRange
    /\ FileLimit \in Nat /\ MaxOverwrites \in Nat
ASSUME NoContainerAssumption == NoContainer \notin Seq(Byte)
ASSUME RefusedAssumption == Refused \notin Plaintexts

-----------------------------------------------------------------------------
(***************************************************************************)
(* Encoding.                                                               *)
(***************************************************************************)

\* to_be_bytes of a length_u32
LengthField(n) ==
    LET high == n \div Base
        higher == high \div Base
    IN  <<higher \div Base, higher % Base, high % Base, n % Base>>

\* from_be_bytes
Number(field) ==
    ((field[1] * Base + field[2]) * Base + field[3]) * Base + field[4]

\* SecretFile::encode
Container(s) ==
    Header \o LengthField(Len(s.envelope)) \o s.envelope
        \o s.nonce \o LengthField(Len(s.ciphertext)) \o s.ciphertext

\* validate_envelope_len and validate_ciphertext_len, on the length alone.
EnvelopeLenOK(n) == n \in 1 .. EnvelopeLimit
CiphertextLenOK(n) == n \in TagLen + 1 .. SecretLimit + TagLen

ContainerLimit ==
    Len(Header) + 4 + EnvelopeLimit + NonceLen + 4 + SecretLimit + TagLen

-----------------------------------------------------------------------------
(***************************************************************************)
(* Decoding.                                                               *)
(***************************************************************************)

\* ByteCursor::take of n bytes when `at` bytes were taken before.
Slice(f, at, n) == SubSeq(f, at + 1, at + n)

\* ByteCursor::take_u32
LengthAt(f, at) == Number(Slice(f, at, 4))

\* The cursor where each field begins, and behind the last.
EnvelopeAt == Len(Header) + 4
NonceAt(f) == EnvelopeAt + LengthAt(f, Len(Header))
CiphertextAt(f) == NonceAt(f) + NonceLen + 4
EndAt(f) == CiphertextAt(f) + LengthAt(f, NonceAt(f) + NonceLen)

\* SecretFile::decode up to the ciphertext, in the order of the code: what is
\* taken must be there.
TakesFields(f) ==
    /\ Len(f) <= ContainerLimit
    /\ EnvelopeAt <= Len(f) /\ Slice(f, 0, Len(Header)) = Header
    /\ EnvelopeLenOK(LengthAt(f, Len(Header)))
    /\ CiphertextAt(f) <= Len(f)
    /\ CiphertextLenOK(LengthAt(f, NonceAt(f) + NonceLen))
    /\ EndAt(f) <= Len(f)

\* Mutated form: bytes behind the ciphertext are not noticed.
DecodesTail(f) == TakesFields(f)

\* SecretFile::decode: in the end the cursor is_empty.
Decodes(f) == TakesFields(f) /\ EndAt(f) = Len(f)

\* The fields decode takes.
Taken(f) ==
    [envelope |-> Slice(f, EnvelopeAt, LengthAt(f, Len(Header))),
     nonce |-> Slice(f, NonceAt(f), NonceLen),
     ciphertext |-> Slice(f, CiphertextAt(f), LengthAt(f, NonceAt(f) + NonceLen))]

\* KeyProtector::unlock recovers the root of an envelope that create_root
\* returned, and EncryptedSecret::decrypt takes the key from that root and the
\* bytes of the envelope as associated data.
Opens(s, parts) ==
    /\ s.envelope = parts.envelope
    /\ s.nonce = parts.nonce /\ s.ciphertext = parts.ciphertext

\* Application::unseal: the secret, or Refused.
UnsealSecret(f) ==
    LET opened == {s \in seals : Opens(s, Taken(f))}
    IN  IF f # NoContainer /\ Decodes(f) /\ opened # {}
        THEN (CHOOSE s \in opened : TRUE).secret
        ELSE Refused

-----------------------------------------------------------------------------
SecretInit == container = NoContainer /\ seals = {} /\ overwrites = 0

\* Application::seal on a path where no file is.  Every envelope has ids and a
\* root of its own.
SealSecret ==
    /\ container = NoContainer
    /\ \E e \in KeyEnvelopes, nonce \in [1 .. NonceLen -> Byte],
          p \in Plaintexts, c \in Ciphertexts :
        /\ Len(p) \in 1 .. SecretLimit /\ Len(c) = Len(p) + TagLen
        /\ EnvelopeLenOK(Len(e)) /\ \A s \in seals : s.envelope # e
        /\ LET s == [envelope |-> e, nonce |-> nonce, ciphertext |-> c, secret |-> p]
           IN  container' = Container(s) /\ seals' = seals \cup {s}
    /\ UNCHANGED overwrites

\* The user moves the file away and the path is free again.
MoveAway ==
    /\ container # NoContainer
    /\ container' = NoContainer
    /\ UNCHANGED <<seals, overwrites>>

\* Any bytes at all may be where the file was: some of them changed, cut off or
\* added, parts of two files, another file.
Overwrite ==
    /\ container # NoContainer /\ overwrites < MaxOverwrites
    /\ \E n \in 0 .. FileLimit : container' \in [1 .. n -> Byte]
    /\ overwrites' = overwrites + 1
    /\ UNCHANGED seals

SecretNext == SealSecret \/ MoveAway \/ Overwrite

SecretSpec == SecretInit /\ [][SecretNext]_secretVars

-----------------------------------------------------------------------------
(***************************************************************************)
(* Properties.                                                             *)
(***************************************************************************)

\* A file unseals to a secret exactly if it is, byte for byte, what seal wrote
\* for that secret: no changed length makes decode take an envelope, a nonce
\* and a ciphertext that belong together from anywhere else, no byte is left
\* unread, and nothing that was sealed is refused (SecretFile::encode and
\* decode, ByteCursor, EncryptedSecret::decrypt).
DamageIsSeen ==
    /\ \A s \in seals : container = Container(s) => UnsealSecret(container) = s.secret
    /\ (\A s \in seals : container # Container(s)) => UnsealSecret(container) = Refused

-----------------------------------------------------------------------------
(***************************************************************************)
(* The invariant behind it.                                                *)
(***************************************************************************)

\* Nothing that was sealed breaks a limit of decode.
WellSealed(s) ==
    /\ s.envelope \in Seq(Byte) /\ s.nonce \in Seq(Byte) /\ s.ciphertext \in Seq(Byte)
    /\ EnvelopeLenOK(Len(s.envelope)) /\ CiphertextLenOK(Len(s.ciphertext))
    /\ Len(s.nonce) = NonceLen

SecretTypeOK ==
    /\ container \in Seq(Byte) \cup {NoContainer}
    /\ \A s \in seals : WellSealed(s)
    /\ overwrites \in 0 .. MaxOverwrites

\* An envelope tells which root, nonce and ciphertext belong to it.
SecretInv ==
    /\ SecretTypeOK
    /\ \A s, t \in seals : s.envelope = t.envelope => s = t
=============================================================================
