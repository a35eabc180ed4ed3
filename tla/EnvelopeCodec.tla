---------------------------- MODULE EnvelopeCodec ----------------------------
(***************************************************************************)
(* Format 1 of a KeyEnvelope: what encode writes and what decode accepts   *)
(* (fido-key-wrap/src/envelope.rs, with the limits of policy.rs).          *)
(*                                                                         *)
(* An encoded envelope is a sequence of CBOR items, each reduced to what   *)
(* the decoder tells apart:                                                *)
(*   t      the major type, "other" for those the format does not use      *)
(*   n      the length of an array or a string, the value of an integer    *)
(*   x      the content: equal contents have equal numbers, 0 is content   *)
(*          a validator rejects (a label that is not printable, bytes that *)
(*          are no curve point, an application id that is not well formed) *)
(*   short  the item has the shortest head, as deterministic CBOR demands  *)
(* The magic before the items counts as an item of its own.                *)
(***************************************************************************)
EXTENDS Naturals, FiniteSets, SequencesExt

CONSTANT Invalid    \* no envelope: what decode returns for anything else

MaxEnvelopeSize == 65536
MaxRecipients == 32
MaxCredentialId == 1024
MaxLabel == 64
MinMemory == 65536
MaxMemory == 262144
MinApplicationId == 3
MaxApplicationId == 253

Item(t, n, x) == [t |-> t, n |-> n, x |-> x, short |-> TRUE]
Magic == Item("magic", 4, 1)
ArrayOf(n) == Item("array", n, 1)
Uint(n) == Item("uint", n, 1)

\* The bytes of an item written with its shortest head.
HeadSize(n) ==
    CASE n < 24 -> 1 [] n \in 24 .. 255 -> 2 [] n \in 256 .. 65535 -> 3 [] OTHER -> 5
ItemSize(i) ==
    CASE i.t = "magic" -> 4
      [] i.t \in {"str", "bytes"} -> HeadSize(i.n) + i.n
      [] OTHER -> HeadSize(i.n)
\* (Summed by halves: the recursion of a full envelope stays shallow.)
Size(items) ==
    LET size[part \in (1 .. Len(items)) \X (1 .. Len(items))] ==
            LET a == part[1]
                b == part[2]
                half == (a + b) \div 2
            IN  IF a >= b THEN ItemSize(items[a])
                ELSE size[<<a, half>>] + size[<<half + 1, b>>]
    IN  IF items = <<>> THEN 0 ELSE size[<<1, Len(items)>>]

-----------------------------------------------------------------------------
(***************************************************************************)
(* Recipient records: a suite and the values of its fields, in the order   *)
(* of the format.  A value has the n and x of the item it is written as.   *)
(***************************************************************************)

PassphraseSuite == 1
FidoSuite == 2
FidoAndPassphraseSuite == 3
RecoverySecretSuite == 4
ManagedFidoSuite == 5
FidoAndLocalSecretSuite == 6
Suite == 1 .. 6

KdfFields == <<"kdf", "argon2id", "memory", "passes", "lanes", "salt">>
FidoFields == <<"id", "label", "credential", "key", "policy", "prfNonce", "nonce">>

\* The fields of a record.
Fields(suite) ==
    CASE suite = PassphraseSuite -> <<"id", "label">> \o KdfFields \o <<"nonce", "wrapped">>
      [] suite = RecoverySecretSuite -> <<"id", "label", "nonce", "wrapped">>
      [] suite \in {FidoSuite, ManagedFidoSuite} -> FidoFields \o <<"wrapped">>
      [] suite = FidoAndPassphraseSuite ->
            FidoFields \o KdfFields \o <<"nonce", "wrappedTwice">>
      [] suite = FidoAndLocalSecretSuite ->
            <<"id", "label", "credential", "key", "prfNonce", "nonce", "wrapped">>

\* The value of a field, NoValue for a suite without it (credential_id and
\* passphrase_salt).
NoValue == [n |-> 0, x |-> 0]
Value(r, field) ==
    LET at == {i \in DOMAIN Fields(r.suite) : Fields(r.suite)[i] = field}
    IN  IF at = {} THEN NoValue ELSE r.values[CHOOSE i \in at : TRUE]

\* Recipient ids are ordered by their content.
RecipientId(r) == Value(r, "id").x

-----------------------------------------------------------------------------
(***************************************************************************)
(* encode                                                                  *)
(***************************************************************************)

\* The items of a record's array, as encode_recipient counts them: the suite
\* and the fields, the key-derivation descriptor being one.
RecordLength(suite) ==
    CASE suite = PassphraseSuite -> 6
      [] suite = RecoverySecretSuite -> 5
      [] suite \in {FidoSuite, ManagedFidoSuite} -> 9
      [] suite = FidoAndPassphraseSuite -> 11
      [] suite = FidoAndLocalSecretSuite -> 8

TypeOf(field) ==
    CASE field = "label" -> "str"
      [] field = "kdf" -> "array"
      [] field \in {"argon2id", "memory", "passes", "lanes", "policy"} -> "uint"
      [] OTHER -> "bytes"

\* encode_recipient and encode_kdf
EncodeRecipient(r) ==
    <<ArrayOf(RecordLength(r.suite)), Uint(r.suite)>> \o
    [i \in DOMAIN r.values |->
        Item(TypeOf(Fields(r.suite)[i]), r.values[i].n, r.values[i].x)]

\* encode, encode_full and encode_body_fields
Encode(e) ==
    <<Magic, ArrayOf(5), Uint(1), Item("str", e.application.n, e.application.x),
      Item("bytes", 32, e.envelopeId), ArrayOf(Len(e.recipients))>>
    \o FlattenSeq([i \in DOMAIN e.recipients |-> EncodeRecipient(e.recipients[i])])
    \o <<Item("bytes", 32, e.mac)>>

-----------------------------------------------------------------------------
(***************************************************************************)
(* decode                                                                  *)
(***************************************************************************)

\* exact_bytes
ExactBytes(i, n) == i.t = "bytes" /\ i.n = n

\* What the decoder takes the item i for: exact_bytes, decode_label,
\* decode_credential_id, PublicKey64::new, FidoPolicy::from_code, require_array.
Reads(field, i) ==
    CASE field = "id" -> ExactBytes(i, 32)
      [] field = "label" -> i.t = "str" /\ i.n \in 1 .. MaxLabel /\ i.x # 0
      [] field = "credential" -> i.t = "bytes" /\ i.n \in 1 .. MaxCredentialId
      [] field = "key" -> ExactBytes(i, 64) /\ i.x # 0
      [] field = "policy" -> i.t = "uint" /\ i.n \in {1, 2}
      [] field = "prfNonce" -> ExactBytes(i, 32)
      [] field = "nonce" -> ExactBytes(i, 12)
      [] field = "wrapped" -> ExactBytes(i, 48)
      [] field = "wrappedTwice" -> ExactBytes(i, 64)
      [] field = "kdf" -> i.t = "array" /\ i.n = 5
      [] field = "argon2id" -> i.t = "uint" /\ i.n = 1
      [] field \in {"memory", "passes", "lanes"} -> i.t = "uint"
      [] field = "salt" -> ExactBytes(i, 16)

\* validate_parameters
ValidParameters(memory, passes, lanes) ==
    /\ lanes \in 1 .. 4
    /\ passes \in 3 .. 6
    /\ memory \in MinMemory .. MaxMemory
    /\ memory >= 8 * lanes /\ memory % (4 * lanes) = 0

\* PassphraseParameters::decode, for the records that have them.
ParametersRead(r) ==
    Value(r, "kdf") # NoValue =>
        ValidParameters(Value(r, "memory").n, Value(r, "passes").n, Value(r, "lanes").n)

\* decode_recipient and the decoders of the suites, at item p.
ReadsRecipient(items, p) ==
    /\ p + 1 <= Len(items)
    /\ items[p].t = "array"
    /\ items[p + 1].t = "uint" /\ items[p + 1].n \in Suite
    /\ LET suite == items[p + 1].n
           fields == Fields(suite)
       IN  /\ items[p].n = RecordLength(suite)
           /\ p + 1 + Len(fields) <= Len(items)
           /\ \A f \in DOMAIN fields : Reads(fields[f], items[p + 1 + f])

RecipientAt(items, p) ==
    LET suite == items[p + 1].n
    IN  [suite |-> suite,
         values |-> [f \in DOMAIN Fields(suite) |->
                        [n |-> items[p + 1 + f].n, x |-> items[p + 1 + f].x]]]

\* What was read so far, the records and where the next item is, with one record
\* more; at = 0 after an item that was not what decode_recipient wanted.
ReadNext(items, done) ==
    IF done.at = 0 \/ ~ReadsRecipient(items, done.at) THEN [at |-> 0, list |-> <<>>]
    ELSE LET r == RecipientAt(items, done.at)
         IN  IF ~ParametersRead(r) THEN [at |-> 0, list |-> <<>>]
             ELSE [at |-> done.at + 2 + Len(r.values), list |-> Append(done.list, r)]

\* The loop of decode over as many records as the header counts.
ReadRecipients(items, count) ==
    LET read[i \in 0 .. count] ==
            IF i = 0 THEN [at |-> 7, list |-> <<>>] ELSE ReadNext(items, read[i - 1])
    IN  read[count]

\* Mutated form: only neighbours are compared.
ValidRecipientSetAdjacent(list) ==
    \A i, j \in DOMAIN list : j = i + 1 =>
        /\ RecipientId(list[i]) < RecipientId(list[j])
        /\ Value(list[i], "credential") = Value(list[j], "credential")
                => Value(list[i], "credential") = NoValue
        /\ Value(list[i], "salt") = Value(list[j], "salt")
                => Value(list[i], "salt") = NoValue

\* validate_recipient_set: sorted by id, no credential and no salt twice.
ValidRecipientSet(list) ==
    /\ \A i \in 1 .. Len(list) - 1 : RecipientId(list[i]) < RecipientId(list[i + 1])
    /\ \A i, j \in DOMAIN list : i < j =>
        /\ Value(list[i], "credential") = Value(list[j], "credential")
                => Value(list[i], "credential") = NoValue
        /\ Value(list[i], "salt") = Value(list[j], "salt")
                => Value(list[i], "salt") = NoValue

\* The items before the records.
ReadsHeader(items) ==
    /\ Len(items) >= 6
    /\ items[1] = Magic
    /\ items[2].t = "array" /\ items[2].n = 5
    /\ items[3].t = "uint" /\ items[3].n = 1
    /\ items[4].t = "str" /\ items[4].n \in MinApplicationId .. MaxApplicationId /\ items[4].x # 0
    /\ ExactBytes(items[5], 32)
    /\ items[6].t = "array" /\ items[6].n \in 1 .. MaxRecipients

\* KeyEnvelope::decode: the envelope, or Invalid.  Integers and lengths may
\* have longer heads while they are read; that the input is what encode would
\* write again refuses them.
Decode(items) ==
    IF Size(items) > MaxEnvelopeSize \/ ~ReadsHeader(items) THEN Invalid
    ELSE LET read == ReadRecipients(items, items[6].n)
             e == [application |-> [n |-> items[4].n, x |-> items[4].x],
                   envelopeId |-> items[5].x,
                   recipients |-> read.list,
                   mac |-> items[Len(items)].x]
         IN  IF /\ read.at = Len(items)
                /\ ExactBytes(items[read.at], 32)
                /\ ValidRecipientSet(read.list)
                /\ Encode(e) = items
             THEN e ELSE Invalid

-----------------------------------------------------------------------------
(***************************************************************************)
(* What decode promises: an independent description of a valid envelope.   *)
(***************************************************************************)

Distinct(e, field) ==
    LET with == {i \in DOMAIN e.recipients : Value(e.recipients[i], field) # NoValue}
    IN  Cardinality({Value(e.recipients[i], field) : i \in with}) = Cardinality(with)

ValidEnvelope(e) ==
    /\ Len(e.recipients) \in 1 .. MaxRecipients
    /\ \A i, j \in DOMAIN e.recipients :
            i < j => RecipientId(e.recipients[i]) < RecipientId(e.recipients[j])
    /\ Distinct(e, "credential") /\ Distinct(e, "salt")
    /\ \A i \in DOMAIN e.recipients :
        LET r == e.recipients[i]
        IN  /\ Len(r.values) = Len(Fields(r.suite))
            /\ Value(r, "label").x # 0
            /\ Value(r, "kdf") # NoValue =>
                    \E lanes \in 1 .. 4, passes \in 3 .. 6 :
                        /\ Value(r, "lanes").n = lanes
                        /\ Value(r, "passes").n = passes
                        /\ Value(r, "memory").n \in MinMemory .. MaxMemory
                        /\ Value(r, "memory").n = 4 * lanes * (Value(r, "memory").n \div (4 * lanes))

-----------------------------------------------------------------------------
(***************************************************************************)
(* The values of the model.                                                *)
(***************************************************************************)

Items == [t : {"magic", "array", "uint", "str", "bytes", "other"}, n : Nat, x : Nat,
          short : BOOLEAN]

\* Records that decode_recipient reads back, whatever builds them.
Records ==
    {r \in [suite : Suite, values : Seq([n : Nat, x : Nat])] :
        /\ Len(r.values) = Len(Fields(r.suite))
        /\ \A f \in DOMAIN r.values :
            LET field == Fields(r.suite)[f]
            IN  Reads(field, Item(TypeOf(field), r.values[f].n, r.values[f].x))
        /\ ParametersRead(r)}

\* Envelopes, also before the first record.
Envelopes ==
    {e \in [application : [n : MinApplicationId .. MaxApplicationId, x : Nat \ {0}],
            envelopeId : Nat, recipients : Seq(Records), mac : Nat] :
        /\ Len(e.recipients) <= MaxRecipients
        /\ ValidRecipientSet(e.recipients)}

ASSUME InvalidAssumption == Invalid \notin Envelopes
=============================================================================
