----------------------------- MODULE WireFormats -----------------------------
(***************************************************************************)
(* Key envelopes from writing to reading: what an application keeps of the *)
(* envelopes a KeyProtector returns (fido-key-wrap/src/protector.rs),      *)
(* after anything that happened to the bytes in between, and whether the   *)
(* limits of the one-file container of fkw-tool (fkw-tool/src/app.rs,      *)
(* container.rs) leave room for every envelope and secret it may hold.     *)
(*                                                                         *)
(* KeyProtector follows how a route is enrolled and unlocked, SecretFile   *)
(* the bytes of a container and ToolStorage how it reaches the disk; here  *)
(* a container counts for its size.                                        *)
(***************************************************************************)
EXTENDS EnvelopeCodec

CONSTANTS
    Enrolled,   \* recipients that are enrolled: suite, id and whether wide
    Crowd,      \* recipients of an envelope that was filled before, at most 32
    Secrets,    \* lengths of the secrets that are sealed
    NoFile,     \* nothing is stored
    MaxDamage   \* bound: changes to the stored bytes

ASSUME EnrolledAssumption ==
    Enrolled \subseteq [suite : Suite, id : Nat \ {0}, wide : BOOLEAN]
ASSUME CrowdAssumption == Crowd \in 1 .. MaxRecipients
ASSUME SecretsAssumption == Secrets \subseteq Nat /\ MaxDamage \in Nat

VARIABLES
    envelope,   \* the envelope an application holds, Invalid before the first
    stored,     \* what it stored: an envelope, or a container with a secret
    \* history variables, read by no guard of the code
    turnedDown, \* an enrollment or a sealing failed for its encoding alone
    damages     \* changes to the file so far

Ids == {r.id : r \in Enrolled}

formatVars == <<envelope, stored, turnedDown, damages>>

-----------------------------------------------------------------------------
(***************************************************************************)
(* Enrollment.                                                             *)
(***************************************************************************)

\* The fields of a record as the protector builds it, with the narrowest or
\* the widest values the enrollment API takes.  Credential ids and salts are
\* as new as the recipient id.
NewValue(r, field) ==
    LET id == r.id
        wide == r.wide
    IN  CASE field = "id" -> [n |-> 32, x |-> id]
          [] field = "label" -> [n |-> IF wide THEN MaxLabel ELSE 1, x |-> 1]
          [] field = "credential" -> [n |-> IF wide THEN MaxCredentialId ELSE 1, x |-> id]
          [] field = "key" -> [n |-> 64, x |-> id]
          [] field = "policy" -> [n |-> IF wide THEN 2 ELSE 1, x |-> 1]
          [] field = "prfNonce" -> [n |-> 32, x |-> 1]
          [] field = "nonce" -> [n |-> 12, x |-> 1]
          [] field = "wrapped" -> [n |-> 48, x |-> 1]
          [] field = "wrappedTwice" -> [n |-> 64, x |-> 1]
          [] field = "kdf" -> [n |-> 5, x |-> 1]
          [] field = "argon2id" -> [n |-> 1, x |-> 1]
          [] field = "memory" -> [n |-> IF wide THEN MaxMemory ELSE MinMemory, x |-> 1]
          [] field = "passes" -> [n |-> IF wide THEN 6 ELSE 3, x |-> 1]
          [] field = "lanes" -> [n |-> IF wide THEN 4 ELSE 1, x |-> 1]
          [] field = "salt" -> [n |-> 16, x |-> id]

NewRecord(r) ==
    [suite |-> r.suite,
     values |-> [i \in DOMAIN Fields(r.suite) |-> NewValue(r, Fields(r.suite)[i])]]

NewEnvelope(wide) ==
    [application |-> [n |-> IF wide THEN MaxApplicationId ELSE MinApplicationId, x |-> 1],
     envelopeId |-> 1, recipients |-> <<>>, mac |-> 1]

\* An envelope whose every recipient is as large as one can be.
Crowded ==
    [NewEnvelope(TRUE) EXCEPT !.recipients =
        [i \in 1 .. Crowd |-> NewRecord(
            [suite |-> FidoAndPassphraseSuite, id |-> 10 + i, wide |-> TRUE])]]

\* stage_record: the record is pushed and the recipients sorted by id, as the
\* others are already.
Staged(e, r) ==
    LET smaller == {i \in DOMAIN e.recipients :
                        RecipientId(e.recipients[i]) < RecipientId(r)}
    IN  [e EXCEPT !.recipients = InsertAt(@, Cardinality(smaller) + 1, r)]

\* canonicalize
Canonicalize(e) == Decode(Encode(e))

-----------------------------------------------------------------------------
(***************************************************************************)
(* The container of fkw-tool.                                              *)
(***************************************************************************)

TagBytes == 16
MaxSecretBytes == 1024 * 1024
MaxContainerBytes == 4 + 1 + 4 + MaxEnvelopeSize + 12 + 4 + MaxSecretBytes + TagBytes
MaxFileBytes == 2 * 1024 * 1024

\* Mutated form: the tag is forgotten in the bound.
ValidCiphertextLenTight(n) == n \in TagBytes + 1 .. MaxSecretBytes

\* validate_ciphertext_len
ValidCiphertextLen(n) == n \in TagBytes + 1 .. MaxSecretBytes + TagBytes

\* validate_envelope_len
ValidEnvelopeLen(n) == n \in 1 .. MaxEnvelopeSize

\* The bytes of a file: SecretFile::encode around an envelope, or an envelope.
FileSize(f) == IF f.sealed
               THEN 4 + 1 + 4 + Size(f.items) + 12 + 4 + f.ciphertextLen
               ELSE Size(f.items)

\* An envelope stored on its own.
Bare(items) == [sealed |-> FALSE, items |-> items, ciphertextLen |-> 0]

\* EncryptedSecret::encrypt of a secret of n bytes.
Sealed(items, n) == [sealed |-> TRUE, items |-> items, ciphertextLen |-> n + TagBytes]

\* The limits of read_private and SecretFile::decode, for a file as it was
\* written.
FitsContainer(f) ==
    /\ FileSize(f) <= MaxFileBytes /\ FileSize(f) <= MaxContainerBytes
    /\ ValidEnvelopeLen(Size(f.items)) /\ ValidCiphertextLen(f.ciphertextLen)

\* Application::validate_envelope: one recipient, of a kind the tool enrolls,
\* for the tool's own application (content 1).
ToolEnvelope(e) ==
    /\ e.application.x = 1
    /\ Len(e.recipients) = 1
    /\ e.recipients[1].suite \in {PassphraseSuite, FidoSuite, FidoAndPassphraseSuite}

\* KeyEnvelope::decode on what was stored, or Application::load.
Load(f) ==
    IF f.sealed /\ ~FitsContainer(f) THEN Invalid
    ELSE LET e == Decode(f.items)
         IN  IF e # Invalid /\ f.sealed /\ ~ToolEnvelope(e) THEN Invalid ELSE e

-----------------------------------------------------------------------------
FormatInit ==
    /\ envelope \in {Invalid, Crowded}
    /\ stored = NoFile
    /\ turnedDown = FALSE /\ damages = 0

Hold(e) ==
    /\ envelope' = IF e = Invalid THEN envelope ELSE e
    /\ turnedDown' = (turnedDown \/ e = Invalid)
    /\ UNCHANGED <<stored, damages>>

\* create_root, protect_root and their dedicated forms.
Create ==
    /\ envelope = Invalid /\ stored = NoFile
    /\ \E r \in Enrolled :
        Hold(Canonicalize(Staged(NewEnvelope(r.wide), NewRecord(r))))

\* add_recipient, add_recovery_secret and add_fido_and_local_secret, up to
\* MAX_RECIPIENTS and with an id no recipient has.
AddRecipient ==
    /\ envelope # Invalid /\ stored = NoFile
    /\ Len(envelope.recipients) < MaxRecipients
    /\ \E r \in Enrolled :
        /\ \A i \in DOMAIN envelope.recipients : RecipientId(envelope.recipients[i]) # r.id
        /\ Hold(Canonicalize(Staged(envelope, NewRecord(r))))

\* An application stores the encoding of its envelope.
Store ==
    /\ envelope # Invalid /\ stored = NoFile
    /\ stored' = Bare(Encode(envelope))
    /\ UNCHANGED <<envelope, turnedDown, damages>>

\* Application::seal, after create_root.
Seal ==
    /\ envelope # Invalid /\ stored = NoFile
    /\ ToolEnvelope(envelope)
    /\ \E n \in Secrets \cap (1 .. MaxSecretBytes) :
        LET e == Canonicalize(envelope)
            f == Sealed(Encode(e), n)
        IN  IF /\ e # Invalid /\ ToolEnvelope(e)
               /\ ValidEnvelopeLen(Size(f.items)) /\ ValidCiphertextLen(f.ciphertextLen)
               /\ FileSize(f) <= MaxFileBytes
            THEN stored' = f /\ UNCHANGED turnedDown
            ELSE turnedDown' = TRUE /\ UNCHANGED stored
    /\ UNCHANGED <<envelope, damages>>

Near(n) == {n - 1, n + 1} \cap Nat

\* Other bytes in place of one item: another head, another length or value,
\* other content (of another item of the file perhaps), another type.
Replaced(i) ==
    {[i EXCEPT !.short = FALSE], [i EXCEPT !.t = "other"]}
    \cup {[i EXCEPT !.n = n] : n \in Near(i.n)}
    \cup (IF i.t = "uint" THEN {Uint(n) : n \in Suite}
          ELSE {[i EXCEPT !.x = x] : x \in {0} \cup Ids})

\* Items changed, lost, doubled, exchanged with the next, cut off or appended.
Altered(items) ==
    LET all == DOMAIN items
    IN  (UNION {{ReplaceAt(items, p, i) : i \in Replaced(items[p])} : p \in all})
        \cup {RemoveAt(items, p) : p \in all}
        \cup {InsertAt(items, p, items[p]) : p \in all}
        \cup {ReplaceAt(ReplaceAt(items, p, items[p + 1]), p + 1, items[p]) :
                    p \in 1 .. Len(items) - 1}
        \cup {SubSeq(items, 1, p) : p \in all}
        \cup {Append(items, Uint(1))}

\* Anything may happen to a stored envelope.  (What it does to a container is
\* SecretFile's.  A crowded envelope is stored and read as it is: its size is
\* what it is there for.)
Damage ==
    /\ stored # NoFile /\ ~stored.sealed /\ damages < MaxDamage
    /\ Len(envelope.recipients) < Crowd
    /\ \E items \in Altered(stored.items) : stored' = [stored EXCEPT !.items = items]
    /\ damages' = damages + 1
    /\ UNCHANGED <<envelope, turnedDown>>

FormatNext == Create \/ AddRecipient \/ Store \/ Seal \/ Damage

FormatSpec == FormatInit /\ [][FormatNext]_formatVars

-----------------------------------------------------------------------------
(***************************************************************************)
(* Properties.                                                             *)
(***************************************************************************)

\* What is written can be read: no enrollment fails because its envelope is
\* too large or not canonical, up to the full number of the largest
\* recipients (a security key would already hold the new credential), no
\* secret of a permitted length fails to be sealed, and a stored envelope or
\* the envelope of a sealed file comes back as it was (the limits of
\* envelope.rs, container.rs and storage.rs fit together).
WrittenIsReadable ==
    /\ ~turnedDown
    /\ stored # NoFile /\ damages = 0 => Load(stored) = envelope

\* Bytes that decode are the one encoding of a valid envelope, however they
\* came about: sorted records with distinct ids, credentials and salts, fields
\* within the limits, every head the shortest, nothing after the end
\* (KeyEnvelope::decode; what MAC and associated data cover is then the bytes).
AcceptedIsValid ==
    stored # NoFile /\ Load(stored) # Invalid =>
        /\ ValidEnvelope(Load(stored))
        /\ Encode(Load(stored)) = stored.items

-----------------------------------------------------------------------------
(***************************************************************************)
(* The invariant behind these properties.                                  *)
(***************************************************************************)

StoredFile == [sealed : BOOLEAN, items : Seq(Items), ciphertextLen : Nat]

FormatTypeOK ==
    /\ envelope \in Envelopes \cup {Invalid}
    /\ stored \in StoredFile \cup {NoFile}
    /\ turnedDown \in BOOLEAN /\ damages \in 0 .. MaxDamage

\* A recipient's credential and salt are its own.
Linked(r) ==
    \A field \in {"credential", "salt"} :
        Value(r, field) # NoValue => Value(r, field).x = RecipientId(r)

EnvelopeOK ==
    envelope # Invalid =>
        /\ envelope.recipients # <<>>
        /\ \A i \in DOMAIN envelope.recipients : Linked(envelope.recipients[i])

StoredOK ==
    stored # NoFile =>
        /\ envelope # Invalid
        /\ stored.sealed =>
                /\ ToolEnvelope(envelope)
                /\ \E n \in Secrets \cap (1 .. MaxSecretBytes) :
                        stored = Sealed(Encode(envelope), n)
        /\ ~stored.sealed /\ damages = 0 => stored = Bare(Encode(envelope))

FormatInv == FormatTypeOK /\ EnvelopeOK /\ StoredOK /\ ~turnedDown
=============================================================================
