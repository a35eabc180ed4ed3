# Formal verification of fido_key_wrap

fido_key_wrap wraps one 32-byte *root key* once per *recovery route*
(recipient): a passphrase, a security key, both, a generated recovery secret,
or a security key with a local secret.  The wrapped copies and their metadata
form a *key envelope*, authenticated by a MAC under the root.  The caller
stores the envelope; the library keeps no state of its own.  What it can get
wrong is therefore spread over other people's state: the credentials on an
authenticator, the items in a secret store, the files of the tool, and the
copies of an envelope its caller may load back.

The modules here model that state and every step the code takes on it, TLC
checks them on small instances, and TLAPS proves the most important results for
all of them.

## Components

| Component | Code (`src/crates/`) | State | Operations | Modelled in |
|---|---|---|---|---|
| `KeyProtector` facade | `fido-key-wrap/src/protector.rs` | the envelope the caller lends it | create, protect, add, remove, rewrap, unlock and their dedicated forms; verify and retire a managed recipient | `KeyProtector`, `ManagedCredential` |
| Envelope | `fido-key-wrap/src/envelope.rs` | record set, ids, MAC | decode, encode, canonical body | `KeyProtector` (its records and MAC), `EnvelopeCodec`, `WireFormats` (its encoding) |
| Cryptographic binding | `crypto.rs`, `transcript.rs` | none | contexts, wrap, unwrap, MAC | `KeyProtector` (symbolic) |
| Backend | `backend.rs` | none | session with one authenticator, error mapping, rollback of a managed enrollment | `ManagedCredential`, `Ceremony`, `TouchSelection` |
| libfido2 wrapper | `fido-key-wrap-libfido2/src/native.rs` | an open device | enroll, evaluate, inventory, delete, touch selection | `ManagedCredential`, `Ceremony`, `TouchSelection` |
| Linux secret store | `fido-key-wrap-platform/src/linux.rs` | items in a Secret Service collection | create, load, remove | `SecretStore` |
| macOS secret stores | `macos.rs`, `macos_user_presence.rs` | keychain items | create, load, remove | `Keychain`, `PresenceKeychain` |
| In-memory stores | `testing.rs` (platform) | a map under a lock | create, load, remove | `FactorStore`, as abstract specification |
| fkw-tool files | `fkw-tool/src/storage.rs`, `app.rs` | a directory | seal, unseal, inspect | `ToolStorage` |
| Limits | `policy.rs` | none | work admission, ids, names | `KeyProtector`, `EnvelopeCodec` |
| fkw-tool container | `fkw-tool/src/container.rs` | none | encode, decode | `SecretFile`, `WireFormats` (its limits) |
| fkw-tool command line | `main.rs`, `cli.rs`, `interaction.rs` | none | terminal dialogue | no |
| Python binding | `fido-key-wrap-python/src/` | the busy flag, a pending exception, a bytearray being cleared | every facade operation on a clone | `PythonBinding`, `SecretBuffer` |
| Diagnostics | `diagnostic.rs` | none | inspect_authenticators | `TouchSelection` (`Reported`) |
| FFI, value types, prompts, test doubles, demonstrations | the rest | none | | no |

How they interact: an application calls the facade; the facade calls the
backend for anything an authenticator does and the application's `Interaction`
callbacks for a passphrase, a PIN or a touch; the backend opens a libfido2
session per operation.  The secret stores and the tool are clients beside it:
the application stores an envelope and, for the dedicated routes, hands the
generated secret to a secret store.  Nothing is shared between processes but
the authenticator, the secret-store collection and the file system.

Hard behaviours: replies of the authenticator or of the Secret Service that are
lost after they took effect; cleanups that fail in turn; two processes on one
authenticator, collection or directory; a crash or power loss between two
steps; answers that come late, twice or from another credential; and old, mixed
or damaged copies of an envelope coming back.
`PROJECT.json` lists each with its line and the properties that cover it.

## Modules

### ManagedCredential

One operation of a `KeyProtector` on a discoverable credential, followed through
facade, backend and wrapper.  Each call that reaches the authenticator is one
action; the local computation between two calls belongs to the earlier one.

| Variable | Code |
|---|---|
| `store` | the discoverable credentials of each authenticator: user id, credential id, credProtect level |
| `records` | managed recipient records in any envelope an operation returned |
| `pc`, `kind`, `request`, `dev` | the call about to be made, the operation, its record, the open authenticator |
| `delete`, `failure`, `result` | the status of the delete call, the error a cleanup will return, what the operation returned |

The rest are history variables no guard of the code reads.  `BeginEnroll` and
`BeginManaged` are the facade's entry points; `OpenSession` is `select_managed`
with the PIN prompt; `MakeCredential` is `fido_dev_make_cred` with everything
`Authenticator::enroll` and `NativeBackend::enroll_managed` conclude from it;
`Assertion` the PRF evaluation of an enrollment and the signed proof of the two
managed operations; `Inventory` is `confirm_managed_inventory`; `Stage`
publishes; `PrepareCleanup`, `DeleteManaged` and `ConfirmAbsence` are the
cleanup and the retirement.  A call is answered, refused (nothing changed) or
lost (it may have acted).  `Crash` may strike between any two calls.
`ForeignTool` is another credential-management tool.  The failures that say
nothing about the credential are one value, `"Failed"`.

Checked: `NoSilentOrphan`, `CrashIsContained`, `PublishedIsBacked`,
`RetiredIsAbsent`, `RetireErrorIsDefinite`, `NoFalseAlarm`.

A process that dies between the creation of a credential and the return of its
envelope leaves a credential nobody is told of: the code keeps no journal, and
`NoSilentOrphan` exempts it.  What the code does ensure is `CrashIsContained`:
wherever the process dies, also in the middle of a cleanup, there is at most one
such credential, and no envelope, then or later, has a record of it, because the
record is published last and never on a path that may still take the credential
back.

### KeyProtector

The envelope through its life.  `held` is the envelope the caller holds, `issued`
every envelope an operation ever returned; `pc`, `op`, `result` are the running
operation.  One operation runs at a time: the envelope is borrowed
(`&mut KeyEnvelope`) as long as an operation works on it.  Between operations
the caller's storage may return any issued copy, one with records of two copies
mixed or missing, or one with another recorded work (`Load`), provided
`KeyEnvelope::decode` accepts it.

Cryptography is symbolic: a wrapped root is a record of the context and the word
it was sealed with, and opens under the same ones; a MAC is a record of the
root and the body.  The context holds what the transcripts of `crypto.rs` hold
for all routes; the labels, which some of them hold and some do not, and the
FIDO policy, which travels with its credential, are left out.  One `nonce` field
stands for the nonces and generated secrets of a record, which are drawn
together.  A random value is one not drawn before, except where the code
compares it with earlier ones: there it may repeat and the comparison rejects
it.  A managed route is a `"fido"` route from the envelope's point of view.

`Enroll` draws a record's random fields and makes its credential, for all five
kinds of route; `DrawReplacement` does so for a rewrap; `Evaluate` and
`AskPassphrase` are the two calls that may fail; `Stage` seals the record into a
copy, reopens the copy and returns it; `Recover` is the last step of an unlock.

Checked: `RoutesOpen`, `UnlockIsAuthentic`, `PromptIsEarned`, `NoSealReuse`,
`SaltsAreUnique` (together `NoReuse`), and the action properties
`ChangesAreAuthenticated` and `ChangesOneRoute`.

### Ceremony

`ManagedCredential` follows the credentials an operation may leave behind and
takes answers as right or wrong; `Ceremony` follows what is in an answer: the
credential id it names, the key that signed it, the challenge and the flags
under the signature, the PRF secret and the number of statements.

| Variable | Code |
|---|---|
| `authenticator` | PIN, retry counter, always-verify setting and credentials of each device |
| `pc`, `op`, `record`, `failure`, `result` | the next native call, the operation, the recipient record it works on, the error a cleanup will return, what was returned |
| `dev`, `pin`, `challenges`, `late` | the open handle, the PIN held for its calls, the client-data hashes drawn, an answer left unread in its channel |
| `records` | the recipient records of any envelope returned so far |

`Enroll` and `Use` enter an operation, `Open` selects a device, `Ask` takes the
PIN; `MakeCredential`, `Assertion`, `Inventory`, `Delete` and `Absence` are one
native call each.  `NativeBackend::enroll` evaluates a new credential in a second
session, `enroll_managed` in the same one.  An authenticator may answer for
another of its credentials, name one and sign with another, leave out user
verification or do it unasked, leave out the secret, add a statement, or create
a credential that is not as ordered; what it signs is bound to the request it
read, and a secret to key and verification, because the device computes both.  An
answer that times out stays in the channel, and a later call of the handle reads
it.  `ForeignChange` changes a PIN or the always-verify setting between any two
calls.  Discovery is left to `TouchSelection`, crashes and other tools' deletions
to `ManagedCredential`.

Checked: `AcceptedIsExact` (each accepted answer is the right one to the request
it concludes), `RecordIsDeviceBound`, `UndisturbedSucceeds`, `PinIsSpared`.

### EnvelopeCodec, WireFormats

`EnvelopeCodec` is format 1 of an envelope.  An encoding is a sequence of CBOR
items, each reduced to its major type, its length or value, a number for its
content, and whether its head is the shortest; the size in bytes is computed
from them.  `Encode`, `Decode` and `Canonicalize` are the functions of
`envelope.rs`: a decoder that reads item after item with its limits, and
re-encodes what it read to compare it with what it was given.

`WireFormats` takes envelopes from writing to reading.  `Create` and
`AddRecipient` stage a record and keep the canonical decoding of the result, as
the facade does; `Store` keeps the encoding; `Seal` puts it into the container of
fkw-tool with a secret, under the limits of `container.rs`; `Damage` changes,
drops, doubles or exchanges items of a stored envelope, cuts it or appends to it.
A container counts for its size here.

Checked: whatever was written can be read again, and an enrollment or sealing
within the limits is never turned down for its encoding (`WrittenIsReadable`);
and what decodes is the one encoding of a valid envelope (`AcceptedIsValid`).

### SecretFile

The container of fkw-tool byte by byte: a header, an envelope behind its length, a
nonce, a ciphertext behind its length.  `Container` is `SecretFile::encode`;
`TakesFields`, `Decodes` and `Taken` are `SecretFile::decode`.  Like the code they
compare a length with nothing but its limits: they take as many bytes as it says
(`Slice` is `ByteCursor::take`), read the following field from wherever that leads,
and ask at last whether any byte is left.  `SealSecret` writes a container;
`MoveAway` frees its path, so that a second secret may be sealed; `Overwrite` puts
any bytes whatever in its place, which covers changed lengths, cuts, additions and
parts of two containers alike.

The bytes of an envelope are opaque: whether they are a valid envelope is
`WireFormats`' subject.  A root is that of the one envelope it was created with,
and the cipher is ideal: `Opens` compares key, associated data, nonce and
ciphertext with what was encrypted.

Checked: a file unseals to a secret exactly if it is, byte for byte, what `seal`
wrote for it (`DamageIsSeen`).

### SecretStore

`create`, `load` and `remove` of the Linux store, one D-Bus call per action.  The
service never replaces an item, so mutual exclusion of two creators is made of
searches before and after `create_item`, with a rollback of the creator's own
item.  `add` may be lost after it took effect (then `reconcile`), a delete may
fail after or before it took effect, a read may fail, and `Crash` may strike
anywhere.  Failures of a native call are one value, `"Failed"`.

Checked: an accepted secret stays and is never joined by a second one
(`AcceptedIsKept`), and is what a load returns (`LoadReturnsAccepted`);
duplicates are reported (`DuplicatesAreReported`); errors and successes of
create and remove mean what they say (`AnswersAreDefinite`).

Two limits the model made visible, which the properties name: a create that
found an equal item and accepted it loses it if the item's creator fails later
and rolls back (`undone`); and a lost `create_item` beside another item is
reported as `Ambiguous`, so `Ambiguous`, like `StateUncertain`, does not mean
that nothing was stored.

### ToolStorage

`seal` as system calls: check, exclusive temporary file, write, sync, hard link,
unlink, directory sync; `unseal` and `inspect` as open and read.  `names` is the
directory, `disk` the directory as last written back, entry by entry
(`WriteBack`); `PowerLoss` falls back to any mixture of the two and damages any
file that was not synced.  Users may remove sealed files.  File modes, link
checks and size limits are left out.

Checked: `DestinationIsWhole`, `SavedIsDurable`, and that what a seal answers is
true and it cleans up after itself (`AnswersAreDefinite`: `UnsyncedIsSaved`,
`ErrorSavesNothing`, `NoStrayTemporary`).

### FactorStore, Keychain, PresenceKeychain

`FactorStore` is what the traits `LocalSecretStore` and `RecoverySecretStore`
promise about one recipient's entry: a running call may put its secret where
nothing is, or take the entry away if it may, and what it answers is true of the
entry when it answers.  Only `StateUncertain` promises nothing.

`Keychain` is the local-secret store of macOS, `PresenceKeychain` the recovery
store that asks for the user's presence, one keychain call per action.  Every
query of both names service and account, so the entry of one recipient is the
whole state.  The keychain refuses a second item, which is why neither store
can meet the duplicates of the Linux one.  An addition may be lost or store a
damaged value, a read may fail, a deletion of `Keychain` has no status, and one
of `PresenceKeychain` selects the label of the secret it names.
`PresenceKeychain` may begin beside a damaged item somebody else made.  Processes
interleave anywhere and may die.  `StoreError::Ambiguous`, which a keychain
with one item per entry cannot cause, is left out.

Checked: both implement `FactorStore` (`KeepsPromise`, with the entry, the
running call and its answer as refinement mapping); for `Keychain` also that a
repeated create of the stored secret succeeds (`RetrySucceeds`), for
`PresenceKeychain` that operations nothing disturbs do (`UndisturbedSucceeds`) and
that what a create accepted stays until a deletion takes it (`AcceptedIsStored`,
for `Keychain` a theorem only).

### TouchSelection

Choosing one authenticator: `Discover` opens every device and keeps the ones
whose capabilities fit the request, `Prompt` tells the user to choose, `Ask`
asks the devices in turn for a touch, `StartPoll`, `Tick` and `EndPoll` poll
them, and `SelectTouched` cancels the other requests and restores the timeout
of the operation, which `Operate` begins.  Time is an integer and passes only
in native calls: a call to ask takes at most the timeout of its handle, a poll
that sees no touch all of its own.  A device is the set of features it reports;
`Supports`, `Accepts` and `Reported` are the three places that judge it.

Checked: a selection ends (`SelectionEnds`), by its deadline and the smallest
timeout a call takes (`SelectionIsBounded`); a touch is answered within a poll
of each other device (`TouchIsNoticed`); the selected device is the right one
and ready, and no other one is left blinking (`SelectionIsClean`); a device that
was selected is not refused and can later unlock and retire
(`ChosenIsUsable`), and the report is empty for exactly the devices that serve
every request (`ReportIsComplete`).

One path leaves requests behind, and `NoRequestIsLeft` names it: when the
deadline passes while the devices are still being asked, `selection_milliseconds`
returns without `cancel_all`.  Closing the handles is left to their drop.

### PythonBinding

The calls of the Python class: `busy[k]` is the flag of a protector, `stack[t]`
the calls a thread is in, since a callback may call any protector again.
`Enter` is `BusyGuard::enter`, `Ask`, `Answer` and `Raise` are a callback and
its outcome, `Progress` an event of the core without the user, `Return` the end
of a call.  The operation in between is only what it makes of an error: it
returns it, or cleans up first, and an error of the cleanup becomes
`CredentialMayRemain`.  The interpreter lock is not modelled: threads interleave
anywhere, which only adds behaviours.

Checked: a protector is busy exactly while one call runs on it
(`BusyMeansRunning`), and the caller gets the exception that stopped its
operation, unless a failed cleanup says more (`RaisedIsCause`).

### SecretBuffer

`take_exact_bytearray` and `wipe_bytearray`: the checks, the copy, and the
chunks of zeroes assigned to slices.  `AssignZeroes` has Python's semantics, by
which a slice that is shorter than what is assigned to it grows the bytearray.

Checked and proved: `SecretsAreCleared`.

## Runs and bounds

| Run | Instance | Shows |
|---|---|---|
| `managed` | 2 processes, 2 authenticators with one slot each, 2 user ids, 2 credential ids, symmetric | all safety properties of `ManagedCredential` |
| `envelope` | all five kinds of route, 1 application, 2 envelope ids, 2 recipient ids, 2 roots, 2 credentials, 2 salts, 3 nonces, 2 words, 2 work levels, 2 routes, 3 issued envelopes; about 500,000 states | all properties of `KeyProtector` |
| `ceremony` | 2 authenticators, 2 credential ids, 2 PINs, 2 retries, 3 faults; about 1.7 million states | all properties of `Ceremony` |
| `formats` | a record of every suite and size between two others, an envelope of 31 routes to fill, secrets at the limits, 1 change; about 43,000 states | all properties of `WireFormats` |
| `secret_file` | bytes of 1 bit, header and nonce of 1 byte, envelopes and secrets of 1 and 2 bytes, every file of up to 16 bytes; about 3.1 million states | `DamageIsSeen` |
| `secret_store` | 2 processes, 1 recipient, 2 secrets, 2 object paths | all properties of `SecretStore` |
| `tool_storage` | 2 tools, 1 destination, 2 temporary names, 2 files | all properties of `ToolStorage` |
| `keychain` | 3 processes, 2 secrets | `Keychain` implements `FactorStore`, and a retry succeeds |
| `presence_keychain` | 2 processes, 2 secrets, empty or foreign item | the same for `PresenceKeychain`, with its own properties |
| `touch_selection` | up to 3 devices of 2 kinds, and 1 device with each of the 512 feature sets for each request; deadline 7, polls of 3 | timing, cleanliness and the agreement of the capability checks |
| `python_binding` | 2 threads, 2 protectors, calls nested twice, 3 exceptions | all properties of `PythonBinding` |
| `secret_buffer` | lengths 0 to 14, limit 9, chunks of 4 | `SecretsAreCleared` |

Two processes are what every race here needs: one that acts between two calls
of the other; more of them repeat the same pairs of steps.  Two authenticators
are needed to retire with the wrong one.  A full slot (`Capacity`) makes a
creation fail.  Three issued envelopes (`MaxIssued`) are an original, a change
and a change of the change, with all three available to mixing; two routes
(`MaxRecipients`, 32 in the code) reach both limits of the record set.  One
recipient is enough for `SecretStore`, whose calls never touch another one's
items; two paths give a duplicate.  The finite sets of ids, paths and files
bound how many can be created in one behaviour; they are never reused, as the
256-bit ids of the code and the paths of the service are not.

In `ceremony` the second device is the wrong one to choose, the second credential
the one that signs for another, the second PIN the wrong one; two retries let one
wrong PIN leave an attempt and the next one block, which a single operation never
sends, and three faults suffice to disturb a creation, its evaluation and its
cleanup.  In `formats` the two neighbours have ids on either side, so that a record
is inserted at the front, in the middle and at the end; 31 recipients filled before
reach the limit of 32; the sizes are the smallest and the largest of each field.
The one change is every change `Damage` knows, at every item of every stored
envelope; combinations of changes are not tried.

In `secret_file` a file of 16 bytes is one longer than the longest container that
decodes.  A length of four one-bit bytes reaches 15, so it can be too
small, too large for its limit and too large for the file.  The two envelopes differ in
length, and so do the two secrets, so that a changed length can make one container
look like the other.

Three processes in `keychain` let a third one act between a creation and its
repetition.  Three devices are needed to tell the polls of the others from the
poll of the touched one, and the deadline of `touch_selection` is not a multiple
of the poll interval, so that the last poll is cut short.  Nesting twice is a
callback that calls a protector, which is as deep as its own protector's flag
can matter; a third exception tells the first from the later ones.  The lengths
of `secret_buffer` lie on both sides of the limit and of three chunks.

`CHECK_DEADLOCK FALSE` is set where the system really stops: `managed`
and `ceremony`, when the ids are used up and no record is left; `formats` and
`secret_file`, after the last change; `touch_selection` and `secret_buffer`, which
model one call.

Each module states a type invariant.  It is part of the inductive invariant
proved below, so no run repeats it.

## Fairness

`SelectionEnds` needs weak fairness of the calling thread and of the clock it
waits for (`Advance`): a poll returns when its time is over.  That includes the
answer to the prompt, which is the application's.  Nothing is assumed of the
touch.

## Proofs

Eight modules hold theorems; each is for any values of the constants that satisfy
the module's assumptions.  In every one an inductive invariant, checked by TLC
before it was proved, is preserved action by action; a second one that rests on it
carries the properties that look further back.  Every state property and every
action property of every run is a theorem.

**`ManagedCredentialProofs`**: `TypeCorrect`, `InductiveInvariant`,
`RetirementIsFinal` (`[]RetiredIsAbsent`), `OrphansAreReported`
(`[]NoSilentOrphan`).  The invariant adds to the two properties what each step
relies on (`StepOK`), that credential ids never repeat (`IdsAreFresh`), that a
retirement past its signed assertion knows no other authenticator holds the
credential (`AssertionLocates`), and that a running enrollment is the only source
of credentials for its user id (`EnrollmentOwns`).  Without the third, an
enumeration of one authenticator says nothing of the others; without the fourth,
a credential could be left behind by an enrollment nobody accounts for.
`OutcomesAreSound` then gives `RecordsAreBacked` (`[]PublishedIsBacked`),
`RetireErrorsAreDefinite` (`[]RetireErrorIsDefinite`) and `AlarmsAreTrue`
(`[]NoFalseAlarm`).  Its invariant `OutcomeInv` says that no two records,
enrollments or requests share a credential id (`IdsAreOwned`), that a cleanup
nothing has disturbed finds exactly the credential it is to delete
(`EnrollmentKnows`), and that only the delete call of a retirement deletes, and
deletes all (`RetirementKnows`).  `CrashesAreContained` (`[]CrashIsContained`) rests
on both: by `ContainedInv` a user id is on one credential, because an enrollment
creates once and for an id that is new, and one that died has no record, because
nobody but its enrollment could have published it.

**`KeyProtectorProofs`**: `InductiveInvariant`, `TypeCorrect`, `EveryRouteOpens`
(`[]RoutesOpen`), `UnlockAuthenticates` (`[]UnlockIsAuthentic`),
`OnlyIssuedCopiesChange` (`ChangesAreAuthenticated`).  The MAC fixes the body, and
every MAC in circulation was computed by an operation (`MacsAreIssued`), so a copy
that authenticates is an issued one; its routes open, and one more is sealed under
the same ids and root (`OpOK`).  `DrawsAreSound` then follows the record under
construction (`DrawInv`, `Prepared`): its work was admitted, its route is new or the
one it replaces, nobody has spent its draws, and the key was asked before the
passphrase.  It gives `NothingIsReused` (`[]NoReuse`), `PromptsAreEarned`
(`[]PromptIsEarned`) and `OneRouteChanges` (`ChangesOneRoute`).

**`CeremonyProofs`**: `InductiveInvariant`, `TypeCorrect`, `AnswersAreExact`
(`[]AcceptedIsExact`), `RecordsAreBound` (`[]RecordIsDeviceBound`), `PinsAreSpared`
(`[]PinIsSpared`).  What makes late answers harmless is that the answer in the
channel is sound (`LateIsSound`): it carries the challenge of the request it
answers, so the comparison with a later challenge refuses it.  `RecordsOK` binds a
record from the moment its credential was verified until a cleanup takes it back.
`UndisturbedOperations` (`[]UndisturbedSucceeds`) rests on `QuietOK`: an operation
that nothing disturbed holds the right PIN of a device that takes its policy and has
its credential at every call but the last enumeration of a retirement
(`Equipped`), so the honest answer passes every check.

The same module proves what `TouchSelection` promises, for any number of devices,
any feature sets and any times: `SelectionInductive`, `BoundedSelection`
(`[]SelectionIsBounded`), `TouchesNoticed` (`[]TouchIsNoticed`), `CleanSelection`
(`[]SelectionIsClean`), `ChosenUsable` (`[]ChosenIsUsable`) and `ReportComplete`
(`[]ReportIsComplete`).  The invariant follows the round of polls: the devices are
polled in one order (`DevicesOK`), every stage has its deadline and its requests
(`StageOK`), and a touch has waited no longer than the polls of the devices whose
turn came since (`WaitOK`, `Turns`), which bounds the wait at the next poll of its
device.  The last two are about the three places that judge a device's features.

**`SecretStoreProofs`**: `InductiveInvariant`, `AcceptedStays` (`[]AcceptedIsKept`),
`LoadsAgree` (`[]LoadReturnsAccepted`), `DuplicatesReported`
(`[]DuplicatesAreReported`), `AnswersHold` (`[]AnswersAreDefinite`), for any number
of processes, recipients and items.  Nothing excludes two creators, so the invariant
relates them: of two items of a recipient one belongs to a create that has yet to
search for them, unless one left them unsettled (`PairsOK`); two processes that compare
an item of one recipient read the same one, with the accepted secret (`ComparedOK`);
and what an operation holds is its own recipient's (`OwnOK`, `StepOK`).

**`ToolStorageProofs`**: `InductiveInvariant`, `PublishedWhole`
(`[]DestinationIsWhole`), `SavedStays` (`[]SavedIsDurable`): a destination entry,
current or written back, leads only to a synced file.  `AnswersHold`
(`[]AnswersAreDefinite`): a seal's file is its own (`FilesAreOwn`), under its
temporary name only until it is published (`Unpublished`), and that name is its
own until it tried to remove it (`TemporariesAreOwned`).

The same module proves what `WireFormats` promises, for any recipients, any order
of enrollment, any permitted secret and any number of changes: `FormatsInductive`,
`WrittenReadable` (`[]WrittenIsReadable`), `AcceptedValid` (`[]AcceptedIsValid`).
The invariant `FormatInv` says that the held envelope is valid, that each
recipient's credential and salt are its own (`Linked`), that an unchanged file is
the encoding of the held envelope (`StoredOK`), and that no enrollment or sealing
was turned down.  The lemmas
under it are about the codec alone:

- `DecodeTyped`: whatever the items are, `Decode` returns a valid envelope whose
  encoding they are, or nothing.
- `EncodeLayout` and `RecordsFound`: where each record of an encoding begins, and
  that the loop of `Decode` finds it there.  With the size bound they give
  `DecodeEncoded`, the round trip for every valid envelope that is not too long.
- `StagedValid`: a record inserted by its id keeps the set sorted and free of
  repetitions.
- `SizeIsSum` and `EncodeFits`: a record takes at most 2005 bytes, whatever its
  suite and its values, so 32 of them with the header stay below the 65536 of
  `MAX_ENVELOPE_SIZE`, and `ContainerRead` adds the limits of the container.

It also proves `DamageSeen` (`[]DamageIsSeen`) of `SecretFile`, for bytes of any
base, any limits a length field can hold, and files of any length:
`DecodesOnlyEncoded` shows that a file which decodes is the container of what was
taken from it.  The slices that `decode` takes meet (`SlicesJoin`), begin at the
front and end where the file ends, which is where the question for trailing bytes
is needed; and four bytes are the encoding of the number they are read as
(`FieldOfNumber`), so a changed length that is followed consistently gives other
fields, never the same ones.  `EncodedDecodes` is the other direction, which makes
the equivalence.  The cipher then compares the fields taken with those sealed, and
`SealsInductive` says that an envelope has one seal.

`UpTo` is the induction the codec lemmas need, over the number of records or items: a
set of numbers that has 0 and the successor of each member has them all, which
follows from the well-foundedness of their order.

**`KeychainProofs`**: `InductiveInvariant`, `AcceptedStays`
(`[]AcceptedIsStored`), `RetriesSucceed` (`[]RetrySucceeds`) and
`StoreKeepsPromise`, the refinement of `FactorStore`: the initial entry is allowed,
and every keychain call is a put, a take, an answer or a stutter.  The invariant
(`StepOK`) says which operation each step belongs to and what a running create may
have put, without which an answer could be mapped to a call that does not allow it.

**`PresenceKeychainProofs`**: `InductiveInvariant`, `AcceptedStays`,
`UndisturbedOperations` (`[]UndisturbedSucceeds`), `StoreKeepsPromise`.  A secret is
stored under its own label (`ItemOK`), the reads that verify an addition follow an
addition of one's own (`StepOK`), and a steady operation finds the item it needs at
every call (`SteadyOK`).

**`PythonBindingProofs`**: `InductiveInvariant`, `TypeCorrect`, `OneCallAtATime`
(`[]BusyMeansRunning`), `CauseIsRaised` (`[]RaisedIsCause`), for any number of
threads and protectors and any depth of nesting.  A pending exception and the error
of its call are set together (`FrameOK`).

The same module proves what `SecretBuffer` promises, for any length, limit and
chunk length: `SecretsCleared` (`[]SecretsAreCleared`).  What the loop has passed is
zero and the size is the one it began with (`Progress`); `AssignClears` says what
one assignment does.

The assumptions are those the modules name: `None` and the name sets are
distinct, `Invalid` is no envelope, bounds are numbers, enrolled recipients have
ids, an envelope filled before has at most 32 recipients, and the limits of a
container fit a length field of four bytes.

Model-checked only: liveness (`SelectionEnds`), since liveness and `ENABLED` are
out of the prover's reach.

## Not modelled

The primitives, and the bytes of the transcripts, since the properties tell
values apart and every decision is on values; how attestations and assertions are
parsed, only what is checked of them; the FFI declarations and their loading;
terminal dialogue, the argument parser and the Python value classes; the wording of
errors and prompts; test doubles and demonstrations.

## Plan

Done: `ManagedCredential`, `KeyProtector`, `SecretStore`, `ToolStorage`,
`FactorStore`, `Keychain`, `PresenceKeychain`, `TouchSelection`, `PythonBinding`,
`SecretBuffer`, `Ceremony`, `EnvelopeCodec`, `WireFormats` and `SecretFile`, with the proofs named
above.  Left:

1. `ManagedCredential`: an abstract ledger of managed recipients (published,
   retired, in doubt) with a refinement mapping.
2. `KeyProtector`: an abstract specification (one root per envelope id, a set of
   routes, changes one route at a time) refined by it.
3. `Pairing`: a local-secret route and its secret-store entry published
   together, with a crash between the two.
