----------------------------- MODULE SecretBuffer -----------------------------
(***************************************************************************)
(* How the Python binding takes a secret out of a bytearray                *)
(* (take_exact_bytearray, take_secret_bytes and wipe_bytearray of          *)
(* fido-key-wrap-python/src/types.rs).                                     *)
(*                                                                         *)
(* The bytearray is cleared in chunks by assigning slices of zeroes.  A    *)
(* slice assignment of Python resizes the bytearray when the lengths of    *)
(* the slice and of the value differ, and moves what follows.              *)
(***************************************************************************)
EXTENDS Integers

CONSTANTS
    MaxSize,    \* bound: the size of the bytearray passed in
    Maximum,    \* the greatest length a secret may have
    Chunk       \* bytes cleared at once

ASSUME SizeAssumption == MaxSize \in Nat /\ Maximum \in Nat /\ Chunk \in Nat \ {0}

VARIABLES
    kind,       \* "key": 32 bytes exactly; "text": a PIN or passphrase
    exact,      \* the value is a bytearray, and of no subclass
    given,      \* the size of the value passed in
    size,       \* the size of the bytearray
    byte,       \* byte[i]: "secret" or "zero", for i in 0..size-1
    pc,         \* "take", "wipe", "accept" or "done"
    start,      \* the bytes before start have been assigned
    taken,      \* how many bytes were copied
    result

bufferVars == <<kind, exact, given, size, byte, pc, start, taken, result>>

BufferInit ==
    /\ kind \in {"key", "text"}
    /\ exact \in BOOLEAN
    /\ given \in 0..MaxSize
    /\ size = given
    /\ byte = [i \in 0..(given - 1) |-> "secret"]
    /\ pc = "take"
    /\ start = 0
    /\ taken = 0
    /\ result = "none"

-----------------------------------------------------------------------------

\* Mutated form: a value that is too long is returned as it came.
TakeChecked ==
    /\ pc = "take"
    /\ \/ /\ ~exact \/ size > Maximum
          /\ pc' = "done" /\ result' = "TypeError"
          /\ UNCHANGED taken
       \/ /\ exact /\ size <= Maximum
          /\ pc' = "wipe"
          /\ taken' = size
          /\ UNCHANGED result
    /\ UNCHANGED <<kind, exact, given, size, byte, start>>

\* The type and length checks, and the copy.
Take ==
    /\ pc = "take"
    /\ \/ /\ ~exact
          /\ pc' = "done" /\ result' = "TypeError"
          /\ UNCHANGED taken
       \/ /\ exact /\ size > Maximum
          /\ pc' = "wipe" /\ result' = "TooLong"
          /\ UNCHANGED taken
       \/ /\ exact /\ size <= Maximum
          /\ pc' = "wipe"
          /\ taken' = size
          /\ UNCHANGED result
    /\ UNCHANGED <<kind, exact, given, size, byte, start>>

\* bytearray[from:to] = count zeroes; a slice ends with the bytearray.
AssignZeroes(from, to, count) ==
    LET end == IF to < size THEN to ELSE size
        newSize == size - (end - from) + count
    IN /\ size' = newSize
       /\ byte' = [i \in 0..(newSize - 1) |->
                    IF i < from THEN byte[i]
                    ELSE IF i < from + count THEN "zero"
                    ELSE byte[i - count + (end - from)]]

ChunkLength == IF given < Chunk THEN given ELSE Chunk

\* One round of the loop over the full chunks.
FullChunk ==
    /\ pc = "wipe"
    /\ given > 0
    /\ given - start >= ChunkLength
    /\ AssignZeroes(start, start + ChunkLength, ChunkLength)
    /\ start' = start + ChunkLength
    /\ UNCHANGED <<kind, exact, given, pc, taken, result>>

\* The bytes that are left over.
Remainder ==
    /\ pc = "wipe"
    /\ given = 0 \/ given - start < ChunkLength
    /\ \/ start < given /\ AssignZeroes(start, given, given - start)
       \/ start >= given /\ UNCHANGED <<size, byte>>
    /\ pc' = "accept"
    /\ UNCHANGED <<kind, exact, given, start, taken, result>>

\* The checks of the copy: take_secret_bytes, or Pin::new and Passphrase::new.
Accept ==
    /\ pc = "accept"
    /\ pc' = "done"
    /\ \/ result = "TooLong" /\ UNCHANGED result
       \/ /\ result # "TooLong"
          /\ result' = IF (kind = "key" /\ taken # Maximum) \/ taken = 0
                       THEN "Invalid" ELSE "Ok"
    /\ UNCHANGED <<kind, exact, given, size, byte, start, taken>>

BufferNext == Take \/ FullChunk \/ Remainder \/ Accept

BufferSpec == BufferInit /\ [][BufferNext]_bufferVars

-----------------------------------------------------------------------------
(***************************************************************************)
(* Properties.                                                             *)
(***************************************************************************)

BufferTypeOK ==
    /\ kind \in {"key", "text"} /\ exact \in BOOLEAN
    /\ given \in Nat /\ size \in Nat
    /\ byte \in [0..(size - 1) -> {"secret", "zero"}]
    /\ pc \in {"take", "wipe", "accept", "done"}
    /\ start \in 0..given /\ taken \in Nat
    /\ result \in {"none", "TypeError", "TooLong", "Invalid", "Ok"}

\* While the loop runs, what was assigned is zero and the size is the one the
\* loop began with.
ClearedSoFar ==
    /\ size = given
    /\ pc \in {"take", "wipe"} => \A i \in 0..(start - 1) : byte[i] = "zero"
    /\ pc = "take" => start = 0 /\ result = "none"
    /\ pc \in {"wipe", "accept"} => exact
    /\ pc = "accept" \/ (pc = "done" /\ exact) => \A i \in 0..(given - 1) : byte[i] = "zero"
    /\ pc = "done" => exact \/ result = "TypeError"

\* Every bytearray that was passed as a secret is cleared over its whole length
\* when the call ends, also if its contents are refused, and keeps its size.
SecretsAreCleared ==
    pc = "done" /\ exact => size = given /\ \A i \in 0..(given - 1) : byte[i] = "zero"

BufferInv == BufferTypeOK /\ ClearedSoFar
=============================================================================
