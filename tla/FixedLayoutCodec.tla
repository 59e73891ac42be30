--------------------------- MODULE FixedLayoutCodec ---------------------------
(***************************************************************************)
(* The fixed byte layouts of transfer_with_fee.rs: FeeParameters::to_bytes *)
(* and from_bytes (a little-endian u16 rate followed by a little-endian    *)
(* u64 maximum fee, 10 bytes) and TransferWithFeePubkeys::to_bytes and    *)
(* from_bytes (four 32-byte keys in declaration order, 128 bytes).        *)
(*                                                                         *)
(* Byte counts are the code's, except that a key takes KEY_BYTES bytes;   *)
(* a byte has BYTE_BITS bits.  An ElGamal public key is represented by its *)
(* compressed encoding read as a little-endian number; ValidPoints are the *)
(* encodings ElGamalPubkey::from_bytes decompresses (not under src/).     *)
(* array_ref! panics on a slice shorter than the array it takes and       *)
(* ignores what follows it.                                                *)
(***************************************************************************)
EXTENDS Integers, Sequences, Functions

CONSTANTS
    BYTE_BITS,      \* bits of a byte (8 in the code)
    KEY_BYTES,      \* bytes of a compressed ElGamal public key (32)
    ValidPoints,    \* encodings that decompress to a point
    ExtraBytes,     \* how much shorter or longer than expected a decoded slice may be
    None,
    Panic,          \* the panic of array_ref! on a short slice
    Verification    \* Err(ProofError::Verification)

Byte == 0 .. 2^BYTE_BITS - 1

U16_BYTES == 2
U64_BYTES == 8
FEE_PARAMETERS_BYTES == U16_BYTES + U64_BYTES      \* [u8; 10]
PUBKEYS_BYTES == 4 * KEY_BYTES                     \* [u8; 128]

\* Mutation: to_le_bytes without masking each byte.
ToLE_unmasked(x, n) == [i \in 1 .. n |-> x \div 2^(BYTE_BITS * (i - 1))]

\* uN::to_le_bytes: the n bytes of x, least significant first.
ToLE(x, n) == [i \in 1 .. n |-> (x \div 2^(BYTE_BITS * (i - 1))) % 2^BYTE_BITS]

\* uN::from_le_bytes
RECURSIVE FromLE(_)
FromLE(s) == IF s = <<>> THEN 0 ELSE Head(s) + 2^BYTE_BITS * FromLE(Tail(s))

\* Reference definition of a little-endian value: the sum of byte * 256^i.
LEValue(s) == FoldFunction(+, 0, [i \in DOMAIN s |-> s[i] * 2^(BYTE_BITS * (i - 1))])

\* bytes[a..b], 1-based and inclusive
Slice(bytes, a, b) == SubSeq(bytes, a, b)

-----------------------------------------------------------------------------
(* FeeParameters                                                           *)

FeeParameters == [fee_rate_basis_points : 0 .. 2^(BYTE_BITS * U16_BYTES) - 1,
                  maximum_fee : 0 .. 2^(BYTE_BITS * U64_BYTES) - 1]

fee_parameters_to_bytes(p) ==
    ToLE(p.fee_rate_basis_points, U16_BYTES) \o ToLE(p.maximum_fee, U64_BYTES)

\* Mutation: array_refs![bytes, 8, 2], the fields read in the wrong order.
fee_parameters_from_bytes_swapped(bytes) ==
    IF Len(bytes) < FEE_PARAMETERS_BYTES THEN Panic
    ELSE [maximum_fee |-> FromLE(Slice(bytes, 1, U64_BYTES)),
          fee_rate_basis_points |-> FromLE(Slice(bytes, U64_BYTES + 1, FEE_PARAMETERS_BYTES))]

\* array_ref![bytes, 0, 10] then array_refs![bytes, 2, 8]
fee_parameters_from_bytes(bytes) ==
    IF Len(bytes) < FEE_PARAMETERS_BYTES THEN Panic
    ELSE [fee_rate_basis_points |-> FromLE(Slice(bytes, 1, U16_BYTES)),
          maximum_fee |-> FromLE(Slice(bytes, U16_BYTES + 1, FEE_PARAMETERS_BYTES))]

-----------------------------------------------------------------------------
(* TransferWithFeePubkeys                                                  *)

PubkeyFields == <<"source_pubkey", "destination_pubkey", "auditor_pubkey",
                  "withdraw_withheld_authority_pubkey">>

Pubkeys == [{PubkeyFields[i] : i \in 1 .. 4} -> ValidPoints]

\* ElGamalPubkey::to_bytes / from_bytes (compressed point)
pubkey_to_bytes(pk) == ToLE(pk, KEY_BYTES)
pubkey_from_bytes(chunk) == IF FromLE(chunk) \in ValidPoints THEN FromLE(chunk) ELSE None

pubkeys_to_bytes(k) ==
    pubkey_to_bytes(k.source_pubkey) \o pubkey_to_bytes(k.destination_pubkey)
        \o pubkey_to_bytes(k.auditor_pubkey)
        \o pubkey_to_bytes(k.withdraw_withheld_authority_pubkey)

\* The i-th 32-byte array of array_refs![bytes, 32, 32, 32, 32]
KeyChunk(bytes, i) == Slice(bytes, (i - 1) * KEY_BYTES + 1, i * KEY_BYTES)

\* Mutation: the destination and auditor arrays taken in each other's place.
pubkeys_from_bytes_swapped(bytes) ==
    IF Len(bytes) < PUBKEYS_BYTES THEN Panic
    ELSE LET order == <<1, 3, 2, 4>>
             pks == [i \in 1 .. 4 |-> pubkey_from_bytes(KeyChunk(bytes, order[i]))]
         IN  IF \E i \in 1 .. 4 : pks[i] = None THEN Verification
             ELSE [f \in {PubkeyFields[i] : i \in 1 .. 4} |->
                     pks[CHOOSE i \in 1 .. 4 : PubkeyFields[i] = f]]

\* array_ref![bytes, 0, 128]; each key decompressed in order, the first
\* that fails returning ProofError::Verification.
pubkeys_from_bytes(bytes) ==
    IF Len(bytes) < PUBKEYS_BYTES THEN Panic
    ELSE LET pks == [i \in 1 .. 4 |-> pubkey_from_bytes(KeyChunk(bytes, i))]
         IN  IF \E i \in 1 .. 4 : pks[i] = None THEN Verification
             ELSE [f \in {PubkeyFields[i] : i \in 1 .. 4} |->
                     pks[CHOOSE i \in 1 .. 4 : PubkeyFields[i] = f]]

-----------------------------------------------------------------------------
(* Callers: one encode or decode per step.                                 *)

VARIABLES
    call,       \* [op, arg] of the last call, or None
    result      \* what it returned: bytes, a decoded value, Panic or an error

vars == <<call, result>>

\* Byte strings of lengths around n.
BytesAround(n) == UNION {[1 .. len -> Byte] : len \in n - ExtraBytes .. n + ExtraBytes}

Init == call = None /\ result = None

FeeParametersToBytes(p) ==
    /\ call' = [op |-> "fee_to_bytes", arg |-> p]
    /\ result' = fee_parameters_to_bytes(p)

FeeParametersFromBytes(bytes) ==
    /\ call' = [op |-> "fee_from_bytes", arg |-> bytes]
    /\ result' = fee_parameters_from_bytes(bytes)

PubkeysToBytes(k) ==
    /\ call' = [op |-> "pubkeys_to_bytes", arg |-> k]
    /\ result' = pubkeys_to_bytes(k)

PubkeysFromBytes(bytes) ==
    /\ call' = [op |-> "pubkeys_from_bytes", arg |-> bytes]
    /\ result' = pubkeys_from_bytes(bytes)

Next ==
    \/ \E p \in FeeParameters : FeeParametersToBytes(p)
    \/ \E bytes \in BytesAround(FEE_PARAMETERS_BYTES) : FeeParametersFromBytes(bytes)
    \/ \E k \in Pubkeys : PubkeysToBytes(k)
    \/ \E bytes \in BytesAround(PUBKEYS_BYTES) : PubkeysFromBytes(bytes)

Spec == Init /\ [][Next]_vars

-----------------------------------------------------------------------------
TypeOK ==
    /\ call = None \/ call.op \in {"fee_to_bytes", "fee_from_bytes",
                                   "pubkeys_to_bytes", "pubkeys_from_bytes"}
    /\ call # None /\ call.op \in {"fee_to_bytes", "pubkeys_to_bytes"}
           => result \in Seq(Byte)
    /\ call # None /\ call.op = "fee_from_bytes" => result = Panic \/ result \in FeeParameters
    /\ call # None /\ call.op = "pubkeys_from_bytes"
           => result \in {Panic, Verification} \/ result \in Pubkeys

\* FeeParameters are 10 bytes: to_bytes gives the little-endian rate then
\* the little-endian maximum fee, which from_bytes reads back; from_bytes
\* panics exactly on a slice shorter than 10 bytes, and otherwise decodes
\* the first 10 bytes, whatever follows them, to the fields whose
\* encoding they are (the u64 value checked against the byte sum).
FeeParametersRoundTrip ==
    call # None =>
        /\ call.op = "fee_to_bytes" =>
               /\ Len(result) = FEE_PARAMETERS_BYTES
               /\ fee_parameters_from_bytes(result) = call.arg
        /\ call.op = "fee_from_bytes" =>
               IF Len(call.arg) < FEE_PARAMETERS_BYTES THEN result = Panic
               ELSE /\ fee_parameters_to_bytes(result) = Slice(call.arg, 1, FEE_PARAMETERS_BYTES)
                    /\ result.maximum_fee
                           = LEValue(Slice(call.arg, U16_BYTES + 1, FEE_PARAMETERS_BYTES))

\* TransferWithFeePubkeys: from_bytes(to_bytes(k)) = k with each key in
\* its own field; from_bytes panics exactly on a short slice, fails
\* exactly when one of the four 32-byte arrays is not a point, and else
\* returns the keys whose encodings the first 128 bytes are.
PubkeysRoundTrip ==
    call # None =>
        /\ call.op = "pubkeys_to_bytes" =>
               /\ Len(result) = PUBKEYS_BYTES
               /\ pubkeys_from_bytes(result) = call.arg
        /\ call.op = "pubkeys_from_bytes" =>
               CASE Len(call.arg) < PUBKEYS_BYTES -> result = Panic
                 [] \E i \in 1 .. 4 : LEValue(KeyChunk(call.arg, i)) \notin ValidPoints
                       -> result = Verification
                 [] OTHER -> /\ pubkeys_to_bytes(result) = Slice(call.arg, 1, PUBKEYS_BYTES)
                             /\ \A i \in 1 .. 4 :
                                   result[PubkeyFields[i]] = LEValue(KeyChunk(call.arg, i))
=============================================================================
