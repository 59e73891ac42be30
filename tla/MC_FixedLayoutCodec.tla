-------------------------- MODULE MC_FixedLayoutCodec --------------------------
(* FixedLayoutCodec for TLC: one-bit bytes (the byte counts 2, 8 and 10 of *)
(* FeeParameters are kept, so every u16 and u64 value of that width is     *)
(* encoded), two-byte keys of which one encoding (3) is not a point, and   *)
(* slices one byte shorter and one byte longer than the layout.           *)
EXTENDS FixedLayoutCodec

MC_BYTE_BITS == 1
MC_KEY_BYTES == 2
MC_ValidPoints == {0, 1, 2}
MC_ExtraBytes == 1
=============================================================================
