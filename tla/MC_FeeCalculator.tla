--------------------------- MODULE MC_FeeCalculator ---------------------------
(* The u16 / u64 / u128 widths scaled to 3 / 4 / 8 bits and 10_000 basis  *)
(* points to 5, so that rates above the 100% rate exist (7 > 5) and the   *)
(* rounded-up fee of a large amount at such a rate overflows u64.         *)
EXTENDS FeeCalculator

MC_U16_BITS == 3
MC_U64_BITS == 4
MC_U128_BITS == 8
MC_ONE_IN_BASIS_POINTS == 5
=============================================================================
