---------------------------- MODULE MC_ShredTraits ----------------------------
(* ShredTraits for TLC: Slot (u64) -> 5 bits, u16 -> 2 bits, u32 -> 3      *)
(* bits, so offsets and positions reach past small slots and indexes.     *)
EXTENDS ShredTraits

MC_SLOT_BITS == 5
MC_U16_BITS == 2
MC_U32_BITS == 3
=============================================================================
