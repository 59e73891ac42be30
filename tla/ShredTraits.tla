----------------------------- MODULE ShredTraits -----------------------------
(***************************************************************************)
(* The default methods of ledger/src/shred/traits.rs: ShredData::parent    *)
(* (the parent slot of a data shred, from its slot and its u16 parent     *)
(* offset) and ShredCode::first_coding_index (the index of the first      *)
(* coding shred of the erasure set, from the shred's u32 index and its    *)
(* u16 position).  The headers are the inputs; every call is a step.     *)
(* Integer widths are constants so that the checked_sub underflows keep   *)
(* their boundary.                                                         *)
(***************************************************************************)
EXTENDS Integers

CONSTANTS
    SLOT_BITS,       \* width of Slot (u64)
    U16_BITS,        \* width of parent_offset and position (u16)
    U32_BITS,        \* width of index (u32)
    None             \* Option::None / Err(Error::InvalidParentOffset)

ASSUME SLOT_BITS \in Nat /\ U16_BITS \in Nat /\ U32_BITS \in Nat

Slot == 0 .. 2^SLOT_BITS - 1
U16 == 0 .. 2^U16_BITS - 1
U32 == 0 .. 2^U32_BITS - 1

\* checked_sub on an unsigned type: None below zero.
CheckedSub(a, b) == IF a >= b THEN a - b ELSE None

\* Mutation: the subtraction unchecked, as on a signed integer.
parent_unchecked(slot, parent_offset) ==
    IF parent_offset = 0 /\ slot # 0 THEN None ELSE slot - parent_offset

\* ShredData::parent: a zero offset is only valid for slot 0; otherwise
\* slot - parent_offset, an error when it underflows.
parent(slot, parent_offset) ==
    IF parent_offset = 0 /\ slot # 0 THEN None
    ELSE CheckedSub(slot, parent_offset)

\* ShredCode::first_coding_index: index - position, None on underflow.
first_coding_index(index, position) == CheckedSub(index, position)

-----------------------------------------------------------------------------
VARIABLES
    header,     \* the header fields the last call read, or None
    result      \* what that call returned

vars == <<header, result>>

Init == header = None /\ result = None

\* parent() on a data shred with these header fields.
Parent(slot, parent_offset) ==
    /\ header' = [kind |-> "data", slot |-> slot, parent_offset |-> parent_offset]
    /\ result' = parent(slot, parent_offset)

\* first_coding_index() on a coding shred with these header fields.
FirstCodingIndex(index, position) ==
    /\ header' = [kind |-> "code", index |-> index, position |-> position]
    /\ result' = first_coding_index(index, position)

Next ==
    \/ \E slot \in Slot, parent_offset \in U16 : Parent(slot, parent_offset)
    \/ \E index \in U32, position \in U16 : FirstCodingIndex(index, position)

Spec == Init /\ [][Next]_vars

-----------------------------------------------------------------------------
\* Every call returns None or a value of the result's unsigned type: the
\* checked_sub in parent() and first_coding_index() never leaves the
\* range of Slot or u32, as an unchecked subtraction would.
TypeOK ==
    /\ header \in {None}
                  \cup [kind : {"data"}, slot : Slot, parent_offset : U16]
                  \cup [kind : {"code"}, index : U32, position : U16]
    /\ result \in {None} \cup Slot \cup U32
=============================================================================
