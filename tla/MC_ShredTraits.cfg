\* parent() and first_coding_index() over every header of the scaled widths.
CONSTANTS
    SLOT_BITS <- MC_SLOT_BITS
    U16_BITS <- MC_U16_BITS
    U32_BITS <- MC_U32_BITS
    None = None
SPECIFICATION Spec
INVARIANTS
    TypeOK
